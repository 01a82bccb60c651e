\* Three connections join and leave a room nobody edits, authentication off.
SPECIFICATION Spec
CONSTANTS
    Conn = {c1, c2, c3}
    Name = {n1}
    Edit = {}
    Blank = {}
    Misc = {}
    Verdict = {"editor"}
    AuthRequired = FALSE
    Flusher = {}
    MaxRooms = 1
    MaxPendingFrames = 1
    StoreMayFail = FALSE
    None = None
CHECK_DEADLOCK FALSE
INVARIANTS NoFork OneSeeder NoDeadMember
SYMMETRY Symmetry
