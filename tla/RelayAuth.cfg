\* Two connections that may authenticate late or never, two names, one room slot.
SPECIFICATION FairSpec
CONSTANTS
    Conn = {c1, c2}
    Name = {n1, n2}
    Edit = {}
    Blank = {}
    Misc = {}
    Verdict = {"deny", "editor"}
    AuthRequired = TRUE
    Flusher = {}
    MaxRooms = 1
    MaxPendingFrames = 1
    StoreMayFail = TRUE
    None = None
CHECK_DEADLOCK FALSE
INVARIANTS NoDeadSeeder NoGhostRoom
PROPERTIES ClosedIsFinal AdmissionEnds RoomsAreForgotten DeadSocketsEnd
