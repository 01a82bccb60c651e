\* Two connections, a writer or a reader each, two names, one room slot and one
\* edit, authentication off.
SPECIFICATION Spec
CONSTANTS
    Conn = {c1, c2}
    Name = {n1, n2}
    Edit = {e1}
    Blank = {}
    Misc = {}
    Verdict = {"editor", "viewer"}
    AuthRequired = FALSE
    Flusher = {}
    MaxRooms = 1
    MaxPendingFrames = 1
    StoreMayFail = FALSE
    None = None
CHECK_DEADLOCK FALSE
INVARIANT NoMissedEdit
PROPERTY ImplementsRooms
SYMMETRY Symmetry
