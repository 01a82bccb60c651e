\* One connection, two edits and a FlushAll.
SPECIFICATION FairSpec
CONSTANTS
    Conn = {c1}
    Name = {n1}
    Edit = {e1, e2}
    Blank = {}
    Misc = {}
    Verdict = {"error", "editor", "viewer"}
    AuthRequired = FALSE
    Flusher = {f1}
    MaxRooms = 1
    MaxPendingFrames = 2
    StoreMayFail = FALSE
    None = None
CHECK_DEADLOCK FALSE
INVARIANTS NoUnsavedEdit NoDroppedEdit
PROPERTIES EditsReachStore
