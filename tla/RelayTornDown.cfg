\* A fired debounce callback against the last leaver's flush.
SPECIFICATION Spec
CONSTANTS
    Conn = {c1}
    Name = {n1}
    Edit = {e1, e2}
    Blank = {}
    Misc = {}
    Verdict = {"editor"}
    AuthRequired = TRUE
    Flusher = {}
    MaxRooms = 1
    MaxPendingFrames = 1
    StoreMayFail = FALSE
    None = None
CHECK_DEADLOCK FALSE
INVARIANT TornDownIsStored
