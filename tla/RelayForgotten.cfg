\* A second member edits and leaves while the first one flushes.
SPECIFICATION Spec
CONSTANTS
    Conn = {c1, c2}
    Name = {n1}
    Edit = {e1}
    Blank = {}
    Misc = {"malformed"}
    Verdict = {"editor"}
    AuthRequired = TRUE
    Flusher = {}
    MaxRooms = 1
    MaxPendingFrames = 1
    StoreMayFail = FALSE
    None = None
CHECK_DEADLOCK FALSE
PROPERTY ForgottenIsSaved
SYMMETRY Symmetry
