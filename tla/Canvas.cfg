\* One behaviour of the gestures, of the overlay or of the layouts.
SPECIFICATION MCSpec
CONSTANTS
    na = na
    nb = nb
    nc = nc
    nk = nk
    Nodes <- MCNodes
    Container = nc
    Contents = {nk}
    SavedGroups <- MCSavedGroups
    MaxGroups = 3
    MaxAt = 1
    MaxOps = 2
    Family = {"flowchart", "gantt"}
    Viewer = {TRUE, FALSE}
    MaxChanges = 2
    MaxDowns = 2
    Diagrams <- MCDiagrams
    MaxNestDepth = 2
    TicksPerDay = 2
INVARIANTS Forest SceneSound ScheduleSound
PROPERTIES  NudgesUndoable GroupsMoveRigidly PinsHold
CHECK_DEADLOCK FALSE
