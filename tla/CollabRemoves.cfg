\* A tab moves a node after its peer sent an entry it rejected.
SPECIFICATION Spec
CONSTANTS
    Client = {1}
    Override = {n1, n2}
    Style = {s1}
    Val = {a}
    Corrupt = Corrupt
    None = None
    Role = {"editor"}
    MaxRetries = 1
    MaxEvents = 3
    MaxDrops = 1
    MaxEdits = 1
    MaxForeign = 2
CHECK_DEADLOCK FALSE
PROPERTY ShownBeforeRemoved
