\* Two tabs join one room, edit its overlay and lose their connections; or
\* two sockets of the relay, stuck peers, full queues and a SIGTERM.
SPECIFICATION MCFairSpec
CONSTANTS
    Client = {1, 2}
    Override = {n1}
    Style = {s1}
    Val = {a}
    Corrupt = Corrupt
    None = None
    Role = {"editor"}
    MaxRetries = 1
    MaxEvents = 3
    MaxDrops = 1
    MaxEdits = 1
    MaxForeign = 1
    Conn = {c1, c2}
    QueueCap = 1
    MaxMerged = 2
CHECK_DEADLOCK FALSE
INVARIANTS SyncedShowsMaps QuietIsConverged OneSeedUnlessStale
PROPERTIES StopIsFinal Settles GivesUpSeeded NoEditAfterDrain SocketsEnd
