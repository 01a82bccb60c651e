---------------------------- MODULE MCConnection ----------------------------
(***************************************************************************)
(* The two ends of a connection in one run, a behaviour being of one of    *)
(* them: the tabs with a coarse relay, and the relay's sockets and their   *)
(* shutdown with a coarse core.                                            *)
(***************************************************************************)
EXTENDS CollabClient

CONSTANTS Conn, QueueCap, MaxMerged       \* of RelayServer

VARIABLES end, conn, sockets, draining, serverRoom, merged, main, todo

Server == INSTANCE RelayServer WITH room <- serverRoom, edits <- merged, MaxEdits <- MaxMerged

tabs == vars
server == <<conn, sockets, draining, serverRoom, merged, main, todo>>

(* Nothing is left to happen in these tabs.                                *)
IdleTabs ==
    /\ sock = [c \in Client |-> "closed"] /\ stopped = [c \in Client |-> TRUE]
    /\ seedTimerDone = [c \in Client |-> TRUE]
    /\ attempt = [c \in Client |-> 0] /\ surfaced = [c \in Client |-> 0]
    /\ reconnectedPending = [c \in Client |-> FALSE] /\ timer = [c \in Client |-> FALSE]
    /\ doc = [c \in Client |-> {}] /\ cache = [c \in Client |-> Absent]
    /\ status = [c \in Client |-> "synced"] /\ undoStack = [c \in Client |-> << >>]
    /\ transportConnected = [c \in Client |-> FALSE]
    /\ seedGranted = [c \in Client |-> FALSE] /\ viewerMode = [c \in Client |-> FALSE]
    /\ up = [c \in Client |-> << >>] /\ down = [c \in Client |-> << >>]
    /\ room = {} /\ members = {} /\ seeder = None
    /\ stale = {} /\ drops = 0 /\ edits = 0 /\ foreign = 0

MCInit == Server!Init /\ ((end = "tabs" /\ Init) \/ (end = "server" /\ IdleTabs))

MCNext ==
    \/ end = "tabs" /\ Next /\ UNCHANGED <<end, server>>
    \/ end = "server" /\ Server!Next /\ UNCHANGED <<end, tabs>>

MCFairSpec == MCInit /\ [][MCNext]_<<end, tabs, server>> /\ Fairness /\ Server!Fairness

(* Nothing is merged once the drain is over (see RelayServer).             *)
NoEditAfterDrain == Server!NoEditAfterDrain
(* A closed socket is torn down, and a drain ends (see RelayServer).       *)
SocketsEnd == Server!SocketsEnd
=============================================================================
