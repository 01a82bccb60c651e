---------------------------- MODULE RelayServer ----------------------------
(***************************************************************************)
(* The relay process around its core (cmd/relay-server): for each socket   *)
(* the goroutine of its request, its read loop and its write loop over a   *)
(* bounded queue, the registry of live sockets, and the shutdown sequence. *)
(* The core is coarse here, one room without authentication: RelayCore has *)
(* it in detail, debounced saves included.                                 *)
(***************************************************************************)
EXTENDS Naturals

CONSTANTS Conn,
          QueueCap,     \* frames in a socket's queue: 512 in the code
          MaxEdits      \* bound of the instance

VARIABLES
    conn,       \* per connection: its goroutines, its socket, its peer
    sockets,    \* socketRegistry.sockets; its WaitGroup counts them
    draining,   \* socketRegistry.draining
    room,       \* connections admitted to the room
    edits,      \* edits merged into the document
    main,       \* the shutdown goroutine
    todo        \* sockets drain has still to close

vars == <<conn, sockets, draining, room, edits, main, todo>>

NoConn == [handler |-> "none", reader |-> "none", writer |-> "none", open |-> FALSE,
           up |-> FALSE, closing |-> FALSE, peer |-> "up", queue |-> 0]

Init ==
    /\ conn = [c \in Conn |-> NoConn]
    /\ sockets = {} /\ draining = FALSE /\ room = {} /\ edits = 0
    /\ main = "serving" /\ todo = {}

-----------------------------------------------------------------------------
(* The socket.  shutdown runs the close action of the first caller only:   *)
(* CloseNow cuts the connection, Close takes the time of a handshake.      *)

CutNow(s) == IF s.open THEN [s EXCEPT !.open = FALSE, !.up = FALSE] ELSE s
CloseSoon(s) == IF s.open THEN [s EXCEPT !.open = FALSE, !.closing = TRUE] ELSE s

ConnCloses(c) ==
    /\ conn[c].closing
    /\ conn' = [conn EXCEPT ![c].closing = FALSE, ![c].up = FALSE]
    /\ UNCHANGED <<sockets, draining, room, edits, main, todo>>

(* Send: a full queue closes the peer, the sender never waits.             *)
Send(s) ==
    IF ~s.open THEN s
    ELSE IF s.queue < QueueCap THEN [s EXCEPT !.queue = @ + 1]
    ELSE CutNow(s)

(* writeLoop: a write ends, or fails after its timeout.                    *)
WriteStarts(c) ==
    /\ conn[c].writer = "idle" /\ conn[c].queue > 0
    /\ conn' = [conn EXCEPT ![c].writer = "writing", ![c].queue = @ - 1]
    /\ UNCHANGED <<sockets, draining, room, edits, main, todo>>

WriteEnds(c) ==
    /\ conn[c].writer = "writing"
    /\ \/ /\ conn[c].up /\ conn[c].peer = "up"
          /\ conn' = [conn EXCEPT ![c].writer = "idle"]
       \/ conn' = [conn EXCEPT ![c] = [CutNow(@) EXCEPT !.writer = "stopped"]]
    /\ UNCHANGED <<sockets, draining, room, edits, main, todo>>

WriterStops(c) ==
    /\ conn[c].writer = "idle" /\ ~conn[c].open
    /\ conn' = [conn EXCEPT ![c].writer = "stopped"]
    /\ UNCHANGED <<sockets, draining, room, edits, main, todo>>

-----------------------------------------------------------------------------
(* The handler of a request, in newHandler and Core.Connect.               *)

(* The upgrade; the listener serves until the very end.                    *)
Accept(c) ==
    /\ conn[c].handler = "none" /\ main # "exited"
    /\ conn' = [conn EXCEPT ![c] = [@ EXCEPT !.handler = "accepted", !.writer = "idle",
                                             !.open = TRUE, !.up = TRUE]]
    /\ UNCHANGED <<sockets, draining, room, edits, main, todo>>

(* Mutant: the registry does not look whether it is draining.              *)
NeverRefused == FALSE
Refused == draining

(* registry.add, and the read loop starts; a refused socket is closed.     *)
Add(c) ==
    /\ conn[c].handler = "accepted"
    /\ IF Refused
       THEN /\ conn' = [conn EXCEPT ![c] = [CloseSoon(@) EXCEPT !.handler = "returned"]]
            /\ UNCHANGED sockets
       ELSE /\ conn' = [conn EXCEPT ![c].handler = "added", ![c].reader = "await"]
            /\ sockets' = sockets \cup {c}
    /\ UNCHANGED <<draining, room, edits, main, todo>>

(* Connect registers both listeners, which releases the read loop.         *)
Register(c) ==
    /\ conn[c].handler = "added"
    /\ conn' = [conn EXCEPT ![c].handler = "admitting", ![c].reader = "reading"]
    /\ UNCHANGED <<sockets, draining, room, edits, main, todo>>

(* admit: the state is sent, the socket joins; one that closed meanwhile   *)
(* does not stay in the room.                                              *)
Admit(c) ==
    /\ conn[c].handler = "admitting"
    /\ \/ /\ room' = IF conn[c].open THEN room \cup {c} ELSE room
          /\ conn' = [conn EXCEPT ![c] = [Send(@) EXCEPT !.handler = "waiting"]]
       \/ /\ conn' = [conn EXCEPT ![c] = [CloseSoon(@) EXCEPT !.handler = "waiting"]]
          /\ UNCHANGED room
    /\ UNCHANGED <<sockets, draining, edits, main, todo>>

(* Connect returns once OnClose has run, and the socket is removed.        *)
HandlerReturns(c) ==
    /\ conn[c].handler = "waiting" /\ conn[c].reader = "done"
    /\ conn' = [conn EXCEPT ![c].handler = "returned"]
    /\ sockets' = sockets \ {c}
    /\ UNCHANGED <<draining, room, edits, main, todo>>

-----------------------------------------------------------------------------
(* readLoop.  A frame is merged and broadcast as long as reads succeed,    *)
(* whether the socket still counts as open or not.                         *)
Read(c) ==
    /\ conn[c].reader = "reading" /\ conn[c].up /\ conn[c].peer = "up"
    /\ c \in room /\ edits < MaxEdits
    /\ edits' = edits + 1
    /\ conn' = [d \in Conn |-> IF d \in room \ {c} THEN Send(conn[d]) ELSE conn[d]]
    /\ UNCHANGED <<sockets, draining, room, main, todo>>

(* Mutant: nothing is done for a socket that somebody else has closed.     *)
ReadEndsIfOpen(c) == conn[c].open /\ conn[c].peer = "gone"
ReadEnds(c) == ~conn[c].up \/ conn[c].peer = "gone"

(* The deferred end of readLoop: it shuts the socket down, if nobody has.  *)
ReadFails(c) ==
    /\ conn[c].reader = "reading" /\ ReadEnds(c)
    /\ conn' = [conn EXCEPT ![c] = [CutNow(@) EXCEPT !.reader = "closing"]]
    /\ UNCHANGED <<sockets, draining, room, edits, main, todo>>

(* OnClose: the core drops the socket from its room and Connect goes on.   *)
OnClose(c) ==
    /\ conn[c].reader = "closing"
    /\ conn' = [conn EXCEPT ![c].reader = "done"]
    /\ room' = room \ {c}
    /\ UNCHANGED <<sockets, draining, edits, main, todo>>

(* A peer stops reading, or goes away.                                     *)
PeerChanges(c) ==
    /\ conn[c].up
    /\ \/ conn[c].peer = "up" /\ conn' = [conn EXCEPT ![c].peer = "stuck"]
       \/ conn[c].peer # "gone" /\ conn' = [conn EXCEPT ![c].peer = "gone"]
    /\ UNCHANGED <<sockets, draining, room, edits, main, todo>>

-----------------------------------------------------------------------------
(* SIGTERM: drain the sockets, flush the rooms, leave.                     *)

Signal ==
    /\ main = "serving"
    /\ main' = "draining" /\ draining' = TRUE /\ todo' = sockets
    /\ UNCHANGED <<conn, sockets, room, edits>>

DrainCloses(c) ==
    /\ main = "draining" /\ c \in todo
    /\ todo' = todo \ {c}
    /\ conn' = [conn EXCEPT ![c] = CloseSoon(@)]
    /\ UNCHANGED <<sockets, draining, room, edits, main>>

(* wg.Wait.                                                                *)
WaitOver == todo = {} /\ sockets = {}

FlushAll ==
    /\ main = "draining" /\ WaitOver
    /\ main' = "flushing"
    /\ UNCHANGED <<conn, sockets, draining, room, edits, todo>>

Exit ==
    /\ main = "flushing" /\ main' = "exited"
    /\ UNCHANGED <<conn, sockets, draining, room, edits, todo>>

-----------------------------------------------------------------------------
Loops(c) ==
    \/ WriteStarts(c) \/ WriteEnds(c) \/ WriterStops(c)
    \/ ReadFails(c) \/ OnClose(c) \/ ConnCloses(c)
Handler(c) == Add(c) \/ Register(c) \/ Admit(c) \/ HandlerReturns(c)
Main == FlushAll \/ Exit \/ \E c \in Conn : DrainCloses(c)

Next ==
    \/ \E c \in Conn : Loops(c) \/ Handler(c) \/ Accept(c) \/ Read(c) \/ PeerChanges(c)
    \/ Signal \/ Main

Spec == Init /\ [][Next]_vars

(* Every goroutine that can go on does: writes time out, a closing         *)
(* handshake is bounded, admission answers.                                *)
Fairness ==
    /\ \A c \in Conn : /\ WF_vars(WriteStarts(c) \/ WriteEnds(c) \/ WriterStops(c))
                       /\ WF_vars(ReadFails(c) \/ OnClose(c))
                       /\ WF_vars(ConnCloses(c)) /\ WF_vars(Handler(c))
    /\ WF_vars(Main)
FairSpec == Spec /\ Fairness

-----------------------------------------------------------------------------
(* Properties.                                                             *)

(* Once drain has returned nobody is left who could merge an edit that     *)
(* FlushAll has not seen: neither a socket that was being accepted while   *)
(* drain took its list, nor a read loop that outlives its socket's Close   *)
(* (server.go, add and drain).                                             *)
Drained == main \in {"flushing", "exited"}
NoEditAfterDrain == [][Drained => edits' = edits /\ room' = {}]_vars

(* Every socket that closes is torn down, however it closed - a full       *)
(* queue, a write that timed out, a rejection, the drain - and so a drain  *)
(* ends (socket.go, shutdown and readLoop).  A socket never opens again,   *)
(* so this is: each one that closes is, in the end, returned.              *)
Ended(c) == conn[c].handler # "none" /\ ~conn[c].open => conn[c].handler = "returned"
SocketsEnd == <>[](main \in {"serving", "exited"} /\ \A c \in Conn : Ended(c))
=============================================================================
