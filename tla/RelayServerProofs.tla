------------------------- MODULE RelayServerProofs -------------------------
(***************************************************************************)
(* For any number of sockets and any queue: once the drain is over nothing *)
(* is merged any more.                                                     *)
(***************************************************************************)
EXTENDS RelayServer, TLAPS

Handlers == {"none", "accepted", "added", "admitting", "waiting", "returned"}
Readers == {"none", "await", "reading", "closing", "done"}
Socket == [handler : Handlers, reader : Readers,
           writer : {"none", "idle", "writing", "stopped"},
           open : BOOLEAN, up : BOOLEAN, closing : BOOLEAN,
           peer : {"up", "stuck", "gone"}, queue : Nat]

(* Every variable has its type.                                            *)
TypeOK ==
    /\ conn \in [Conn -> Socket]
    /\ sockets \subseteq Conn /\ room \subseteq Conn /\ todo \subseteq Conn
    /\ draining \in BOOLEAN /\ edits \in Nat
    /\ main \in {"serving", "draining", "flushing", "exited"}

(* The registry holds the sockets whose handlers run; a read loop that has *)
(* ended has closed its socket first; a member's handler waits for it.     *)
Registered(c) == conn[c].handler \in {"added", "admitting", "waiting"}
ConnOK(c) ==
    /\ Registered(c) <=> c \in sockets
    /\ conn[c].reader \in {"closing", "done"} => ~conn[c].open
    /\ conn[c].handler \in {"none", "accepted"} => conn[c].reader = "none"
    /\ conn[c].handler = "admitting" => conn[c].reader \notin {"none", "await"}
    /\ c \in room => conn[c].handler = "waiting" /\ conn[c].reader # "done"

(* The drain refuses newcomers, and is over when the registry is empty.    *)
MainOK ==
    /\ main # "serving" => draining
    /\ Drained => sockets = {}

IInv == TypeOK /\ (\A c \in Conn : ConnOK(c)) /\ MainOK

LEMMA InitIInv == Init => IInv
<1> SUFFICES ASSUME Init PROVE IInv OBVIOUS
<1> USE DEF Init
<1>1. NoConn \in Socket BY DEF NoConn, Socket, Handlers, Readers
<1>2. TypeOK BY <1>1 DEF TypeOK
<1>3. \A c \in Conn : ConnOK(c) BY DEF ConnOK, Registered, NoConn
<1>4. MainOK BY DEF MainOK, Drained
<1> QED BY <1>2, <1>3, <1>4 DEF IInv

(* What the socket's own operations leave alone.                           *)
SameGoroutines(s, t) ==
    t \in Socket /\ t.handler = s.handler /\ t.reader = s.reader /\ (t.open => s.open)

LEMMA CutOp == ASSUME NEW s \in Socket PROVE SameGoroutines(s, CutNow(s))
BY DEF CutNow, Socket, SameGoroutines

LEMMA CloseOp == ASSUME NEW s \in Socket PROVE SameGoroutines(s, CloseSoon(s))
BY DEF CloseSoon, Socket, SameGoroutines

LEMMA SendOp == ASSUME NEW s \in Socket PROVE SameGoroutines(s, Send(s))
<1>1. CASE ~s.open BY <1>1 DEF Send, SameGoroutines
<1>2. CASE s.open /\ s.queue < QueueCap BY <1>2 DEF Send, Socket, SameGoroutines
<1>3. CASE s.open /\ ~(s.queue < QueueCap) BY <1>3, CutOp, Zenon DEF Send
<1> QED BY <1>1, <1>2, <1>3

LEMMA CutCloses ==
    ASSUME NEW s \in Socket PROVE ~CutNow(s).open
BY DEF CutNow, Socket

(* A step that changes neither the room nor the registry, nor how far a    *)
(* connection's goroutines are, unless its read loop ends.                 *)
Quiet(s, t) ==
    /\ t \in Socket /\ t.handler = s.handler /\ (t.open => s.open)
    /\ t.reader = s.reader \/ (s.reader = "reading" /\ t.reader = "closing" /\ ~t.open)

LEMMA QuietStep ==
    ASSUME IInv, conn' \in [Conn -> Socket], \A c \in Conn : Quiet(conn[c], conn'[c]),
           UNCHANGED <<sockets, draining, room, main>>, todo' \subseteq Conn, edits' \in Nat
    PROVE  IInv'
<1>1. TypeOK' BY DEF IInv, TypeOK
<1>2. ASSUME NEW c \in Conn PROVE ConnOK(c)'
  BY <1>2, Zenon DEF IInv, ConnOK, Registered, Quiet
<1>3. MainOK' BY DEF IInv, MainOK, Drained
<1> QED BY <1>1, <1>2, <1>3 DEF IInv

LEMMA QuietMove ==
    ASSUME IInv, NEW c \in Conn, NEW s \in Socket, conn' = [conn EXCEPT ![c] = s],
           Quiet(conn[c], s),
           UNCHANGED <<sockets, draining, room, main>>, todo' \subseteq Conn, edits' \in Nat
    PROVE  IInv'
<1>1. conn \in [Conn -> Socket] BY DEF IInv, TypeOK
<1>2. conn' \in [Conn -> Socket] BY <1>1
<1>3. ASSUME NEW d \in Conn PROVE Quiet(conn[d], conn'[d])
  <2>1. CASE d = c BY <1>1, <2>1
  <2>2. CASE d # c
    <3>1. conn'[d] = conn[d] /\ conn[d] \in Socket BY <1>1, <2>2
    <3> QED BY <3>1 DEF Quiet
  <2> QED BY <2>1, <2>2
<1> QED BY <1>2, <1>3, QuietStep

(* The invariant after a step, when only connection c is at stake.         *)
LEMMA OneMoves ==
    ASSUME IInv, TypeOK', NEW c \in Conn, NEW s \in Socket,
           conn' = [conn EXCEPT ![c] = s],
           sockets' \ {c} = sockets \ {c}, room' \ {c} = room \ {c},
           ConnOK(c)', MainOK'
    PROVE  IInv'
<1>1. ASSUME NEW d \in Conn \ {c} PROVE ConnOK(d)'
  <2>1. conn'[d] = conn[d] BY DEF IInv, TypeOK
  <2>2. (d \in sockets' <=> d \in sockets) /\ (d \in room' <=> d \in room) OBVIOUS
  <2> QED BY <2>1, <2>2, Zenon DEF IInv, ConnOK, Registered
<1> QED BY <1>1 DEF IInv

LEMMA AcceptStep == ASSUME IInv, NEW c \in Conn, Accept(c) PROVE IInv'
<1> DEFINE s == [conn[c] EXCEPT !.handler = "accepted", !.writer = "idle",
                                !.open = TRUE, !.up = TRUE]
<1>1. conn[c] \in Socket /\ conn \in [Conn -> Socket] /\ ConnOK(c) /\ TypeOK /\ MainOK
  BY DEF IInv, TypeOK
<1>2. s \in Socket BY <1>1 DEF Socket, Handlers
<1>3. conn' = [conn EXCEPT ![c] = s] BY DEF Accept
<1>4. TypeOK' BY <1>1, <1>2, <1>3 DEF Accept, TypeOK
<1>5. MainOK' BY <1>1 DEF Accept, MainOK, Drained
<1>6. ConnOK(c)'
  BY <1>1, <1>2, <1>3 DEF Accept, ConnOK, Registered, Socket
<1> QED BY <1>2, <1>3, <1>4, <1>5, <1>6, OneMoves DEF Accept

LEMMA AddStep == ASSUME IInv, NEW c \in Conn, Add(c) PROVE IInv'
<1>1. conn[c] \in Socket /\ conn \in [Conn -> Socket] /\ ConnOK(c) /\ TypeOK /\ MainOK
  BY DEF IInv, TypeOK
<1>2. CASE Refused
  <2> DEFINE t == CloseSoon(conn[c])
             s == [t EXCEPT !.handler = "returned"]
  <2>1. SameGoroutines(conn[c], t) BY <1>1, CloseOp
  <2>2. s \in Socket /\ s.handler = "returned" /\ s.reader = conn[c].reader
    BY <2>1, <1>1 DEF Socket, Handlers, SameGoroutines
  <2> HIDE DEF s
  <2>3. conn' = [conn EXCEPT ![c] = s] /\ UNCHANGED sockets
    BY <1>2, Zenon DEF Add, s
  <2>4. TypeOK' BY <1>1, <2>2, <2>3 DEF Add, TypeOK
  <2>5. MainOK' BY <1>1, <2>3 DEF Add, MainOK, Drained
  <2>6. ConnOK(c)' BY <1>1, <2>2, <2>3 DEF Add, ConnOK, Registered
  <2> QED BY <2>2, <2>3, <2>4, <2>5, <2>6, OneMoves DEF Add
<1>3. CASE ~Refused
  <2> DEFINE s == [conn[c] EXCEPT !.handler = "added", !.reader = "await"]
  <2>1. s \in Socket BY <1>1 DEF Socket, Handlers, Readers
  <2>2. conn' = [conn EXCEPT ![c] = s] /\ sockets' = sockets \cup {c}
    BY <1>1, <1>3 DEF Add
  <2>3. TypeOK' BY <1>1, <2>1, <2>2 DEF Add, TypeOK
  <2>4. MainOK' BY <1>1, <1>3 DEF Add, MainOK, Drained, Refused
  <2>5. ConnOK(c)' BY <1>1, <2>1, <2>2 DEF Add, ConnOK, Registered, Socket
  <2> QED BY <2>1, <2>2, <2>3, <2>4, <2>5, OneMoves DEF Add
<1> QED BY <1>2, <1>3

LEMMA RegisterStep == ASSUME IInv, NEW c \in Conn, Register(c) PROVE IInv'
<1> DEFINE s == [conn[c] EXCEPT !.handler = "admitting", !.reader = "reading"]
<1>1. conn[c] \in Socket /\ conn \in [Conn -> Socket] /\ ConnOK(c) /\ TypeOK /\ MainOK
  BY DEF IInv, TypeOK
<1>2. s \in Socket BY <1>1 DEF Socket, Handlers, Readers
<1>3. conn' = [conn EXCEPT ![c] = s] BY <1>1 DEF Register
<1>4. TypeOK' BY <1>1, <1>2, <1>3 DEF Register, TypeOK
<1>5. MainOK' BY <1>1 DEF Register, MainOK, Drained
<1>6. ConnOK(c)' BY <1>1, <1>2, <1>3 DEF Register, ConnOK, Registered, Socket
<1> QED BY <1>2, <1>3, <1>4, <1>5, <1>6, OneMoves DEF Register

LEMMA AdmitStep == ASSUME IInv, NEW c \in Conn, Admit(c) PROVE IInv'
<1>1. conn[c] \in Socket /\ conn \in [Conn -> Socket] /\ ConnOK(c) /\ TypeOK /\ MainOK
  BY DEF IInv, TypeOK
<1>2. ASSUME NEW t, SameGoroutines(conn[c], t),
             conn' = [conn EXCEPT ![c] = [t EXCEPT !.handler = "waiting"]],
             room' = room \/ (conn[c].open /\ room' = room \cup {c})
      PROVE  IInv'
  <2> DEFINE s == [t EXCEPT !.handler = "waiting"]
  <2>1. s \in Socket /\ s.handler = "waiting" /\ s.reader = conn[c].reader
        /\ (s.open => conn[c].open)
    BY <1>2 DEF Socket, Handlers, SameGoroutines
  <2> HIDE DEF s
  <2>2. conn' = [conn EXCEPT ![c] = s] BY <1>2, Zenon DEF s
  <2>3. TypeOK' BY <1>1, <1>2, <2>1, <2>2 DEF Admit, TypeOK
  <2>4. MainOK' BY <1>1 DEF Admit, MainOK, Drained
  <2>5. ConnOK(c)' BY <1>1, <1>2, <2>1, <2>2 DEF Admit, ConnOK, Registered
  <2> QED BY <1>2, <2>1, <2>2, <2>3, <2>4, <2>5, OneMoves DEF Admit
<1>3. SameGoroutines(conn[c], Send(conn[c])) /\ SameGoroutines(conn[c], CloseSoon(conn[c]))
  BY <1>1, SendOp, CloseOp
<1> QED BY <1>2, <1>3 DEF Admit

LEMMA ReturnStep == ASSUME IInv, NEW c \in Conn, HandlerReturns(c) PROVE IInv'
<1> DEFINE s == [conn[c] EXCEPT !.handler = "returned"]
<1>1. conn[c] \in Socket /\ conn \in [Conn -> Socket] /\ ConnOK(c) /\ TypeOK /\ MainOK
  BY DEF IInv, TypeOK
<1>2. s \in Socket BY <1>1 DEF Socket, Handlers
<1>3. conn' = [conn EXCEPT ![c] = s] BY <1>1 DEF HandlerReturns
<1>4. TypeOK' BY <1>1, <1>2, <1>3 DEF HandlerReturns, TypeOK
<1>5. MainOK' BY <1>1 DEF HandlerReturns, MainOK, Drained
<1>6. ConnOK(c)' BY <1>1, <1>2, <1>3 DEF HandlerReturns, ConnOK, Registered, Socket
<1> QED BY <1>2, <1>3, <1>4, <1>5, <1>6, OneMoves DEF HandlerReturns

LEMMA OnCloseStep == ASSUME IInv, NEW c \in Conn, OnClose(c) PROVE IInv'
<1> DEFINE s == [conn[c] EXCEPT !.reader = "done"]
<1>1. conn[c] \in Socket /\ conn \in [Conn -> Socket] /\ ConnOK(c) /\ TypeOK /\ MainOK
  BY DEF IInv, TypeOK
<1>2. s \in Socket BY <1>1 DEF Socket, Readers
<1>3. conn' = [conn EXCEPT ![c] = s] BY <1>1 DEF OnClose
<1>4. TypeOK' BY <1>1, <1>2, <1>3 DEF OnClose, TypeOK
<1>5. MainOK' BY <1>1 DEF OnClose, MainOK, Drained
<1>6. ConnOK(c)' BY <1>1, <1>2, <1>3 DEF OnClose, ConnOK, Registered, Socket
<1> QED BY <1>2, <1>3, <1>4, <1>5, <1>6, OneMoves DEF OnClose

-----------------------------------------------------------------------------
(* The loops of a socket, its peer and the drain.                          *)

LEMMA LoopStep ==
    ASSUME IInv, NEW c \in Conn,
           \/ WriteStarts(c) \/ WriteEnds(c) \/ WriterStops(c)
           \/ ReadFails(c) \/ ConnCloses(c) \/ PeerChanges(c)
    PROVE  IInv'
<1>1. conn[c] \in Socket /\ conn \in [Conn -> Socket] /\ todo \subseteq Conn /\ edits \in Nat
  BY DEF IInv, TypeOK
<1>2. SameGoroutines(conn[c], CutNow(conn[c])) /\ ~CutNow(conn[c]).open
  BY <1>1, CutOp, CutCloses
<1>3. CASE WriteStarts(c)
  <2> DEFINE s == [conn[c] EXCEPT !.writer = "writing", !.queue = @ - 1]
  <2>1. s \in Socket /\ Quiet(conn[c], s) BY <1>1, <1>3 DEF WriteStarts, Socket, Quiet
  <2>2. conn' = [conn EXCEPT ![c] = s] BY <1>1, <1>3 DEF WriteStarts
  <2> QED BY <1>1, <1>3, <2>1, <2>2, QuietMove DEF WriteStarts
<1>4. CASE WriteEnds(c)
  <2>1. CASE conn' = [conn EXCEPT ![c].writer = "idle"]
    <3> DEFINE s == [conn[c] EXCEPT !.writer = "idle"]
    <3>1. s \in Socket /\ Quiet(conn[c], s) BY <1>1 DEF Socket, Quiet
    <3>2. conn' = [conn EXCEPT ![c] = s] BY <1>1, <2>1
    <3> QED BY <1>1, <1>4, <3>1, <3>2, QuietMove DEF WriteEnds
  <2>2. CASE conn' = [conn EXCEPT ![c] = [CutNow(@) EXCEPT !.writer = "stopped"]]
    <3> DEFINE t == CutNow(conn[c])
               s == [t EXCEPT !.writer = "stopped"]
    <3> HIDE DEF t
    <3>1. s \in Socket /\ Quiet(conn[c], s) BY <1>2 DEF Socket, Quiet, SameGoroutines, t
    <3>2. conn' = [conn EXCEPT ![c] = s] BY <2>2, Zenon DEF t
    <3> QED BY <1>1, <1>4, <3>1, <3>2, QuietMove DEF WriteEnds
  <2> QED BY <1>4, <2>1, <2>2, Zenon DEF WriteEnds
<1>5. CASE WriterStops(c)
  <2> DEFINE s == [conn[c] EXCEPT !.writer = "stopped"]
  <2>1. s \in Socket /\ Quiet(conn[c], s) BY <1>1 DEF Socket, Quiet
  <2>2. conn' = [conn EXCEPT ![c] = s] BY <1>1, <1>5 DEF WriterStops
  <2> QED BY <1>1, <1>5, <2>1, <2>2, QuietMove DEF WriterStops
<1>6. CASE ReadFails(c)
  <2> DEFINE t == CutNow(conn[c])
             s == [t EXCEPT !.reader = "closing"]
  <2> HIDE DEF t
  <2>1. s \in Socket /\ Quiet(conn[c], s)
    BY <1>2, <1>6 DEF ReadFails, Socket, Readers, Quiet, SameGoroutines, t
  <2>2. conn' = [conn EXCEPT ![c] = s] BY <1>6, Zenon DEF t, ReadFails
  <2> QED BY <1>1, <1>6, <2>1, <2>2, QuietMove DEF ReadFails
<1>7. CASE ConnCloses(c)
  <2> DEFINE s == [conn[c] EXCEPT !.closing = FALSE, !.up = FALSE]
  <2>1. s \in Socket /\ Quiet(conn[c], s) BY <1>1 DEF Socket, Quiet
  <2>2. conn' = [conn EXCEPT ![c] = s] BY <1>1, <1>7 DEF ConnCloses
  <2> QED BY <1>1, <1>7, <2>1, <2>2, QuietMove DEF ConnCloses
<1>8. CASE PeerChanges(c)
  <2>1. PICK p \in {"stuck", "gone"} : conn' = [conn EXCEPT ![c].peer = p]
    BY <1>8, Zenon DEF PeerChanges
  <2> DEFINE s == [conn[c] EXCEPT !.peer = p]
  <2>2. s \in Socket /\ Quiet(conn[c], s) BY <1>1, <2>1 DEF Socket, Quiet
  <2>3. conn' = [conn EXCEPT ![c] = s] BY <1>1, <2>1
  <2> QED BY <1>1, <1>8, <2>2, <2>3, QuietMove DEF PeerChanges
<1> QED BY <1>3, <1>4, <1>5, <1>6, <1>7, <1>8

LEMMA ReadStep == ASSUME IInv, NEW c \in Conn, Read(c) PROVE IInv'
<1>1. conn \in [Conn -> Socket] /\ todo \subseteq Conn /\ edits \in Nat
  BY DEF IInv, TypeOK
<1>2. ASSUME NEW d \in Conn PROVE conn'[d] \in Socket /\ Quiet(conn[d], conn'[d])
  <2>1. conn[d] \in Socket /\ SameGoroutines(conn[d], Send(conn[d])) BY <1>1, SendOp
  <2>2. conn'[d] \in {Send(conn[d]), conn[d]} BY <1>1 DEF Read
  <2> QED BY <2>1, <2>2, Zenon DEF Quiet, SameGoroutines
<1>3. conn' \in [Conn -> Socket] BY <1>2 DEF Read
<1> QED BY <1>1, <1>2, <1>3, QuietStep DEF Read

LEMMA DrainStep == ASSUME IInv, NEW c \in Conn, DrainCloses(c) PROVE IInv'
<1>1. conn \in [Conn -> Socket] /\ conn[c] \in Socket /\ todo \subseteq Conn /\ edits \in Nat
  BY DEF IInv, TypeOK
<1>2. SameGoroutines(conn[c], CloseSoon(conn[c])) BY <1>1, CloseOp
<1>3. Quiet(conn[c], CloseSoon(conn[c])) /\ CloseSoon(conn[c]) \in Socket
  BY <1>2, Zenon DEF Quiet, SameGoroutines
<1>4. conn' = [conn EXCEPT ![c] = CloseSoon(conn[c])] BY Zenon DEF DrainCloses
<1> QED BY <1>1, <1>3, <1>4, QuietMove DEF DrainCloses

LEMMA MainStep == ASSUME IInv, Signal \/ FlushAll \/ Exit PROVE IInv'
<1>1. TypeOK' BY DEF IInv, TypeOK, Signal, FlushAll, Exit
<1>2. UNCHANGED <<conn, sockets, room>> BY DEF Signal, FlushAll, Exit
<1>3. ASSUME NEW c \in Conn PROVE ConnOK(c)'
  BY <1>2, Zenon DEF IInv, ConnOK, Registered
<1>4. MainOK' BY DEF IInv, MainOK, Drained, Signal, FlushAll, Exit, WaitOver
<1> QED BY <1>1, <1>3, <1>4 DEF IInv

LEMMA IInvStep == IInv /\ [Next]_vars => IInv'
<1> SUFFICES ASSUME IInv, [Next]_vars PROVE IInv' OBVIOUS
<1>1. CASE \E c \in Conn : Loops(c) \/ Handler(c) \/ Accept(c) \/ Read(c) \/ PeerChanges(c)
  BY <1>1, LoopStep, OnCloseStep, AddStep, RegisterStep, AdmitStep, ReturnStep, AcceptStep,
     ReadStep, Zenon DEF Loops, Handler
<1>2. CASE Signal \/ Main BY <1>2, MainStep, DrainStep, Zenon DEF Main
<1>3. CASE UNCHANGED vars
  <2>1. UNCHANGED <<conn, sockets, draining, room, edits, main, todo>> BY <1>3 DEF vars
  <2>2. ASSUME NEW c \in Conn PROVE ConnOK(c)'
    BY <2>1, Zenon DEF IInv, ConnOK, Registered
  <2> QED BY <2>1, <2>2 DEF IInv, TypeOK, MainOK, Drained
<1> QED BY <1>1, <1>2, <1>3 DEF Next

(* In every reachable state the registry holds the sockets whose handlers  *)
(* run, and the drain is over only when there are none (socketRegistry).   *)
THEOREM RegistryExact == Spec => []IInv
BY InitIInv, IInvStep, PTL DEF Spec

(* Once the drain has returned no edit is merged and nobody is in a room,  *)
(* for any number of sockets (server.go, add and drain).                   *)
THEOREM NoEditAfterDrainHolds == Spec => NoEditAfterDrain
<1>1. IInv /\ IInv' /\ [Next]_vars => [Drained => edits' = edits /\ room' = {}]_vars
  <2> SUFFICES ASSUME IInv, IInv', Next, Drained PROVE edits' = edits /\ room' = {}
    BY Zenon
  <2>1. sockets = {} /\ main # "serving" /\ main # "draining" BY DEF IInv, MainOK, Drained
  <2>2. \A c \in Conn : conn[c].handler # "admitting" /\ c \notin room
    BY <2>1 DEF IInv, ConnOK, Registered
  <2>3. room = {} BY <2>2 DEF IInv, TypeOK
  <2>4. \A c \in Conn : ~Read(c) /\ ~Admit(c) BY <2>2, Zenon DEF Read, Admit
  <2>5. edits' = edits
    BY <2>4, Zenon DEF Next, Loops, Handler, Main, WriteStarts, WriteEnds, WriterStops, ReadFails,
       OnClose, ConnCloses, Add, Register, HandlerReturns, Accept, PeerChanges, Signal,
       FlushAll, Exit, DrainCloses
  <2>6. room' \subseteq room
    BY <2>4 DEF Next, Loops, Handler, Main, WriteStarts, WriteEnds, WriterStops, ReadFails,
       OnClose, ConnCloses, Add, Register, HandlerReturns, Accept, PeerChanges, Signal,
       FlushAll, Exit, DrainCloses
  <2> QED BY <2>3, <2>5, <2>6
<1> QED BY <1>1, RegistryExact, PTL DEF Spec, NoEditAfterDrain
=============================================================================
