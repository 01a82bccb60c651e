---------------------------- MODULE RelayEditProofs ----------------------------
(***************************************************************************)
(* What becomes of an edit, for any instance of RelayCore: one accepted    *)
(* from an open connection is merged, one merged reaches every live member *)
(* of the room and is handed to Store.Save, or a thread is on its way to   *)
(* do so, whatever the interleaving; and the relay implements SharedRooms. *)
(***************************************************************************)
EXTENDS RelayCoreProofs

------------------------------------------------------------------------------
(* What a step may do to one thread                                          *)

\* The thread keeps its place and what it holds.
Still(t) == pc'[t] = pc[t] /\ frame'[t] = frame[t] /\ peers'[t] = peers[t] /\ snap'[t] = snap[t]

\* The thread keeps what it holds, and the socket's listener moves it.
Listens(t) ==
    /\ frame'[t] = frame[t] /\ peers'[t] = peers[t] /\ snap'[t] = snap[t]
    /\ \/ pc[t] = "idle" /\ pc'[t] \in {"idle", "authorize", "read"}
       \/ pc[t] = "read" /\ pc'[t] \in {"done", "remove"}

\* The steps a thread of a connection takes itself.
OwnStep(t) ==
    \/ Listens(t) \/ ConnStep(t) \/ SaveStep(t)
    \/ t = Admit(t[2]) /\ AdmitStep(t[2])
    \/ t = Read(t[2]) /\ \E f \in Frame : OnMessage(t[2], f)

LEMMA StillByListeners ==
    ASSUME TInv, NEW t \in ConnThread, NEW c \in Conn,
           \/ \E n \in Name : Connect(c, n)
           \/ SocketFails(c) \/ OnAuthFrame(c) \/ OnClose(c)
           \/ ReaperFires(c) \/ ReaperRejects(c)
    PROVE  Still(t) \/ Listens(t)
<1>. USE DEF Still, localVars, sendVars
<1>a. t \in Thread /\ pc \in [Thread -> PcValue] /\ Admit(c) \in Thread /\ Read(c) \in Thread
      /\ Admit(c) # Read(c)
  BY ThreadFacts DEF TInv, TypeOK
<1>1. CASE \E n \in Name : Connect(c, n)
  <2>1. pc[Admit(c)] = "idle" /\ pc[Read(c)] = "idle"
    BY <1>1 DEF Connect, TInv, RInv, RegistryInv, AdmissionsAgree
  <2>. QED
    BY <1>1, <1>a, <2>1 DEF Connect, Listens
<1>2. CASE SocketFails(c) \/ ReaperFires(c) \/ ReaperRejects(c)
  BY <1>2 DEF SocketFails, ReaperFires, ReaperRejects
<1>3. CASE OnAuthFrame(c)
  <2>1. pc[Admit(c)] = "idle"
    BY <1>3 DEF OnAuthFrame, Reading, TInv, RInv, RegistryInv, AdmissionsAgree, Unplaced
  <2>. QED
    BY <1>3, <1>a, <2>1 DEF OnAuthFrame, Goto, Listens
<1>4. CASE OnClose(c)
  BY <1>4, <1>a DEF OnClose, Reading, Goto, Listens
<1>. QED
  BY <1>1, <1>2, <1>3, <1>4

LEMMA DispatchStill ==
    ASSUME TInv, NEW t \in ConnThread, NEW u \in ConnThread, u # t, NEW f, Dispatch(u, f)
    PROVE  pc'[t] = pc[t] /\ frame'[t] = frame[t]
BY ThreadFacts DEF Dispatch, Goto, TInv, TypeOK

LEMMA StillByOthers ==
    ASSUME TInv, NEW t \in ConnThread, NEW u \in ConnThread, u # t,
           \/ ConnStep(u)
           \/ u = Admit(u[2]) /\ AdmitStep(u[2])
           \/ u = Read(u[2]) /\ \E f \in Frame : OnMessage(u[2], f)
    PROVE  Still(t)
<1>. USE DEF Still, localVars, sendVars
<1>a. /\ t \in Thread /\ u \in Thread /\ u[2] \in Conn /\ pc \in [Thread -> PcValue]
      /\ frame \in [Thread -> Frame \cup {None}] /\ peers \in [Thread -> SUBSET Conn]
      /\ snap \in [Thread -> SUBSET Edit]
  BY ThreadFacts DEF TInv, TypeOK
<1>1. CASE u = Admit(u[2]) /\ AdmitStep(u[2])
  <2>. DEFINE c == u[2]
  <2>1. CASE Authorize(c) \/ LoadRoomLookup(c)
    BY <1>1, <1>a, <2>1 DEF Authorize, LoadRoomLookup, JoinRegistered, ServerFull, Goto
  <2>2. CASE LoadRoomLoad(c) \/ LoadRoomInstall(c)
    BY <1>1, <1>a, <2>2 DEF LoadRoomLoad, LoadRoomInstall, JoinRegistered, ServerFull, Goto
  <2>3. CASE AssignRoom(c) \/ Register(c) \/ CheckOpen(c) \/ DecideGrant(c) \/ Announce(c)
    BY <1>1, <1>a, <2>3 DEF AssignRoom, Register, CheckOpen, DecideGrant, Announce, Goto
  <2>4. CASE OpenPhase(c)
    BY <1>1, <1>a, <2>4 DEF OpenPhase, Goto
  <2>5. CASE Replay(c)
    BY <1>1, <1>a, <2>5, DispatchStill DEF Replay, Goto
  <2>. QED
    BY <1>1, <2>1, <2>2, <2>3, <2>4, <2>5 DEF AdmitStep
<1>2. CASE u = Read(u[2]) /\ \E f \in Frame : OnMessage(u[2], f)
  BY <1>2, <1>a, DispatchStill DEF OnMessage
<1>3. CASE ConnStep(u)
  <2>1. CASE Apply(u) \/ Snapshot(u) \/ SendPeer(u) \/ Regrant(u) \/ Forget(u)
    BY <1>a, <2>1 DEF Apply, Snapshot, SendPeer, Regrant, Forget, Goto
  <2>2. CASE Remove(u)
    <3>1. (\E l : Goto(u, l)) /\ UNCHANGED <<frame, peers, snap>>
      BY <2>2 DEF Remove
    <3>. QED
      BY <1>a, <3>1 DEF Goto
  <2>3. CASE ArmSave(u)
    <3>1. t # Timer(frame[u])
      BY DEF ConnThread, Timer
    <3>. QED
      BY <1>a, <2>3, <3>1, StopTimerFacts DEF ArmSave, TInv, RInv
  <2>. QED
    BY <1>3, <2>1, <2>2, <2>3 DEF ConnStep
<1>. QED
  BY <1>1, <1>2, <1>3

\* A thread that saves a room moves no other but the room's timer.
LEMMA StillBySavers ==
    ASSUME TInv, NEW t \in ConnThread, NEW u \in Thread, u # t, SaveStep(u)
    PROVE  Still(t)
<1>. USE DEF Still, localVars, sendVars
<1>a. /\ t \in Thread /\ pc \in [Thread -> PcValue] /\ snap \in [Thread -> SUBSET Edit]
  BY ThreadFacts DEF TInv, TypeOK
<1>1. CASE FlushStop(u)
  BY <1>a, <1>1, StopTimerFacts DEF FlushStop, TInv, RInv
<1>2. CASE Encode(u)
  BY <1>a, <1>2 DEF Encode, Goto
<1>3. CASE Save(u)
  <2>1. (\E l : Goto(u, l)) /\ snap' = [snap EXCEPT ![u] = {}] /\ UNCHANGED <<frame, peers>>
    BY <1>3 DEF Save
  <2>. QED
    BY <1>a, <2>1 DEF Goto
<1>. QED
  BY <1>1, <1>2, <1>3 DEF SaveStep

\* A thread of a connection stays as it is unless it takes a step itself.
LEMMA OwnSteps ==
    ASSUME TInv, [Next]_vars, NEW t \in ConnThread
    PROVE  Still(t) \/ OwnStep(t)
<1>a. /\ t \in Thread /\ pc \in [Thread -> PcValue]
      /\ \A c \in Conn : /\ Admit(c) \in ConnThread /\ Admit(c)[2] = c
                         /\ Read(c) \in ConnThread /\ Read(c)[2] = c
  BY ThreadFacts, Distinct DEF TInv, TypeOK
<1>1. CASE \E c \in Conn : \/ \E n \in Name : Connect(c, n)
                          \/ SocketFails(c) \/ OnAuthFrame(c) \/ OnClose(c)
                          \/ ReaperFires(c) \/ ReaperRejects(c)
  BY <1>1, StillByListeners DEF OwnStep
<1>2. CASE \E c \in Conn : AdmitStep(c)
  <2>1. PICK c \in Conn : AdmitStep(c)
    BY <1>2
  <2>2. CASE t = Admit(c)
    BY <1>a, <2>1, <2>2 DEF OwnStep
  <2>3. CASE t # Admit(c)
    BY <1>a, <2>1, <2>3, StillByOthers
  <2>. QED
    BY <2>2, <2>3
<1>3. CASE \E c \in Conn : \E f \in Frame : OnMessage(c, f)
  <2>1. PICK c \in Conn : \E f \in Frame : OnMessage(c, f)
    BY <1>3
  <2>2. CASE t = Read(c)
    BY <1>a, <2>1, <2>2 DEF OwnStep
  <2>3. CASE t # Read(c)
    BY <1>a, <2>1, <2>3, StillByOthers
  <2>. QED
    BY <2>2, <2>3
<1>4. CASE \E u \in ConnThread : ConnStep(u)
  BY <1>4, StillByOthers DEF OwnStep
<1>5. CASE \E u \in Thread : SaveStep(u)
  BY <1>5, StillBySavers DEF OwnStep
<1>6. CASE \E e \in Edit : TimerFires(e) \/ TimerClears(e)
  BY <1>6, <1>a, Distinct DEF TimerFires, TimerClears, Goto, Still, localVars, sendVars
<1>7. CASE \E u \in FlushThread : FlushAllStart(u) \/ FlushAllNext(u)
  BY <1>7, <1>a, Distinct DEF FlushAllStart, FlushAllNext, Goto, Still, localVars, sendVars
<1>8. CASE UNCHANGED vars
  BY <1>8 DEF vars, Still, localVars, sendVars
<1>. QED
  BY <1>1, <1>2, <1>3, <1>4, <1>5, <1>6, <1>7, <1>8 DEF Next

------------------------------------------------------------------------------
(* What a step may do to the documents and to the histories                  *)

LEMMA RoomStays ==
    ASSUME TInv, [Next]_vars, NEW c \in Conn, room[c] # None
    PROVE  room'[c] = room[c]
BY RoomMoves

\* The steps that leave the documents, the store and the histories alone.
LEMMA BystandersKeep ==
    ASSUME TInv,
           \/ \E d \in Conn : \/ \E n \in Name : Connect(d, n)
                              \/ SocketFails(d) \/ OnAuthFrame(d) \/ OnClose(d)
                              \/ ReaperFires(d) \/ ReaperRejects(d)
           \/ \E e \in Edit : TimerFires(e)
           \/ \E t \in FlushThread : FlushAllStart(t) \/ FlushAllNext(t)
           \/ UNCHANGED vars
    PROVE  UNCHANGED <<doc, saveTimer, store, sender, inbox, offered>>
BY DEF Connect, SocketFails, OnAuthFrame, OnClose, ReaperFires, ReaperRejects, TimerFires,
       FlushAllStart, FlushAllNext, vars, roomVars, docVars, history

\* An update is merged by the handle of its frame; a document is loaded once, by
\* the admission that creates its room.
LEMMA DocMoves ==
    ASSUME TInv, [Next]_vars
    PROVE  \/ UNCHANGED doc
           \/ \E c \in Conn : /\ pc[Admit(c)] = "install" /\ pc'[Admit(c)] = "assign"
                              /\ doc' = [doc EXCEPT ![c] = snap[Admit(c)]]
                              /\ UNCHANGED <<name, offered>>
           \/ \E t \in ConnThread : /\ Apply(t) /\ frame[t] \in Edit /\ Inst(t) = room[t[2]]
                                    /\ room[t[2]] \in Conn
                                    /\ doc' = [doc EXCEPT ![room[t[2]]] = @ \cup {frame[t]}]
<1>. USE DEF roomVars, docVars, history
<1>1. CASE \E c \in Conn : LoadRoomInstall(c)
  <2>1. PICK c \in Conn : LoadRoomInstall(c)
    BY <1>1
  <2>2. UNCHANGED doc \/ (doc' = [doc EXCEPT ![c] = snap[Admit(c)]] /\ Goto(Admit(c), "assign"))
    BY <2>1 DEF LoadRoomInstall, JoinRegistered, ServerFull
  <2>3. pc[Admit(c)] = "install" /\ UNCHANGED <<name, offered>>
    BY <2>1 DEF LoadRoomInstall
  <2>. QED
    BY <2>2, <2>3, ThreadFacts DEF Goto, TInv, TypeOK
<1>2. CASE \E t \in ConnThread : Apply(t)
  <2>1. PICK t \in ConnThread : Apply(t)
    BY <1>2
  <2>2. Inst(t) = room[t[2]] /\ room[t[2]] \in Conn
    BY <2>1, InstFacts DEF Apply, InRoom
  <2>. QED
    BY <2>1, <2>2 DEF Apply
<1>3. CASE \E d \in Conn : \E f \in Frame : OnMessage(d, f)
  BY <1>3 DEF OnMessage
<1>4. CASE \E d \in Conn : AdmitStep(d) /\ ~LoadRoomInstall(d)
  BY <1>4 DEF AdmitStep, Authorize, LoadRoomLookup, JoinRegistered, ServerFull, LoadRoomLoad,
              AssignRoom, Register, CheckOpen, DecideGrant, Announce, OpenPhase, Replay
<1>5. CASE \E t \in Thread : (ConnStep(t) /\ ~Apply(t)) \/ SaveStep(t)
  BY <1>5 DEF ConnStep, SaveStep, ArmSave, Snapshot, SendPeer, Remove, Regrant, Forget,
              FlushStop, Encode, Save
<1>6. CASE \E e \in Edit : TimerClears(e)
  BY <1>6 DEF TimerClears
<1>7. \A t \in ConnThread : t \in Thread
  BY ThreadFacts
<1>. QED
  BY <1>1, <1>2, <1>3, <1>4, <1>5, <1>6, <1>7, BystandersKeep DEF Next

\* A document that some connection works on loses nothing.
LEMMA DocGrows ==
    ASSUME TInv, [Next]_vars, NEW r \in Conn, ~Unplaced(r)
    PROVE  doc[r] \subseteq doc'[r]
<1>1. doc \in [Conn -> SUBSET Edit]
  BY DEF TInv, TypeOK
<1>2. CASE UNCHANGED doc
  BY <1>2
<1>3. CASE \E c \in Conn : pc[Admit(c)] = "install" /\ doc' = [doc EXCEPT ![c] = snap[Admit(c)]]
  BY <1>1, <1>3 DEF Unplaced
<1>4. CASE \E t \in ConnThread : doc' = [doc EXCEPT ![room[t[2]]] = @ \cup {frame[t]}]
  BY <1>1, <1>4
<1>. QED
  BY <1>2, <1>3, <1>4, DocMoves

\* The room of a connection is one that its creator has installed.
LEMMA RoomPlaced ==
    ASSUME TInv, NEW c \in Conn, room[c] # None
    PROVE  room[c] \in Conn /\ ~Unplaced(room[c])
BY DEF TInv, TypeOK, RInv, RegistryInv, NoEarlyRoom, NamesAgree

\* What has been sent to a socket or handed to the store stays so.
LEMMA HistoryGrows ==
    ASSUME TInv, [Next]_vars
    PROVE  /\ \A c \in Conn : inbox[c] \subseteq inbox'[c]
           /\ \A n \in Name : offered[n] \subseteq offered'[n]
<1>. USE DEF history
<1>0. inbox \in [Conn -> SUBSET Edit] /\ offered \in [Name -> SUBSET Edit]
  BY DEF TInv, TypeOK
<1>1. CASE \E c \in Conn : Announce(c)
  BY <1>0, <1>1 DEF Announce
<1>2. CASE \E t \in ConnThread : SendPeer(t)
  BY <1>0, <1>2 DEF SendPeer
<1>3. CASE \E t \in Thread : Save(t)
  <2>1. PICK t \in Thread : Save(t)
    BY <1>3
  <2>2. (\E n : offered' = [offered EXCEPT ![n] = @ \cup snap[t]]) /\ UNCHANGED inbox
    BY <2>1 DEF Save
  <2>. QED
    BY <1>0, <2>2
<1>4. CASE \E d \in Conn : \E f \in Frame : OnMessage(d, f)
  BY <1>4 DEF OnMessage
<1>5. CASE \E d \in Conn : AdmitStep(d) /\ ~Announce(d)
  BY <1>5 DEF AdmitStep, Authorize, LoadRoomLookup, LoadRoomLoad, LoadRoomInstall, AssignRoom,
              Register, CheckOpen, DecideGrant, OpenPhase, Replay
<1>6. CASE \E t \in Thread : \/ ConnStep(t) /\ ~SendPeer(t)
                             \/ SaveStep(t) /\ ~Save(t)
  BY <1>6 DEF ConnStep, SaveStep, Apply, ArmSave, Snapshot, Remove, Regrant, Forget, FlushStop, Encode
<1>7. CASE \E e \in Edit : TimerClears(e)
  BY <1>7 DEF TimerClears
<1>8. \A t \in ConnThread : t \in Thread
  BY ThreadFacts
<1>. QED
  BY <1>1, <1>2, <1>3, <1>4, <1>5, <1>6, <1>7, <1>8, BystandersKeep DEF Next

\* An edit has one sender: it arrives once.
LEMMA SenderMoves ==
    ASSUME TInv, [Next]_vars, NEW e \in Edit
    PROVE  \/ sender'[e] = sender[e]
           \/ \E c \in Conn : OnMessage(c, e) /\ sender[e] = None /\ sender'[e] = c
<1>. USE DEF history
<1>1. CASE \E c \in Conn : \E f \in Frame : OnMessage(c, f)
  <2>1. PICK c \in Conn, f \in Frame : OnMessage(c, f)
    BY <1>1
  <2>2. /\ sender' = IF f \in Edit THEN [sender EXCEPT ![f] = c] ELSE sender
        /\ f \in Edit => sender[f] = None
    BY <2>1 DEF OnMessage
  <2>3. sender \in [Edit -> Conn \cup {None}]
    BY DEF TInv, TypeOK
  <2>4. f # e => sender'[e] = sender[e]
    BY <2>2, <2>3
  <2>5. f = e => sender[e] = None /\ sender'[e] = c
    BY <2>2, <2>3
  <2>. QED
    BY <2>1, <2>4, <2>5
<1>2. CASE \E d \in Conn : AdmitStep(d)
  BY <1>2 DEF AdmitStep, Authorize, LoadRoomLookup, LoadRoomLoad, LoadRoomInstall, AssignRoom,
              Register, CheckOpen, DecideGrant, Announce, OpenPhase, Replay
<1>3. CASE \E t \in Thread : ConnStep(t) \/ SaveStep(t)
  BY <1>3 DEF ConnStep, SaveStep, Apply, ArmSave, Snapshot, SendPeer, Remove, Regrant, Forget,
              FlushStop, Encode, Save
<1>4. CASE \E g \in Edit : TimerClears(g)
  BY <1>4 DEF TimerClears
<1>5. \A t \in ConnThread : t \in Thread
  BY ThreadFacts
<1>. QED
  BY <1>1, <1>2, <1>3, <1>4, <1>5, BystandersKeep DEF Next

LEMMA SenderStays ==
    ASSUME TInv, [Next]_vars, NEW e \in Edit, sender[e] # None
    PROVE  sender'[e] = sender[e]
BY SenderMoves

------------------------------------------------------------------------------
(* Delivery                                                                  *)

Sending == {"arm", "peers", "send"}

\* A thread that is broadcasting its frame goes on with it.
LEMMA SendingMoves ==
    ASSUME TInv, [Next]_vars, NEW t \in ConnThread, pc[t] \in Sending
    PROVE  Still(t) \/ ArmSave(t) \/ Snapshot(t) \/ SendPeer(t)
<1>1. /\ ~Listens(t) /\ ~SaveStep(t)
      /\ ~(Apply(t) \/ Remove(t) \/ Regrant(t) \/ Forget(t))
  BY DEF Sending, Listens, SaveStep, FlushStop, Encode, Save, Apply, Remove, Regrant, Forget
<1>2. ASSUME t = Admit(t[2]), AdmitStep(t[2]) PROVE FALSE
  BY <1>2 DEF Sending, AdmitStep, Authorize, LoadRoomLookup, LoadRoomLoad, LoadRoomInstall,
              AssignRoom, Register, CheckOpen, DecideGrant, Announce, OpenPhase, Replay
<1>3. ASSUME t = Read(t[2]), NEW f \in Frame, OnMessage(t[2], f) PROVE FALSE
  BY <1>3 DEF Sending, OnMessage, Reading
<1>. QED
  BY <1>1, <1>2, <1>3, OwnSteps DEF OwnStep, ConnStep

\* An edit on its way to a live member stays on its way until it has arrived.
LEMMA ReachesStays ==
    ASSUME MInv, [Next]_vars, NEW c \in Conn, NEW e \in Edit, room[c] # None,
           c \in sockets[room[c]], isOpen[c], Reaches(e, c)
    PROVE  Reaches(e, c)'
<1>0. TInv /\ room'[c] = room[c] /\ room[c] \in Conn /\ c # None
  BY RoomStays, RoomPlaced, ConnAssumption DEF MInv
<1>1. CASE sender[e] = c
  BY <1>0, <1>1, SenderStays DEF Reaches
<1>2. CASE e \in inbox[c]
  BY <1>0, <1>2, HistoryGrows DEF Reaches
<1>3. CASE \E t \in ConnThread : /\ frame[t] = e /\ room[t[2]] = room[c]
                                 /\ \/ pc[t] \in {"arm", "peers"}
                                    \/ pc[t] = "send" /\ c \in peers[t]
  <2>1. PICK t \in ConnThread : /\ frame[t] = e /\ room[t[2]] = room[c]
                                /\ \/ pc[t] \in {"arm", "peers"}
                                   \/ pc[t] = "send" /\ c \in peers[t]
    BY <1>3
  <2>2. t \in Thread /\ t[2] \in Conn /\ room'[t[2]] = room[c] /\ Inst(t) = room[c]
    BY <1>0, <2>1, ThreadFacts, RoomStays, InstFacts DEF InRoom
  <2>3. CASE Still(t)
    BY <1>0, <2>1, <2>2, <2>3 DEF Still, Reaches
  <2>4. CASE ArmSave(t)
    <3>1. /\ pc' = [StopTimer(Inst(t), pc) EXCEPT ![t] = "peers", ![Timer(frame[t])] = Armed(t)]
          /\ frame' = frame
      BY <2>4 DEF ArmSave, localVars, sendVars
    <3>2. pc'[t] = "peers"
      BY <1>0, <2>1, <2>2, <3>1, Distinct, StopTimerFacts DEF TInv, RInv
    <3>. QED
      BY <1>0, <2>1, <2>2, <3>1, <3>2 DEF Reaches
  <2>5. CASE Snapshot(t)
    <3>1. pc'[t] = "send" /\ peers'[t] = sockets[room[c]] \ {t[2]} /\ frame' = frame
      BY <2>2, <2>5, <1>0 DEF Snapshot, Goto, Peers, TInv, TypeOK
    <3>2. CASE t[2] = c
      BY <1>0, <1>1, <2>1, <3>2 DEF TInv, LocalsAgree
    <3>3. CASE t[2] # c
      BY <1>0, <2>1, <2>2, <3>1, <3>3 DEF Reaches
    <3>. QED
      BY <3>2, <3>3
  <2>6. CASE SendPeer(t)
    <3>1. PICK p \in peers[t] :
             /\ peers' = [peers EXCEPT ![t] = @ \ {p}]
             /\ inbox' = IF isOpen[p] /\ frame[t] \in Edit
                         THEN [inbox EXCEPT ![p] = @ \cup {frame[t]}] ELSE inbox
             /\ UNCHANGED <<pc, frame>>
      BY <2>1, <2>6 DEF SendPeer
    <3>2. CASE p = c
      BY <1>0, <2>1, <3>1, <3>2 DEF Reaches, TInv, TypeOK
    <3>3. CASE p # c
      <4>1. pc[t] = "send" /\ c \in peers'[t] /\ pc'[t] = "send" /\ frame'[t] = e
        BY <1>0, <2>1, <2>2, <2>6, <3>1, <3>3 DEF SendPeer, TInv, TypeOK
      <4>. QED
        BY <1>0, <2>2, <4>1 DEF Reaches
    <3>. QED
      BY <3>2, <3>3
  <2>. QED
    BY <1>0, <2>1, <2>3, <2>4, <2>5, <2>6, SendingMoves DEF Sending
<1>. QED
  BY <1>1, <1>2, <1>3 DEF Reaches

\* The edits of a document, before and after a step.
LEMMA NewEdit ==
    ASSUME MInv, [Next]_vars, NEW r \in Conn, ~Unplaced(r), NEW e \in Edit, e \in doc'[r], e \notin doc[r]
    PROVE  \E t \in ConnThread : /\ room[t[2]] = r /\ room'[t[2]] = r
                                 /\ frame'[t] = e /\ pc'[t] = "arm"
<1>0. TInv /\ doc \in [Conn -> SUBSET Edit]
  BY DEF MInv, TInv, TypeOK
<1>1. ~\E c \in Conn : pc[Admit(c)] = "install" /\ c = r
  BY DEF Unplaced
<1>2. PICK t \in ConnThread :
         /\ Apply(t) /\ frame[t] \in Edit /\ Inst(t) = room[t[2]] /\ room[t[2]] \in Conn
         /\ doc' = [doc EXCEPT ![room[t[2]]] = @ \cup {frame[t]}]
  BY <1>0, <1>1, DocMoves
<1>3. room[t[2]] = r /\ frame[t] = e
  BY <1>0, <1>2
<1>4. /\ frame'[t] = frame[t] /\ pc'[t] = "arm"
  BY <1>0, <1>2, ThreadFacts DEF Apply, Goto, TInv, TypeOK
<1>5. room'[t[2]] = r
  BY <1>0, <1>2, <1>3, ThreadFacts, RoomStays, ConnAssumption
<1>. QED
  BY <1>3, <1>4, <1>5

LEMMA DeliveryStep ==
    ASSUME MInv, DeliveryInv, [Next]_vars
    PROVE  DeliveryInv'
<1>. SUFFICES ASSUME NEW c \in Conn, room'[c] # None, c \in sockets'[room'[c]], isOpen'[c],
                     NEW e \in doc'[room'[c]]
              PROVE  /\ Announced(c)' => Reaches(e, c)'
                     /\ pc'[Admit(c)] = "announce" => e \in snap'[Admit(c)] \/ Reaches(e, c)'
  BY DEF DeliveryInv
<1>. DEFINE r == room'[c]
            t == Admit(c)
<1>0. TInv /\ TInv' /\ AdmitEdge(c) /\ t \in ConnThread /\ t \in Thread /\ t[2] = c
  BY TInvStep, StepEdges, Distinct, ThreadFacts DEF MInv, Edges
<1>1. r \in Conn /\ e \in Edit
  BY <1>0 DEF TInv, TypeOK
<1>2. CASE c \notin sockets[r]
  BY <1>0, <1>1, <1>2, NewMember DEF Announced
<1>3. CASE c \in sockets[r]
  <2>1. room[c] = r /\ ~Early(c)
    BY <1>1, <1>3 DEF MInv, MemberInv, MembersPlaced
  <2>2. isOpen[c]
    <3>1. phase[c] = "absent" => Early(c)
      BY <1>0 DEF Early, Unplaced, TInv, RInv, RegistryInv, AdmissionsAgree
    <3>. QED
      BY <1>0, <2>1, <3>1, OpenShrinks
  <2>3. room[c] # None /\ ~Unplaced(r)
    BY <1>0, <1>1, <2>1, RoomPlaced, ConnAssumption
  <2>4. CASE e \notin doc[r]
    <3>1. Reaches(e, c)'
      BY <1>1, <2>3, <2>4, NewEdit DEF Reaches
    <3>. QED
      BY <3>1
  <2>5. CASE e \in doc[r]
    <3>1. Reaches(e, c) => Reaches(e, c)'
      BY <1>1, <1>3, <2>1, <2>2, <2>3, ReachesStays
    <3>2. /\ Announced(c) => Reaches(e, c)
          /\ pc[t] = "announce" => e \in snap[t] \/ Reaches(e, c)
      BY <1>3, <2>1, <2>2, <2>3, <2>5 DEF DeliveryInv
    <3>3. pc[t] \notin Leaving
      BY <2>2 DEF MInv, MemberInv, LeaversGone
    <3>4. CASE pc[t] = "announce"
      <4>1. Still(t) \/ Announce(c)
        <5>1. ~Listens(t) /\ ~SaveStep(t) /\ ~ConnStep(t) /\ t # Read(c)
          BY <3>4, Distinct DEF Listens, SaveStep, FlushStop, Encode, Save, ConnStep, Apply, ArmSave, Snapshot,
                      SendPeer, Remove, Regrant, Forget
        <5>2. AdmitStep(c) => Announce(c)
          BY <3>4 DEF AdmitStep, Authorize, LoadRoomLookup, LoadRoomLoad, LoadRoomInstall,
                      AssignRoom, Register, CheckOpen, DecideGrant, OpenPhase, Replay
        <5>. QED
          BY <1>0, <5>1, <5>2, OwnSteps DEF OwnStep
      <4>2. CASE Still(t)
        BY <3>1, <3>2, <3>4, <4>2 DEF Still, Announced
      <4>3. CASE Announce(c)
        <5>1. e \in snap[t] => e \in inbox'[c]
          BY <1>0, <2>2, <4>3 DEF Announce, TInv, TypeOK
        <5>2. pc'[t] # "announce"
          BY <1>0, <4>3 DEF Announce, Goto, TInv, TypeOK
        <5>. QED
          BY <3>1, <3>2, <3>4, <5>1, <5>2 DEF Reaches
      <4>. QED
        BY <4>1, <4>2, <4>3
    <3>5. CASE pc[t] = "grant" /\ DecideGrant(c)
      <4>1. target[c] = room[c]
        BY <1>0, <2>3 DEF TInv, RInv, RegistryInv, NamesAgree
      <4>2. e \in snap'[t] /\ pc'[t] = "announce"
        BY <1>0, <2>1, <2>5, <3>5, <4>1 DEF DecideGrant, Goto, TInv, TypeOK
      <4>. QED
        BY <4>2 DEF Announced
    <3>6. Announced(c)' \/ pc'[t] = "announce" =>
             Announced(c) \/ pc[t] = "announce" \/ (pc[t] = "grant" /\ DecideGrant(c))
      BY <1>0, <2>1, <3>3 DEF AdmitEdge, BodyEdge, Announced, Early, Unplaced, Leaving, Home, Admit
    <3>7. Announced(c) => pc'[t] # "announce"
      BY <1>0 DEF AdmitEdge, BodyEdge, Announced, Home, Admit
    <3>. QED
      BY <3>1, <3>2, <3>4, <3>5, <3>6, <3>7
  <2>. QED
    BY <2>4, <2>5
<1>. QED
  BY <1>2, <1>3

\* The inductive invariant holds: a member about to be sent its initial state lacks
\* no edit that is neither in that state nor on its way.
THEOREM DeliveryInvariant == Spec => []DeliveryInv
<1>1. Init => MInv /\ DeliveryInv
  <2>1. Init => DeliveryInv
    BY DEF Init, DeliveryInv
  <2>. QED
    BY <2>1, MInvInit
<1>2. MInv /\ DeliveryInv /\ [Next]_vars => (MInv /\ DeliveryInv)'
  BY MInvStep, DeliveryStep
<1>. QED
  BY <1>1, <1>2, PTL DEF Spec

\* Every edit in a room's document is known to each of its live members, or a
\* handle will still send it: no interleaving of a registration, the initial
\* state it is sent and a broadcast's snapshot of the peers loses one.
THEOREM NoMissedEditHolds == Spec => []NoMissedEdit
<1>1. TypeOK /\ DeliveryInv => NoMissedEdit
  <2>. SUFFICES ASSUME TypeOK, DeliveryInv, NEW c \in Conn, room[c] # None, c \in sockets[room[c]],
                       isOpen[c], Announced(c), NEW e \in doc[room[c]]
                PROVE  sender[e] = c \/ e \in inbox[c] \/ OnItsWay(e, c)
    BY DEF NoMissedEdit
  <2>1. Reaches(e, c)
    BY DEF DeliveryInv
  <2>. QED
    BY <2>1 DEF Reaches, OnItsWay
<1>. QED
  BY <1>1, TypeCorrect, DeliveryInvariant, PTL

------------------------------------------------------------------------------
(* Saving                                                                    *)

\* r.saveTimer.Stop() prevents the timer of edit g by a step of thread u.
Stops(u, g) == saveTimer[Inst(u)] = g /\ pc[Timer(g)] = "armed"

\* The timers and the callers of FlushAll move by their own steps, and a timer is
\* also stopped, and set, under Core.mu.
LEMMA BackgroundMoves ==
    ASSUME TInv, [Next]_vars, NEW t \in Thread, t \notin ConnThread
    PROVE  \/ pc'[t] = pc[t] /\ snap'[t] = snap[t] /\ (t \in FlushThread => work'[t] = work[t])
           \/ SaveStep(t)
           \/ \E e \in Edit : t = Timer(e) /\ (TimerFires(e) \/ TimerClears(e))
           \/ t \in FlushThread /\ (FlushAllStart(t) \/ FlushAllNext(t))
           \/ \E u \in ConnThread : ArmSave(u) /\ t = Timer(frame[u])
           \/ \E u \in ConnThread, g \in Edit : ArmSave(u) /\ t = Timer(g) /\ Stops(u, g)
           \/ \E u \in Thread, g \in Edit : FlushStop(u) /\ t = Timer(g) /\ Stops(u, g)
<1>. USE DEF localVars, sendVars, flushVars
<1>a. /\ pc \in [Thread -> PcValue] /\ snap \in [Thread -> SUBSET Edit]
      /\ work \in [FlushThread -> Conn \cup {None}] /\ saveTimer \in [Conn -> Edit \cup {None}]
      /\ \A u \in FlushThread : u \in Thread
      /\ \A u \in ConnThread : u \in Thread
  BY ThreadFacts DEF TInv, TypeOK, FlushThread, Thread
<1>b. ASSUME NEW u \in Thread, Inst(u) \in Conn
      PROVE  \/ StopTimer(Inst(u), pc)[t] = pc[t]
             \/ \E g \in Edit : t = Timer(g) /\ Stops(u, g)
  BY <1>a, <1>b DEF StopTimer, Stops
<1>0. \A c \in Conn : Admit(c) # t /\ Read(c) # t /\ Admit(c) \in Thread /\ Read(c) \in Thread
  BY Distinct, ThreadFacts
<1>1. CASE \E c \in Conn : \/ \E n \in Name : Connect(c, n)
                          \/ SocketFails(c) \/ OnAuthFrame(c) \/ OnClose(c)
                          \/ ReaperFires(c) \/ ReaperRejects(c)
  BY <1>a, <1>0, <1>1 DEF Connect, SocketFails, OnAuthFrame, OnClose, ReaperFires, ReaperRejects, Goto
<1>2. CASE \E c \in Conn : AdmitStep(c)
  <2>1. PICK c \in Conn : AdmitStep(c)
    BY <1>2
  <2>2. CASE Authorize(c) \/ LoadRoomLookup(c) \/ LoadRoomLoad(c) \/ LoadRoomInstall(c)
    BY <1>a, <1>0, <2>2 DEF Authorize, LoadRoomLookup, LoadRoomLoad, LoadRoomInstall, JoinRegistered,
                            ServerFull, Goto
  <2>3. CASE AssignRoom(c) \/ Register(c) \/ CheckOpen(c) \/ DecideGrant(c) \/ Announce(c) \/ OpenPhase(c)
    BY <1>a, <1>0, <2>3 DEF AssignRoom, Register, CheckOpen, DecideGrant, Announce, OpenPhase, Goto
  <2>4. CASE Replay(c)
    BY <1>a, <1>0, <2>4 DEF Replay, Dispatch, Goto
  <2>. QED
    BY <2>1, <2>2, <2>3, <2>4 DEF AdmitStep
<1>3. CASE \E c \in Conn : \E f \in Frame : OnMessage(c, f)
  BY <1>a, <1>0, <1>3 DEF OnMessage, Dispatch, Goto
<1>4. CASE \E u \in ConnThread : ConnStep(u)
  <2>1. PICK u \in ConnThread : ConnStep(u)
    BY <1>4
  <2>2. CASE ArmSave(u) /\ t # Timer(frame[u])
    <3>1. /\ pc' = [StopTimer(Inst(u), pc) EXCEPT ![u] = "peers", ![Timer(frame[u])] = Armed(u)]
          /\ snap' = snap /\ work' = work
      BY <2>2 DEF ArmSave
    <3>2. StopTimer(Inst(u), pc) \in [Thread -> PcValue] /\ u \in Thread /\ Inst(u) \in Conn
      BY <2>2, StopTimerFacts, ThreadFacts, InstFacts DEF TInv, RInv, ArmSave, InRoom
    <3>. QED
      BY <1>b, <2>2, <3>1, <3>2
  <2>3. CASE Apply(u) \/ Snapshot(u) \/ SendPeer(u) \/ Regrant(u) \/ Forget(u)
    BY <1>a, <2>3 DEF Apply, Snapshot, SendPeer, Regrant, Forget, Goto
  <2>4. CASE Remove(u)
    <3>1. (\E l : Goto(u, l)) /\ UNCHANGED <<snap, work>>
      BY <2>4 DEF Remove
    <3>. QED
      BY <1>a, <3>1 DEF Goto
  <2>. QED
    BY <2>1, <2>2, <2>3, <2>4 DEF ConnStep
<1>5. CASE \E u \in Thread : SaveStep(u)
  <2>1. PICK u \in Thread : SaveStep(u)
    BY <1>5
  <2>2. CASE u # t /\ FlushStop(u)
    <3>1. StopTimer(Inst(u), pc) \in [Thread -> PcValue] /\ Inst(u) \in Conn
      <4>1. pc[u] = "stop" /\ StopTimer(Inst(u), pc) \in [Thread -> PcValue]
        BY <2>2, StopTimerFacts DEF FlushStop, TInv, RInv
      <4>. QED
        BY <4>1, InstFacts, Distinct DEF InRoom
    <3>. QED
      BY <1>b, <2>2, <3>1 DEF FlushStop
  <2>3. CASE u # t /\ Encode(u)
    BY <1>a, <2>3 DEF Encode, Goto
  <2>4. CASE u # t /\ Save(u)
    <3>1. (\E l : Goto(u, l)) /\ snap' = [snap EXCEPT ![u] = {}] /\ UNCHANGED work
      BY <2>4 DEF Save
    <3>. QED
      BY <1>a, <2>4, <3>1 DEF Goto
  <2>. QED
    BY <2>1, <2>2, <2>3, <2>4 DEF SaveStep
<1>6. CASE \E e \in Edit : TimerFires(e) \/ TimerClears(e)
  BY <1>a, <1>6, ThreadFacts DEF TimerFires, TimerClears, Goto
<1>7. CASE \E u \in FlushThread : FlushAllStart(u) \/ FlushAllNext(u)
  BY <1>a, <1>7 DEF FlushAllStart, FlushAllNext, Goto
<1>8. CASE UNCHANGED vars
  BY <1>8 DEF vars
<1>. QED
  BY <1>1, <1>2, <1>3, <1>4, <1>5, <1>6, <1>7, <1>8 DEF Next

\* A thread that is about to encode or to save goes on with it, in the same room.
LEMMA SaverMoves ==
    ASSUME TInv, [Next]_vars, NEW t \in Thread, pc[t] \in {"encode", "save"}
    PROVE  /\ Inst(t)' = Inst(t) /\ Inst(t) \in Conn
           /\ \/ pc'[t] = pc[t] /\ snap'[t] = snap[t]
              \/ Encode(t) \/ Save(t)
              \/ pc'[t] = "armed" /\ t[1] = "timer"
<1>1. CASE t \in ConnThread
  <2>0. t[2] \in Conn /\ Inst(t) = room[t[2]] /\ Inst(t) \in Conn /\ Inst(t)' = room'[t[2]]
    BY <1>1, ThreadFacts, InstFacts DEF InRoom, Inst, ConnThread
  <2>1. Inst(t)' = Inst(t)
    BY <2>0, RoomStays, ConnAssumption
  <2>2. CASE Still(t) \/ SaveStep(t)
    BY <2>0, <2>1, <2>2 DEF Still, SaveStep, FlushStop
  <2>3. CASE OwnStep(t) /\ ~SaveStep(t)
    <3>1. ~Listens(t) /\ ~ConnStep(t)
      BY DEF Listens, ConnStep, Apply, ArmSave, Snapshot, SendPeer, Remove, Regrant, Forget
    <3>2. ASSUME t = Admit(t[2]), AdmitStep(t[2]) PROVE FALSE
      BY <3>2 DEF AdmitStep, Authorize, LoadRoomLookup, LoadRoomLoad, LoadRoomInstall,
                  AssignRoom, Register, CheckOpen, DecideGrant, Announce, OpenPhase, Replay
    <3>3. ASSUME t = Read(t[2]), NEW f \in Frame, OnMessage(t[2], f) PROVE FALSE
      BY <3>3 DEF OnMessage, Reading
    <3>. QED
      BY <2>3, <3>1, <3>2, <3>3 DEF OwnStep
  <2>. QED
    BY <1>1, <2>2, <2>3, OwnSteps
<1>2. CASE t \in FlushThread
  <2>0. Inst(t) = work[t] /\ Inst(t)' = work'[t] /\ Inst(t) \in Conn
    BY <1>2, InstFacts DEF Inst, FlushThread
  <2>1. ~FlushAllStart(t) /\ ~FlushAllNext(t) /\ ~FlushStop(t)
    BY DEF FlushAllStart, FlushAllNext, FlushStop
  <2>2. \/ pc'[t] = pc[t] /\ snap'[t] = snap[t] /\ work'[t] = work[t]
        \/ Encode(t) \/ Save(t)
    <3>1. \A e \in Edit : t # Timer(e)
      BY <1>2, Distinct
    <3>2. \A u \in ConnThread : ArmSave(u) => frame[u] \in Edit
      BY DEF ArmSave, TInv, LocalsAgree
    <3>. QED
      BY <1>2, <2>1, <3>1, <3>2, Distinct, BackgroundMoves DEF SaveStep
  <2>3. Encode(t) \/ Save(t) => work'[t] = work[t]
    BY DEF Encode, Save, flushVars
  <2>. QED
    BY <2>0, <2>2, <2>3
<1>3. CASE \E e \in Edit : t = Timer(e)
  <2>1. PICK e \in Edit : t = Timer(e)
    BY <1>3
  <2>2. /\ Inst(t) = room[sender[e]] /\ Inst(t)' = room'[sender'[e]] /\ Inst(t) \in Conn
        /\ sender[e] \in Conn
    BY <2>1, InstFacts DEF Inst, Timer, TInv, TypeOK, LocalsAgree
  <2>3. Inst(t)' = Inst(t)
    BY <2>2, RoomStays, SenderStays, ConnAssumption
  <2>4. ASSUME NEW u \in ConnThread, ArmSave(u), t = Timer(frame[u]) PROVE pc'[t] = "armed"
    <3>1. /\ pc' = [StopTimer(Inst(u), pc) EXCEPT ![u] = "peers", ![Timer(frame[u])] = Armed(u)]
          /\ StopTimer(Inst(u), pc) \in [Thread -> PcValue]
      BY <2>4, StopTimerFacts DEF ArmSave, TInv, RInv
    <3>. QED
      BY <2>4, <3>1 DEF Armed
  <2>5. ~TimerFires(e) /\ ~TimerClears(e) /\ ~FlushStop(t) /\ \A u \in Thread : ~Stops(u, e)
    BY <2>1 DEF TimerFires, TimerClears, FlushStop, Stops
  <2>6. t \notin ConnThread /\ t \notin FlushThread /\ t[1] = "timer"
        /\ \A u \in ConnThread : u \in Thread
    BY <2>1, Distinct, ThreadFacts DEF Timer
  <2>7. \A g \in Edit : t = Timer(g) => g = e
    BY <2>1, Distinct
  <2>. QED
    BY <2>2, <2>3, <2>4, <2>5, <2>6, <2>7, BackgroundMoves DEF SaveStep
<1>. QED
  BY <1>1, <1>2, <1>3, Distinct

\* A timer that is to encode its room is stopped by one that has become the room's
\* timer, or by a flush of the room that goes on to encode it.
LEMMA TimerMoves ==
    ASSUME TInv, SaveInv, [Next]_vars, NEW g \in Edit, pc[Timer(g)] \in {"armed", "clear"}
    PROVE  /\ Inst(Timer(g))' = Inst(Timer(g)) /\ Inst(Timer(g)) \in Conn
           /\ \/ pc'[Timer(g)] \in {"armed", "clear", "encode"}
              \/ \E u \in ConnThread : ArmSave(u) /\ Inst(u) = Inst(Timer(g))
              \/ \E u \in Thread : FlushStop(u) /\ Inst(u) = Inst(Timer(g))
<1>. DEFINE t == Timer(g)
<1>0. t \in Thread /\ t \notin ConnThread /\ t \notin FlushThread /\ \A e \in Edit : t = Timer(e) => e = g
  BY Distinct DEF Thread, Timer
<1>1. /\ Inst(t) = room[sender[g]] /\ Inst(t)' = room'[sender'[g]] /\ Inst(t) \in Conn
      /\ sender[g] \in Conn
  BY InstFacts DEF Inst, Timer, TInv, TypeOK, LocalsAgree
<1>2. Inst(t)' = Inst(t)
  BY <1>1, RoomStays, SenderStays, ConnAssumption
<1>3. ASSUME NEW u \in ConnThread, ArmSave(u), t = Timer(frame[u]) PROVE pc'[t] = "armed"
  <2>1. /\ pc' = [StopTimer(Inst(u), pc) EXCEPT ![u] = "peers", ![Timer(frame[u])] = Armed(u)]
        /\ StopTimer(Inst(u), pc) \in [Thread -> PcValue]
    BY <1>3, StopTimerFacts DEF ArmSave, TInv, RInv
  <2>. QED
    BY <1>0, <1>3, <2>1 DEF Armed
<1>4. TimerFires(g) \/ TimerClears(g) => pc'[t] \in {"clear", "encode"}
  BY <1>0 DEF TimerFires, TimerClears, Goto, TInv, TypeOK
<1>5. ~SaveStep(t)
  BY DEF SaveStep, FlushStop, Encode, Save
<1>6. ASSUME NEW u \in Thread, ArmSave(u) \/ FlushStop(u), u \in ConnThread \/ FlushStop(u), Stops(u, g)
      PROVE  Inst(u) = Inst(t)
  <2>1. Inst(u) \in Conn /\ saveTimer[Inst(u)] = g
    <3>1. pc[u] \in {"arm", "stop"} /\ (pc[u] = "stop" \/ u \in ConnThread)
      BY <1>6 DEF ArmSave, FlushStop
    <3>2. Inst(u) \in Conn
      BY <3>1, InstFacts, Distinct DEF InRoom
    <3>. QED
      BY <1>6, <3>2 DEF Stops
  <2>. QED
    BY <1>1, <2>1, EditAssumption DEF SaveInv
<1>7. \A u \in ConnThread : u \in Thread
  BY ThreadFacts
<1>. QED
  BY <1>0, <1>1, <1>2, <1>3, <1>4, <1>5, <1>6, <1>7, BackgroundMoves

\* A connection's name is set before anything can be loaded for it.
LEMMA NameStays ==
    ASSUME TInv, [Next]_vars, NEW c \in Conn
    PROVE  /\ ~Unplaced(c) \/ phase[c] # "absent" => name'[c] = name[c]
           /\ Unplaced(c)' => Unplaced(c)
<1>1. Unplaced(c)' => Unplaced(c)
  BY StepEdges DEF Edges, AdmitEdge, BodyEdge, Home, Admit, Unplaced
<1>2. ASSUME phase[c] # "absent" PROVE name'[c] = name[c]
  <2>. USE DEF connVars, placeVars
  <2>1. CASE \E d \in Conn, n \in Name : Connect(d, n)
    BY <1>2, <2>1 DEF Connect, TInv, TypeOK
  <2>2. CASE \E d \in Conn : \/ SocketFails(d) \/ OnAuthFrame(d) \/ OnClose(d) \/ ReaperFires(d)
                            \/ ReaperRejects(d) \/ \E f \in Frame : OnMessage(d, f)
    BY <2>2 DEF SocketFails, OnAuthFrame, OnClose, ReaperFires, ReaperRejects, OnMessage
  <2>3. CASE \E d \in Conn : AdmitStep(d)
    BY <2>3 DEF AdmitStep, Authorize, LoadRoomLookup, LoadRoomLoad, LoadRoomInstall, AssignRoom,
                Register, CheckOpen, DecideGrant, Announce, OpenPhase, Replay
  <2>4. CASE \E t \in Thread : ConnStep(t) \/ SaveStep(t)
    BY <2>4 DEF ConnStep, SaveStep, Apply, ArmSave, Snapshot, SendPeer, Remove, Regrant, Forget,
                FlushStop, Encode, Save
  <2>5. CASE \/ \E e \in Edit : TimerFires(e) \/ TimerClears(e)
             \/ \E t \in FlushThread : FlushAllStart(t) \/ FlushAllNext(t)
    BY <2>5 DEF TimerFires, TimerClears, FlushAllStart, FlushAllNext
  <2>6. CASE UNCHANGED vars
    BY <2>6 DEF vars
  <2>7. \A t \in ConnThread : t \in Thread
    BY ThreadFacts
  <2>. QED
    BY <2>1, <2>2, <2>3, <2>4, <2>5, <2>6, <2>7 DEF Next
<1>3. ~Unplaced(c) => phase[c] # "absent"
  BY DEF Unplaced, TInv, RInv, RegistryInv, AdmissionsAgree
<1>. QED
  BY <1>1, <1>2, <1>3

\* The room's timer is the one armed last, or none.
LEMMA SaveTimerMoves ==
    ASSUME TInv, [Next]_vars, NEW i \in Conn, saveTimer'[i] # None
    PROVE  \/ saveTimer'[i] = saveTimer[i]
           \/ \E t \in ConnThread : /\ saveTimer'[i] = frame[t] /\ frame[t] \in Edit
                                    /\ sender[frame[t]] = t[2] /\ room[t[2]] = i
<1>. USE DEF roomVars, docVars
<1>0. saveTimer \in [Conn -> Edit \cup {None}]
  BY DEF TInv, TypeOK
<1>1. CASE \E t \in ConnThread : ArmSave(t)
  <2>1. PICK t \in ConnThread : ArmSave(t)
    BY <1>1
  <2>2. /\ Inst(t) = room[t[2]] /\ Inst(t) \in Conn /\ frame[t] \in Edit
        /\ sender[frame[t]] = t[2] /\ saveTimer' = [saveTimer EXCEPT ![Inst(t)] = frame[t]]
    BY <2>1, InstFacts DEF ArmSave, InRoom, TInv, LocalsAgree
  <2>. QED
    BY <1>0, <2>2
<1>2. CASE \E t \in Thread : FlushStop(t)
  BY <1>0, <1>2 DEF FlushStop
<1>3. CASE \E e \in Edit : TimerClears(e)
  BY <1>0, <1>3 DEF TimerClears
<1>4. CASE \E d \in Conn : AdmitStep(d) \/ \E f \in Frame : OnMessage(d, f)
  BY <1>4 DEF OnMessage, AdmitStep, Authorize, LoadRoomLookup, LoadRoomLoad, LoadRoomInstall,
              AssignRoom, Register, CheckOpen, DecideGrant, Announce, OpenPhase, Replay
<1>5. CASE \E t \in Thread : (ConnStep(t) /\ ~ArmSave(t)) \/ (SaveStep(t) /\ ~FlushStop(t))
  BY <1>5 DEF ConnStep, SaveStep, Apply, Snapshot, SendPeer, Remove, Regrant, Forget, Encode, Save
<1>6. \A t \in ConnThread : t \in Thread
  BY ThreadFacts
<1>. QED
  BY <1>1, <1>2, <1>3, <1>4, <1>5, <1>6, BystandersKeep DEF Next

\* The store holds what has been handed to it, and no more.
LEMMA StoreStep ==
    ASSUME TInv, SaveInv, [Next]_vars, NEW n \in Name
    PROVE  store'[n] \subseteq offered'[n]
<1>. USE DEF roomVars, docVars, history
<1>1. store[n] \subseteq offered[n] /\ offered[n] \subseteq offered'[n]
  BY HistoryGrows DEF SaveInv
<1>2. CASE \E t \in Thread : Save(t)
  <2>1. PICK t \in Thread : Save(t)
    BY <1>2
  <2>2. PICK m : /\ store' = [store EXCEPT ![m] = snap[t]] \/ UNCHANGED store
                 /\ offered' = [offered EXCEPT ![m] = @ \cup snap[t]]
    BY <2>1 DEF Save
  <2>. QED
    BY <1>1, <2>2 DEF TInv, TypeOK
<1>3. CASE \E d \in Conn : AdmitStep(d) \/ \E f \in Frame : OnMessage(d, f)
  BY <1>1, <1>3 DEF OnMessage, AdmitStep, Authorize, LoadRoomLookup, LoadRoomLoad, LoadRoomInstall,
              AssignRoom, Register, CheckOpen, DecideGrant, Announce, OpenPhase, Replay
<1>4. CASE \E t \in Thread : ConnStep(t) \/ (SaveStep(t) /\ ~Save(t))
  BY <1>1, <1>4 DEF ConnStep, SaveStep, Apply, ArmSave, Snapshot, SendPeer, Remove, Regrant, Forget,
                    FlushStop, Encode
<1>5. CASE \E e \in Edit : TimerClears(e)
  BY <1>1, <1>5 DEF TimerClears
<1>6. \A t \in ConnThread : t \in Thread
  BY ThreadFacts
<1>. QED
  BY <1>1, <1>2, <1>3, <1>4, <1>5, <1>6, BystandersKeep DEF Next

\* A thread that is to save an edit of a room's document goes on with it, or another
\* takes over from it, or the edit has been handed to the store.
LEMMA SavingStays ==
    ASSUME TInv, SaveInv, [Next]_vars, NEW r \in Conn, NEW e \in doc[r], Saving(r, e)
    PROVE  e \in offered'[name[r]] \/ Saving(r, e)'
<1>0. /\ pc \in [Thread -> PcValue] /\ snap \in [Thread -> SUBSET Edit] /\ e \in Edit
      /\ offered \in [Name -> SUBSET Edit]
      /\ \A u \in ConnThread : u \in Thread /\ u[2] \in Conn
  BY ThreadFacts DEF TInv, TypeOK
<1>a. ASSUME NEW u \in ConnThread, ArmSave(u), Inst(u) = r
      PROVE  Saving(r, e)'
  <2>1. PICK g \in Edit : g = frame[u] /\ sender[g] = u[2] /\ Inst(u) = room[u[2]]
    BY <1>a, InstFacts DEF ArmSave, InRoom, TInv, LocalsAgree
  <2>2. pc'[Timer(g)] = "armed" /\ Timer(g) \in Thread
    <3>1. /\ pc' = [StopTimer(Inst(u), pc) EXCEPT ![u] = "peers", ![Timer(g)] = Armed(u)]
          /\ StopTimer(Inst(u), pc) \in [Thread -> PcValue]
      BY <1>a, <2>1, StopTimerFacts DEF ArmSave, TInv, RInv
    <3>2. Timer(g) \in Thread
      BY DEF Thread, Timer
    <3>. QED
      BY <2>1, <3>1, <3>2 DEF Armed
  <2>3. sender'[g] = u[2] /\ room'[u[2]] = r
    BY <1>0, <1>a, <2>1, SenderStays, RoomStays, ConnAssumption
  <2>4. Inst(Timer(g))' = r /\ Timer(g)[1] = "timer"
    BY <2>3 DEF Inst, Timer
  <2>. QED
    BY <2>2, <2>4 DEF Saving
<1>b. ASSUME NEW u \in Thread, FlushStop(u), Inst(u) = r
      PROVE  Saving(r, e)'
  <2>1. pc'[u] = "encode"
    <3>1. pc' = [StopTimer(Inst(u), pc) EXCEPT ![u] = "encode"]
      BY <1>b DEF FlushStop
    <3>. QED
      BY <1>b, <3>1, StopTimerFacts DEF TInv, RInv
  <2>2. Inst(u)' = r
    <3>1. pc[u] = "stop"
      BY <1>b DEF FlushStop
    <3>2. CASE u \in ConnThread
      <4>1. Inst(u) = room[u[2]] /\ Inst(u)' = room'[u[2]]
        BY <3>1, <3>2, InstFacts DEF InRoom, Inst, ConnThread
      <4>. QED
        BY <1>0, <1>b, <3>2, <4>1, RoomStays, ConnAssumption
    <3>3. CASE u \in FlushThread
      BY <1>b, <3>3 DEF Inst, FlushThread, FlushStop, localVars, flushVars
    <3>4. CASE \E g \in Edit : u = Timer(g)
      <4>1. PICK g \in Edit : u = Timer(g)
        BY <3>4
      <4>2. /\ Inst(u) = room[sender[g]] /\ Inst(u)' = room'[sender'[g]] /\ sender[g] \in Conn
        BY <3>1, <4>1 DEF Inst, Timer, TInv, TypeOK, LocalsAgree
      <4>. QED
        BY <1>b, <4>2, RoomStays, SenderStays, ConnAssumption
    <3>. QED
      BY <3>2, <3>3, <3>4, Distinct
  <2>. QED
    BY <2>1, <2>2 DEF Saving
<1>1. CASE \E t \in Thread : t[1] = "timer" /\ pc[t] \in {"armed", "clear"} /\ Inst(t) = r
  <2>1. PICK t \in Thread : t[1] = "timer" /\ pc[t] \in {"armed", "clear"} /\ Inst(t) = r
    BY <1>1
  <2>2. PICK g \in Edit : t = Timer(g)
    BY <2>1 DEF Thread, Timer
  <2>3. /\ Inst(t)' = r
        /\ \/ pc'[t] \in {"armed", "clear", "encode"}
           \/ \E u \in ConnThread : ArmSave(u) /\ Inst(u) = r
           \/ \E u \in Thread : FlushStop(u) /\ Inst(u) = r
    BY <2>1, <2>2, TimerMoves
  <2>. QED
    BY <1>a, <1>b, <2>1, <2>3 DEF Saving
<1>2. CASE \E t \in ConnThread : pc[t] = "arm" /\ frame[t] = e /\ Inst(t) = r
  <2>1. PICK t \in ConnThread : pc[t] = "arm" /\ frame[t] = e /\ Inst(t) = r
    BY <1>2
  <2>2. Still(t) \/ ArmSave(t)
    <3>1. ~Snapshot(t) /\ ~SendPeer(t)
      BY <2>1 DEF Snapshot, SendPeer
    <3>. QED
      BY <2>1, <3>1, SendingMoves DEF Sending
  <2>3. Inst(t) = room[t[2]] /\ Inst(t)' = room'[t[2]] /\ Inst(t) \in Conn
    BY <2>1, InstFacts DEF InRoom, Inst, ConnThread
  <2>4. Inst(t)' = r
    BY <1>0, <2>1, <2>3, RoomStays, ConnAssumption
  <2>. QED
    BY <1>0, <1>a, <2>1, <2>2, <2>4 DEF Still, Saving
<1>3. CASE \E t \in Thread : Inst(t) = r /\ (pc[t] = "encode" \/ (pc[t] = "save" /\ e \in snap[t]))
  <2>1. PICK t \in Thread : Inst(t) = r /\ (pc[t] = "encode" \/ (pc[t] = "save" /\ e \in snap[t]))
    BY <1>3
  <2>2. /\ Inst(t)' = r
        /\ \/ pc'[t] = pc[t] /\ snap'[t] = snap[t]
           \/ Encode(t) \/ Save(t)
           \/ pc'[t] = "armed" /\ t[1] = "timer"
    BY <2>1, SaverMoves
  <2>3. CASE Encode(t)
    <3>1. pc'[t] = "save" /\ e \in snap'[t]
      BY <1>0, <2>1, <2>3 DEF Encode, Goto
    <3>. QED
      BY <2>2, <3>1 DEF Saving
  <2>4. CASE Save(t)
    <3>1. offered' = [offered EXCEPT ![name[r]] = @ \cup snap[t]] /\ e \in snap[t]
      BY <2>1, <2>4 DEF Save
    <3>2. name[r] \in Name
      <4>1. phase[r] # "absent"
        BY DEF TInv, RInv, RegistryInv, AdmissionsAgree, SaveInv, Unplaced
      <4>. QED
        BY <4>1 DEF TInv, TypeOK, RInv, RegistryInv, AdmissionsAgree
    <3>. QED
      BY <1>0, <3>1, <3>2
  <2>. QED
    BY <2>1, <2>2, <2>3, <2>4 DEF Saving
<1>. QED
  BY <1>1, <1>2, <1>3 DEF Saving

LEMMA UnsavedStep ==
    ASSUME TInv, SaveInv, [Next]_vars, NEW r \in Conn, NEW e \in doc'[r]
    PROVE  e \in offered'[name'[r]] \/ Saving(r, e)'
<1>0. /\ doc \in [Conn -> SUBSET Edit] /\ name \in [Conn -> Name \cup {None}]
      /\ Unplaced(r) => doc[r] = {}
  BY DEF TInv, TypeOK, SaveInv
<1>1. CASE e \in doc[r]
  <2>1. name'[r] = name[r] /\ name[r] \in Name
    <3>1. phase[r] # "absent"
      BY <1>0, <1>1 DEF TInv, RInv, RegistryInv, AdmissionsAgree, Unplaced
    <3>. QED
      BY <1>0, <3>1, NameStays DEF TInv, RInv, RegistryInv, AdmissionsAgree
  <2>2. e \in offered[name[r]] \/ Saving(r, e)
    BY <1>1 DEF SaveInv, NoUnsavedEdit
  <2>. QED
    BY <1>1, <2>1, <2>2, HistoryGrows, SavingStays
<1>2. CASE e \notin doc[r]
  <2>1. CASE \E c \in Conn : /\ pc[Admit(c)] = "install"
                             /\ doc' = [doc EXCEPT ![c] = snap[Admit(c)]]
                             /\ UNCHANGED <<name, offered>>
    <3>1. /\ pc[Admit(r)] = "install" /\ e \in snap[Admit(r)] /\ UNCHANGED <<name, offered>>
      BY <1>0, <1>2, <2>1
    <3>. QED
      BY <3>1 DEF SaveInv
  <2>2. CASE \E t \in ConnThread : /\ Apply(t) /\ frame[t] \in Edit /\ Inst(t) = room[t[2]]
                                   /\ room[t[2]] \in Conn
                                   /\ doc' = [doc EXCEPT ![room[t[2]]] = @ \cup {frame[t]}]
    <3>1. PICK t \in ConnThread : /\ Apply(t) /\ frame[t] \in Edit /\ Inst(t) = room[t[2]]
                                  /\ room[t[2]] \in Conn
                                  /\ doc' = [doc EXCEPT ![room[t[2]]] = @ \cup {frame[t]}]
      BY <2>2
    <3>2. room[t[2]] = r /\ frame[t] = e
      BY <1>0, <1>2, <3>1
    <3>3. pc'[t] = "arm" /\ frame'[t] = e /\ t \in Thread
      BY <3>1, <3>2, ThreadFacts DEF Apply, Goto, TInv, TypeOK
    <3>4. Inst(t)' = r
      <4>1. Inst(t)' = room'[t[2]]
        BY DEF Inst, ConnThread
      <4>. QED
        BY <3>2, <4>1, ThreadFacts, RoomStays, ConnAssumption
    <3>. QED
      BY <3>3, <3>4 DEF Saving
  <2>. QED
    BY <1>2, <2>1, <2>2, DocMoves
<1>. QED
  BY <1>1, <1>2

LEMMA SaveInvStep ==
    ASSUME TInv, SaveInv, [Next]_vars
    PROVE  SaveInv'
<1>1. NoUnsavedEdit'
  BY UnsavedStep DEF NoUnsavedEdit
<1>2. ASSUME NEW i \in Conn, saveTimer'[i] # None
      PROVE  sender'[saveTimer'[i]] # None /\ room'[sender'[saveTimer'[i]]] = i
  <2>1. PICK g \in Edit : g = saveTimer'[i] /\ sender[g] # None /\ room[sender[g]] = i
    <3>1. CASE saveTimer'[i] = saveTimer[i]
      BY <1>2, <3>1 DEF SaveInv, TInv, TypeOK
    <3>2. CASE \E t \in ConnThread : /\ saveTimer'[i] = frame[t] /\ frame[t] \in Edit
                                     /\ sender[frame[t]] = t[2] /\ room[t[2]] = i
      BY <3>2, ThreadFacts, ConnAssumption
    <3>. QED
      BY <1>2, <3>1, <3>2, SaveTimerMoves
  <2>2. sender'[g] = sender[g] /\ sender[g] \in Conn
    BY <2>1, SenderStays DEF TInv, TypeOK
  <2>. QED
    BY <2>1, <2>2, RoomStays, ConnAssumption
<1>3. ASSUME NEW n \in Name PROVE store'[n] \subseteq offered'[n]
  BY StoreStep
<1>4. ASSUME NEW c \in Conn, pc'[Admit(c)] = "install"
      PROVE  snap'[Admit(c)] \subseteq offered'[name'[c]]
  <2>. DEFINE t == Admit(c)
  <2>0. /\ t \in ConnThread /\ t \in Thread /\ t[2] = c /\ t # Read(c) /\ AdmitEdge(c)
        /\ pc \in [Thread -> PcValue] /\ snap \in [Thread -> SUBSET Edit]
        /\ name \in [Conn -> Name \cup {None}]
    BY ThreadFacts, Distinct, StepEdges DEF TInv, TypeOK, Edges
  <2>1. pc[t] = "install" \/ pc[t] = "load"
    BY <1>4, <2>0 DEF AdmitEdge, BodyEdge, Home, Admit
  <2>2. phase[c] # "absent" /\ name[c] \in Name /\ name'[c] = name[c]
    BY <2>0, <2>1, NameStays DEF TInv, RInv, RegistryInv, AdmissionsAgree
  <2>3. Still(t) \/ AdmitStep(c)
    <3>1. ~Listens(t) /\ ~ConnStep(t) /\ ~SaveStep(t)
      BY <2>1 DEF Listens, ConnStep, Apply, ArmSave, Snapshot, SendPeer, Remove, Regrant, Forget,
                  SaveStep, FlushStop, Encode, Save
    <3>. QED
      BY <2>0, <3>1, OwnSteps DEF OwnStep
  <2>4. CASE Still(t)
    <3>1. pc[t] = "install" /\ snap'[t] = snap[t]
      BY <1>4, <2>4 DEF Still
    <3>. QED
      BY <2>2, <3>1, HistoryGrows DEF SaveInv
  <2>5. CASE LoadRoomLoad(c)
    <3>1. snap'[t] = store[name[c]]
      BY <1>4, <2>0, <2>5 DEF LoadRoomLoad, Goto
    <3>2. store[name[c]] \subseteq offered[name[c]]
      BY <2>2 DEF SaveInv
    <3>. QED
      BY <2>2, <3>1, <3>2, HistoryGrows
  <2>6. AdmitStep(c) => LoadRoomLoad(c)
    <3>1. LoadRoomInstall(c) => pc'[t] # "install"
      BY <2>0 DEF LoadRoomInstall, JoinRegistered, ServerFull, Goto
    <3>. QED
      BY <1>4, <2>1, <3>1 DEF AdmitStep, Authorize, LoadRoomLookup, AssignRoom, Register, CheckOpen,
                              DecideGrant, Announce, OpenPhase, Replay
  <2>. QED
    BY <2>3, <2>4, <2>5, <2>6
<1>5. ASSUME NEW c \in Conn, Unplaced(c)'
      PROVE  doc'[c] = {}
  <2>1. Unplaced(c) /\ doc[c] = {}
    BY <1>5, NameStays DEF SaveInv
  <2>2. \A t \in ConnThread : room[t[2]] = c => FALSE
    BY <2>1, ThreadFacts, RoomPlaced, ConnAssumption
  <2>3. pc'[Admit(c)] # "assign"
    BY <1>5 DEF Unplaced
  <2>. QED
    BY <2>1, <2>2, <2>3, DocMoves DEF TInv, TypeOK
<1>. QED
  BY <1>1, <1>2, <1>3, <1>4, <1>5 DEF SaveInv

\* The inductive invariant holds: every edit merged has been handed to the store or
\* is going to be, by a thread whose room it is in.
THEOREM SaveInvariant == Spec => []SaveInv
<1>1. Init => TInv /\ SaveInv
  <2>1. Init => SaveInv
    BY ThreadFacts DEF Init, SaveInv, NoUnsavedEdit
  <2>. QED
    BY <2>1, TInvInit
<1>2. TInv /\ SaveInv /\ [Next]_vars => (TInv /\ SaveInv)'
  BY TInvStep, SaveInvStep
<1>. QED
  BY <1>1, <1>2, PTL DEF Spec

\* Every edit merged into a document was handed to Store.Save, or a timer, a flush
\* or a handle will still do it, however they race for saveTimer.
THEOREM NoUnsavedEditHolds == Spec => []NoUnsavedEdit
<1>1. SaveInv => NoUnsavedEdit
  BY DEF SaveInv
<1>. QED
  BY <1>1, SaveInvariant, PTL

------------------------------------------------------------------------------
(* From the frame to the document                                            *)

\* A connection is opened by its admission, and once.
LEMMA PhaseMoves ==
    ASSUME TInv, [Next]_vars, NEW c \in Conn
    PROVE  \/ phase'[c] \in {phase[c], "closed"}
           \/ phase[c] = "absent" /\ phase'[c] = "pending"
           \/ phase[c] = "pending" /\ phase'[c] = "open"
<1>. USE DEF connVars, socketVars
<1>0. phase \in [Conn -> {"absent", "pending", "open", "closed"}]
  BY DEF TInv, TypeOK
<1>1. CASE \E d \in Conn : (\E n \in Name : Connect(d, n)) \/ OnClose(d) \/ ReaperRejects(d)
  BY <1>0, <1>1 DEF Connect, OnClose, ReaperRejects, Refuse
<1>2. CASE \E d \in Conn : SocketFails(d) \/ OnAuthFrame(d) \/ ReaperFires(d)
  BY <1>2 DEF SocketFails, OnAuthFrame, ReaperFires
<1>3. CASE \E d \in Conn : \E f \in Frame : OnMessage(d, f)
  BY <1>0, <1>3 DEF OnMessage, Dispatch, Refuse
<1>4. CASE \E d \in Conn : \/ Authorize(d) \/ LoadRoomLookup(d) \/ LoadRoomLoad(d) \/ LoadRoomInstall(d)
  BY <1>0, <1>4 DEF Authorize, LoadRoomLookup, LoadRoomLoad, LoadRoomInstall, JoinRegistered,
                    ServerFull, Refuse
<1>5. CASE \E d \in Conn : \/ AssignRoom(d) \/ Register(d) \/ CheckOpen(d) \/ DecideGrant(d)
                          \/ Announce(d) \/ OpenPhase(d) \/ Replay(d)
  BY <1>0, <1>5 DEF AssignRoom, Register, CheckOpen, DecideGrant, Announce, OpenPhase, StillPending,
                    Replay, Dispatch, Refuse
<1>6. CASE \E t \in Thread : ConnStep(t) \/ SaveStep(t)
  BY <1>6 DEF ConnStep, SaveStep, Apply, ArmSave, Snapshot, SendPeer, Remove, Regrant, Forget,
              FlushStop, Encode, Save
<1>7. CASE \/ \E e \in Edit : TimerFires(e) \/ TimerClears(e)
           \/ \E t \in FlushThread : FlushAllStart(t) \/ FlushAllNext(t)
  BY <1>7 DEF TimerFires, TimerClears, FlushAllStart, FlushAllNext
<1>8. CASE UNCHANGED vars
  BY <1>8 DEF vars
<1>9. \A t \in ConnThread : t \in Thread
  BY ThreadFacts
<1>. QED
  BY <1>1, <1>2, <1>3, <1>4, <1>5, <1>6, <1>7, <1>8, <1>9 DEF Next, AdmitStep

\* The frames buffered for a connection: a new one goes behind the others, and the
\* replay takes the first.
LEMMA BufferMoves ==
    ASSUME TInv, [Next]_vars, NEW c \in Conn
    PROVE  \/ buffer'[c] = buffer[c]
           \/ \E f \in Frame : buffer'[c] = Append(buffer[c], f)
           \/ /\ pc[Admit(c)] = "replay" /\ buffer[c] # <<>> /\ buffer'[c] = Tail(buffer[c])
              /\ Dispatch(Admit(c), Head(buffer[c]))
<1>. USE DEF connVars, inputVars
<1>0. buffer \in [Conn -> Seq(Frame)]
  BY DEF TInv, TypeOK
<1>1. CASE \E d \in Conn : \/ \E n \in Name : Connect(d, n)
                          \/ SocketFails(d) \/ OnAuthFrame(d) \/ OnClose(d)
                          \/ ReaperFires(d) \/ ReaperRejects(d)
  BY <1>1 DEF Connect, SocketFails, OnAuthFrame, OnClose, ReaperFires, ReaperRejects
<1>2. CASE \E d \in Conn : \E f \in Frame : OnMessage(d, f)
  BY <1>0, <1>2 DEF OnMessage, Buffered
<1>3. CASE \E d \in Conn : Replay(d)
  <2>1. PICK d \in Conn : Replay(d)
    BY <1>3
  <2>2. CASE d = c
    BY <1>0, <2>1, <2>2 DEF Replay
  <2>3. CASE d # c
    BY <1>0, <2>1, <2>3 DEF Replay
  <2>. QED
    BY <2>2, <2>3
<1>4. CASE \E d \in Conn : AdmitStep(d) /\ ~Replay(d)
  BY <1>4 DEF AdmitStep, Authorize, LoadRoomLookup, LoadRoomLoad, LoadRoomInstall, AssignRoom,
              Register, CheckOpen, DecideGrant, Announce, OpenPhase
<1>5. CASE \E t \in Thread : ConnStep(t) \/ SaveStep(t)
  BY <1>5 DEF ConnStep, SaveStep, Apply, ArmSave, Snapshot, SendPeer, Remove, Regrant, Forget,
              FlushStop, Encode, Save
<1>6. CASE \/ \E e \in Edit : TimerFires(e) \/ TimerClears(e)
           \/ \E t \in FlushThread : FlushAllStart(t) \/ FlushAllNext(t)
  BY <1>6 DEF TimerFires, TimerClears, FlushAllStart, FlushAllNext
<1>7. CASE UNCHANGED vars
  BY <1>7 DEF vars
<1>8. \A t \in ConnThread : t \in Thread
  BY ThreadFacts
<1>. QED
  BY <1>1, <1>2, <1>3, <1>4, <1>5, <1>6, <1>7, <1>8 DEF Next

\* A frame that is in the buffer stays there until it is dispatched.
LEMMA BufferedStays ==
    ASSUME TInv, [Next]_vars, NEW c \in Conn, NEW e, NEW k \in DOMAIN buffer[c], buffer[c][k] = e
    PROVE  \/ \E j \in DOMAIN buffer'[c] : buffer'[c][j] = e
           \/ pc[Admit(c)] = "replay" /\ Dispatch(Admit(c), e)
<1>0. buffer[c] \in Seq(Frame)
  BY DEF TInv, TypeOK
<1>1. CASE buffer'[c] = buffer[c]
  BY <1>1
<1>2. CASE \E f \in Frame : buffer'[c] = Append(buffer[c], f)
  BY <1>0, <1>2
<1>3. CASE /\ pc[Admit(c)] = "replay" /\ buffer[c] # <<>> /\ buffer'[c] = Tail(buffer[c])
           /\ Dispatch(Admit(c), Head(buffer[c]))
  <2>1. CASE k = 1
    BY <1>0, <1>3, <2>1
  <2>2. CASE k # 1
    <3>1. k - 1 \in DOMAIN Tail(buffer[c]) /\ Tail(buffer[c])[k - 1] = e
      BY <1>0, <1>3, <2>2
    <3>. QED
      BY <1>3, <3>1
  <2>. QED
    BY <2>1, <2>2
<1>. QED
  BY <1>1, <1>2, <1>3, BufferMoves

\* A role is settled by authorize, and once.
LEMMA RoleMoves ==
    ASSUME TInv, [Next]_vars, NEW c \in Conn
    PROVE  role'[c] = role[c] \/ (pc[Admit(c)] = "authorize" /\ pc'[Admit(c)] = "lookup")
<1>. USE DEF connVars, placeVars
<1>1. CASE \E d \in Conn : Authorize(d)
  <2>1. PICK d \in Conn : Authorize(d)
    BY <1>1
  <2>2. /\ pc[Admit(d)] = "authorize"
        /\ UNCHANGED role \/ \E ro : role' = [role EXCEPT ![d] = ro] /\ Goto(Admit(d), "lookup")
    BY <2>1 DEF Authorize
  <2>. QED
    BY <2>2, ThreadFacts DEF Goto, TInv, TypeOK
<1>2. CASE \E d \in Conn : \/ \E n \in Name : Connect(d, n)
                          \/ SocketFails(d) \/ OnAuthFrame(d) \/ OnClose(d) \/ ReaperFires(d)
                          \/ ReaperRejects(d) \/ \E f \in Frame : OnMessage(d, f)
  BY <1>2 DEF Connect, SocketFails, OnAuthFrame, OnClose, ReaperFires, ReaperRejects, OnMessage
<1>3. CASE \E d \in Conn : AdmitStep(d) /\ ~Authorize(d)
  BY <1>3 DEF AdmitStep, LoadRoomLookup, LoadRoomLoad, LoadRoomInstall, AssignRoom,
              Register, CheckOpen, DecideGrant, Announce, OpenPhase, Replay
<1>4. CASE \E t \in Thread : ConnStep(t) \/ SaveStep(t)
  BY <1>4 DEF ConnStep, SaveStep, Apply, ArmSave, Snapshot, SendPeer, Remove, Regrant, Forget,
              FlushStop, Encode, Save
<1>5. CASE \/ \E e \in Edit : TimerFires(e) \/ TimerClears(e)
           \/ \E t \in FlushThread : FlushAllStart(t) \/ FlushAllNext(t)
  BY <1>5 DEF TimerFires, TimerClears, FlushAllStart, FlushAllNext
<1>6. CASE UNCHANGED vars
  BY <1>6 DEF vars
<1>7. \A t \in ConnThread : t \in Thread
  BY ThreadFacts
<1>. QED
  BY <1>1, <1>2, <1>3, <1>4, <1>5, <1>6, <1>7 DEF Next

\* The role of a connection is settled before it is opened.
LEMMA RoleStays ==
    ASSUME TInv, [Next]_vars, NEW c \in Conn, ~Unplaced(c)
    PROVE  role'[c] = role[c]
BY RoleMoves DEF Unplaced

\* What dispatching a frame does: a frame that is not refused is held by the thread.
LEMMA DispatchHolds ==
    ASSUME TInv, NEW t \in ConnThread, NEW f \in Frame, Dispatch(t, f)
    PROVE  \/ phase'[t[2]] = "closed" /\ frame'[t] = frame[t] /\ pc'[t] \in {"read", "replay"}
           \/ /\ f = "unknown" \/ (f # "aware" /\ ~CanWrite(role[t[2]]))
              /\ frame'[t] = frame[t] /\ pc'[t] \in {"read", "replay"}
           \/ frame'[t] = f /\ pc'[t] = IF f = "aware" THEN "peers" ELSE "apply"
<1>0. /\ t \in Thread /\ t[2] \in Conn /\ pc \in [Thread -> PcValue]
      /\ frame \in [Thread -> Frame \cup {None}]
      /\ phase \in [Conn -> {"absent", "pending", "open", "closed"}]
  BY ThreadFacts DEF TInv, TypeOK
<1>. QED
  BY <1>0 DEF Dispatch, Goto, Refuse, Home

\* A thread holds a frame while it handles it; one that is broadcasting an edit has
\* merged it first.
LEMMA HandledStep ==
    ASSUME TInv, FrameInv, [Next]_vars, NEW t \in ConnThread
    PROVE  /\ frame'[t] # None => pc'[t] \in {"apply", "arm", "peers", "send"}
           /\ pc'[t] \in Sending /\ frame'[t] \in Edit => frame'[t] \in doc'[room'[t[2]]]
<1>. DEFINE c == t[2]
<1>0. /\ t \in Thread /\ c \in Conn /\ pc \in [Thread -> PcValue]
      /\ frame \in [Thread -> Frame \cup {None}] /\ doc \in [Conn -> SUBSET Edit]
  BY ThreadFacts DEF TInv, TypeOK
<1>a. /\ frame[t] # None => pc[t] \in {"apply", "arm", "peers", "send"}
      /\ pc[t] \in Sending /\ frame[t] \in Edit => frame[t] \in doc[room[c]]
  BY DEF FrameInv, Sending
<1>b. pc[t] \in {"apply", "arm", "peers", "send"} =>
         room[c] \in Conn /\ room'[c] = room[c] /\ doc[room[c]] \subseteq doc'[room[c]]
  <2>. SUFFICES ASSUME pc[t] \in {"apply", "arm", "peers", "send"}
                PROVE  room[c] \in Conn /\ room'[c] = room[c] /\ doc[room[c]] \subseteq doc'[room[c]]
    OBVIOUS
  <2>1. room[c] # None
    BY DEF TInv, LocalsAgree, InRoom
  <2>. QED
    BY <1>0, <2>1, RoomPlaced, RoomStays, DocGrows
<1>c. ASSUME frame'[t] = frame[t], pc[t] \notin {"apply", "arm", "peers", "send"},
             pc'[t] \notin Sending
      PROVE  /\ frame'[t] # None => pc'[t] \in {"apply", "arm", "peers", "send"}
             /\ pc'[t] \in Sending /\ frame'[t] \in Edit => frame'[t] \in doc'[room'[c]]
  BY <1>a, <1>c
<1>d. ASSUME NEW f \in Frame, Dispatch(t, f), pc[t] \in {"replay", "read"}
      PROVE  /\ frame'[t] # None => pc'[t] \in {"apply", "arm", "peers", "send"}
             /\ pc'[t] \in Sending /\ frame'[t] \in Edit => frame'[t] \in doc'[room'[c]]
  BY <1>a, <1>d, DispatchHolds, MiscAssumption DEF Sending
<1>1. CASE Still(t)
  BY <1>0, <1>a, <1>b, <1>1 DEF Still, Sending
<1>2. CASE Listens(t)
  BY <1>c, <1>2 DEF Listens, Sending
<1>3. CASE Apply(t)
  <2>1. CASE frame[t] \in Edit
    <3>1. pc'[t] = "arm" /\ frame'[t] = frame[t] /\ doc' = [doc EXCEPT ![Inst(t)] = @ \cup {frame[t]}]
      BY <1>0, <1>3, <2>1 DEF Apply, Goto
    <3>2. Inst(t) = room[c] /\ pc[t] = "apply"
      BY <1>3, InstFacts DEF Apply, InRoom
    <3>. QED
      BY <1>0, <1>b, <3>1, <3>2
  <2>2. CASE frame[t] \notin Edit
    BY <1>0, <1>3, <2>2 DEF Apply, Goto, Home, Sending
  <2>. QED
    BY <2>1, <2>2
<1>4. CASE ArmSave(t) \/ Snapshot(t)
  <2>1. pc'[t] \in {"peers", "send"} /\ frame'[t] = frame[t] /\ pc[t] \in {"arm", "peers"}
    <3>1. CASE ArmSave(t)
      <4>1. /\ pc' = [StopTimer(Inst(t), pc) EXCEPT ![t] = "peers", ![Timer(frame[t])] = Armed(t)]
            /\ pc[t] = "arm" /\ frame' = frame
        BY <3>1 DEF ArmSave, localVars, sendVars
      <4>2. t # Timer(frame[t])
        BY DEF ConnThread, Timer
      <4>3. StopTimer(Inst(t), pc) \in [Thread -> PcValue]
        BY StopTimerFacts DEF TInv, RInv
      <4>. QED
        BY <1>0, <4>1, <4>2, <4>3
    <3>2. CASE Snapshot(t)
      BY <1>0, <3>2 DEF Snapshot, Goto
    <3>. QED
      BY <1>4, <3>1, <3>2
  <2>. QED
    BY <1>a, <1>b, <2>1 DEF Sending
<1>5. CASE SendPeer(t)
  <2>1. \/ pc'[t] = "send" /\ frame'[t] = frame[t] /\ pc[t] = "send"
        \/ pc'[t] \in {"replay", "read"} /\ frame'[t] = None
    BY <1>0, <1>5 DEF SendPeer, Goto, Home
  <2>. QED
    BY <1>a, <1>b, <2>1 DEF Sending
<1>6. CASE Remove(t) \/ Regrant(t) \/ Forget(t)
  <2>1. PICK l \in {"regrant", "stop", "done"} : Goto(t, l) /\ UNCHANGED frame
    BY <1>6 DEF Remove, Regrant, Forget, localVars, sendVars
  <2>2. pc[t] \in {"remove", "regrant", "forget"}
    BY <1>6 DEF Remove, Regrant, Forget
  <2>. QED
    BY <1>0, <1>c, <2>1, <2>2 DEF Goto, Sending
<1>7. CASE SaveStep(t)
  <2>1. pc[t] \in {"stop", "encode", "save"} /\ UNCHANGED frame
    BY <1>7 DEF SaveStep, FlushStop, Encode, Save, localVars, sendVars
  <2>2. pc'[t] \notin Sending
    <3>1. CASE FlushStop(t)
      BY <1>0, <3>1, StopTimerFacts DEF FlushStop, Sending, TInv, RInv
    <3>2. CASE Encode(t) \/ Save(t)
      BY <1>0, <3>2 DEF Encode, Save, Goto, Sending
    <3>. QED
      BY <1>7, <3>1, <3>2 DEF SaveStep
  <2>. QED
    BY <1>c, <2>1, <2>2
<1>8. CASE t = Admit(c) /\ AdmitStep(c)
  <2>1. CASE Replay(c)
    <3>1. CASE buffer[c] = <<>>
      BY <1>0, <1>c, <1>8, <2>1, <3>1 DEF Replay, Goto, Sending
    <3>2. CASE buffer[c] # <<>>
      <4>0. buffer[c] \in Seq(Frame)
        BY <1>0 DEF TInv, TypeOK
      <4>1. Dispatch(t, Head(buffer[c])) /\ pc[t] = "replay"
        BY <1>8, <2>1, <3>2 DEF Replay
      <4>2. Head(buffer[c]) \in Frame
        BY <3>2, <4>0
      <4>. QED
        BY <1>d, <4>1, <4>2
    <3>. QED
      BY <3>1, <3>2
  <2>2. CASE ~Replay(c)
    <3>1. UNCHANGED frame
      BY <1>8, <2>2 DEF AdmitStep, Authorize, LoadRoomLookup, LoadRoomLoad, LoadRoomInstall, AssignRoom,
                        Register, CheckOpen, DecideGrant, Announce, OpenPhase, localVars, sendVars
    <3>2. pc[t] \notin {"apply", "arm", "peers", "send"}
      BY <1>8, <2>2 DEF AdmitStep, Authorize, LoadRoomLookup, LoadRoomLoad, LoadRoomInstall, AssignRoom,
                        Register, CheckOpen, DecideGrant, Announce, OpenPhase
    <3>3. pc'[t] \notin Sending
      <4>1. AdmitEdge(c)
        BY <1>0, StepEdges DEF Edges
      <4>2. pc[t] # "replay"
        BY <1>8, <2>2 DEF AdmitStep, Authorize, LoadRoomLookup, LoadRoomLoad, LoadRoomInstall, AssignRoom,
                          Register, CheckOpen, DecideGrant, Announce, OpenPhase
      <4>. QED
        BY <1>8, <3>2, <4>1, <4>2 DEF AdmitEdge, BodyEdge, Sending
    <3>. QED
      BY <1>c, <3>1, <3>2, <3>3
  <2>. QED
    BY <2>1, <2>2
<1>9. CASE t = Read(c) /\ \E f \in Frame : OnMessage(c, f)
  <2>1. PICK f \in Frame : OnMessage(c, f)
    BY <1>9
  <2>2. pc[t] = "read" /\ (Dispatch(t, f) \/ UNCHANGED <<pc, frame>>)
    BY <1>9, <2>1 DEF OnMessage, Reading
  <2>. QED
    BY <1>c, <1>d, <2>2 DEF Sending
<1>. QED
  BY <1>1, <1>2, <1>3, <1>4, <1>5, <1>6, <1>7, <1>8, <1>9, OwnSteps DEF OwnStep, ConnStep

\* An edit of an open connection that may write stays in the buffer, in a thread's
\* hands or in the document.
LEMMA AcceptedStays ==
    ASSUME TInv, FrameInv, [Next]_vars, NEW e \in Edit, NEW c \in Conn, sender[e] = c,
           phase'[c] = "open", CanWrite(role'[c])
    PROVE  \/ \E k \in DOMAIN buffer'[c] : buffer'[c][k] = e
           \/ frame'[Admit(c)] = e \/ frame'[Read(c)] = e
           \/ e \in doc'[room'[c]]
<1>0. c # None /\ e # None /\ e # "aware" /\ e # "unknown"
  BY ConnAssumption, EditAssumption, MiscAssumption
<1>1. CASE \E k \in DOMAIN buffer[c] : buffer[c][k] = e
  <2>1. CASE pc[Admit(c)] = "replay" /\ Dispatch(Admit(c), e)
    <3>1. /\ Admit(c) \in ConnThread /\ Admit(c)[2] = c /\ e \in Frame
      BY Distinct DEF Frame
    <3>2. role'[c] = role[c]
      BY <2>1, RoleStays DEF Unplaced
    <3>. QED
      BY <1>0, <2>1, <3>1, <3>2, DispatchHolds
  <2>. QED
    BY <1>1, <2>1, BufferedStays
<1>2. ASSUME phase[c] = "open", NEW t \in {Admit(c), Read(c)}, frame[t] = e
      PROVE  frame'[t] = e \/ e \in doc'[room'[c]]
  <2>0. t \in ConnThread /\ t[2] = c
    BY Distinct
  <2>1. /\ pc[t] \in {"apply", "arm", "peers", "send"}
        /\ pc[t] \in Sending => e \in doc[room[c]]
    BY <1>0, <1>2, <2>0 DEF FrameInv, Sending
  <2>2. room[c] \in Conn /\ room'[c] = room[c] /\ doc[room[c]] \subseteq doc'[room[c]]
    <3>1. room[c] # None
      BY <2>0, <2>1 DEF TInv, LocalsAgree, InRoom
    <3>. QED
      BY <3>1, RoomPlaced, RoomStays, DocGrows
  <2>3. CASE pc[t] \in Sending
    BY <2>1, <2>2, <2>3
  <2>4. CASE pc[t] = "apply"
    <3>1. Still(t) \/ Apply(t)
      <4>1. ~Listens(t) /\ ~SaveStep(t)
            /\ ~(ArmSave(t) \/ Snapshot(t) \/ SendPeer(t) \/ Remove(t) \/ Regrant(t) \/ Forget(t))
        BY <2>4 DEF Listens, SaveStep, FlushStop, Encode, Save, ArmSave, Snapshot, SendPeer, Remove,
                    Regrant, Forget
      <4>2. ASSUME t = Admit(t[2]), AdmitStep(t[2]) PROVE FALSE
        BY <2>4, <4>2 DEF AdmitStep, Authorize, LoadRoomLookup, LoadRoomLoad, LoadRoomInstall,
                    AssignRoom, Register, CheckOpen, DecideGrant, Announce, OpenPhase, Replay
      <4>3. ASSUME t = Read(t[2]), NEW f \in Frame, OnMessage(t[2], f) PROVE FALSE
        BY <2>4, <4>3 DEF OnMessage, Reading
      <4>. QED
        BY <2>0, <4>1, <4>2, <4>3, OwnSteps DEF OwnStep, ConnStep
    <3>2. Apply(t) => UNCHANGED frame
      BY <1>2 DEF Apply
    <3>. QED
      BY <1>2, <3>1, <3>2 DEF Still
  <2>. QED
    BY <2>1, <2>3, <2>4 DEF Sending
<1>3. ASSUME phase[c] = "open", e \in doc[room[c]]
      PROVE  e \in doc'[room'[c]]
  <2>1. room[c] # None
    BY <1>3 DEF TInv, RInv, RegistryInv, AdmissionsAgree
  <2>. QED
    BY <1>3, <2>1, RoomPlaced, RoomStays, DocGrows
<1>4. CASE phase[c] = "pending"
  BY <1>0, <1>1, <1>4 DEF FrameInv
<1>5. CASE phase[c] = "open"
  <2>1. ~Unplaced(c)
    BY <1>5 DEF TInv, RInv, RegistryInv, AdmissionsAgree, NoEarlyRoom
  <2>2. CanWrite(role[c])
    BY <2>1, RoleStays
  <2>3. \/ \E k \in DOMAIN buffer[c] : buffer[c][k] = e
        \/ frame[Admit(c)] = e \/ frame[Read(c)] = e
        \/ e \in doc[room[c]]
    BY <1>0, <1>5, <2>2 DEF FrameInv, NoDroppedEdit
  <2>. QED
    BY <1>1, <1>2, <1>3, <1>5, <2>3
<1>. QED
  BY <1>4, <1>5, PhaseMoves DEF TInv, TypeOK

\* An edit that arrives is buffered while its connection is pending, and is held by
\* the read loop once it is open.
LEMMA ArrivalStep ==
    ASSUME TInv, NEW e \in Edit, NEW c \in Conn, OnMessage(c, e)
    PROVE  /\ phase'[c] # "absent"
           /\ phase'[c] = "pending" => \E k \in DOMAIN buffer'[c] : buffer'[c][k] = e
           /\ phase'[c] = "open" /\ CanWrite(role'[c]) => frame'[Read(c)] = e
<1>0. /\ buffer \in [Conn -> Seq(Frame)] /\ e \in Frame /\ e # "aware" /\ e # "unknown"
      /\ phase \in [Conn -> {"absent", "pending", "open", "closed"}]
      /\ Read(c) \in ConnThread /\ Read(c)[2] = c
  BY Distinct, MiscAssumption DEF TInv, TypeOK, Frame
<1>1. CASE phase[c] = "open" /\ Dispatch(Read(c), e)
  <2>1. role' = role /\ phase'[c] \in {"open", "closed"}
    BY <1>0, <1>1 DEF OnMessage, placeVars, Dispatch, Refuse, socketVars
  <2>. QED
    BY <1>0, <1>1, <2>1, DispatchHolds
<1>2. CASE phase[c] = "pending" /\ Refuse(c)
  BY <1>0, <1>2 DEF Refuse
<1>3. CASE phase[c] = "pending" /\ buffer' = [buffer EXCEPT ![c] = Buffered(c, e)] /\ UNCHANGED phase
  <2>1. buffer'[c] = Append(buffer[c], e) /\ buffer[c] \in Seq(Frame)
    BY <1>0, <1>3 DEF Buffered
  <2>2. Len(buffer[c]) + 1 \in DOMAIN buffer'[c] /\ buffer'[c][Len(buffer[c]) + 1] = e
    BY <1>0, <2>1
  <2>. QED
    BY <1>3, <2>2
<1>. QED
  BY <1>1, <1>2, <1>3 DEF OnMessage, socketVars

LEMMA FrameStep ==
    ASSUME TInv, FrameInv, [Next]_vars
    PROVE  FrameInv'
<1>0. sender \in [Edit -> Conn \cup {None}]
  BY DEF TInv, TypeOK
<1>1. ASSUME NEW e \in Edit, sender'[e] # None
      PROVE  LET c == sender'[e] IN
             /\ phase'[c] # "absent"
             /\ phase'[c] = "pending" => \E k \in DOMAIN buffer'[c] : buffer'[c][k] = e
             /\ phase'[c] = "open" /\ CanWrite(role'[c]) =>
                   \/ \E k \in DOMAIN buffer'[c] : buffer'[c][k] = e
                   \/ frame'[Admit(c)] = e \/ frame'[Read(c)] = e
                   \/ e \in doc'[room'[c]]
  <2>1. CASE sender'[e] # sender[e]
    BY <2>1, SenderMoves, ArrivalStep
  <2>2. CASE sender'[e] = sender[e]
    <3>1. PICK c \in Conn : sender[e] = c
      BY <1>0, <1>1, <2>2
    <3>2. /\ phase[c] # "absent"
          /\ phase[c] = "pending" => \E k \in DOMAIN buffer[c] : buffer[c][k] = e
      BY <3>1, ConnAssumption DEF FrameInv
    <3>3. phase'[c] # "absent"
      BY <3>2, PhaseMoves
    <3>4. phase'[c] = "pending" => \E k \in DOMAIN buffer'[c] : buffer'[c][k] = e
      <4>. SUFFICES ASSUME phase'[c] = "pending" PROVE \E k \in DOMAIN buffer'[c] : buffer'[c][k] = e
        OBVIOUS
      <4>1. phase[c] = "pending"
        BY <3>2, PhaseMoves
      <4>2. pc[Admit(c)] # "replay"
        BY <4>1 DEF TInv, RInv, RegistryInv, AdmissionsAgree, Unplaced
      <4>. QED
        BY <3>2, <4>1, <4>2, BufferedStays
    <3>. QED
      BY <2>2, <3>1, <3>3, <3>4, AcceptedStays
  <2>. QED
    BY <2>1, <2>2
<1>2. NoDroppedEdit'
  BY <1>1 DEF NoDroppedEdit, CanWrite
<1>3. ASSUME NEW t \in ConnThread
      PROVE  /\ frame'[t] # None => pc'[t] \in {"apply", "arm", "peers", "send"}
             /\ pc'[t] \in {"arm", "peers", "send"} /\ frame'[t] \in Edit =>
                   frame'[t] \in doc'[room'[t[2]]]
  BY HandledStep DEF Sending
<1>. QED
  BY <1>1, <1>2, <1>3 DEF FrameInv

\* The inductive invariant holds: an edit of a pending connection is buffered, and
\* one that is being broadcast has been merged.
THEOREM FrameInvariant == Spec => []FrameInv
<1>1. Init => TInv /\ FrameInv
  <2>1. Init => FrameInv
    BY ThreadFacts DEF Init, FrameInv, NoDroppedEdit
  <2>. QED
    BY <2>1, TInvInit
<1>2. TInv /\ FrameInv /\ [Next]_vars => (TInv /\ FrameInv)'
  BY TInvStep, FrameStep
<1>. QED
  BY <1>1, <1>2, PTL DEF Spec

\* A writable edit accepted from an open connection is buffered, being handled, or
\* merged: the hand-over from buffering to direct dispatch loses none.
THEOREM NoDroppedEditHolds == Spec => []NoDroppedEdit
<1>1. FrameInv => NoDroppedEdit
  BY DEF FrameInv
<1>. QED
  BY <1>1, FrameInvariant, PTL

------------------------------------------------------------------------------
(* The refinement of SharedRooms                                             *)

\* What the refinement rests on.
OInv == MInv /\ SaveInv /\ FrameInv /\ OriginInv

\* A role that has been given is kept.
LEMMA RoleKept ==
    ASSUME OInv, [Next]_vars, NEW c \in Conn, role[c] # None
    PROVE  role'[c] = role[c]
BY RoleMoves DEF OInv, MInv, OriginInv

\* What has been sent under a name stays so.
LEMMA SentStays ==
    ASSUME OInv, [Next]_vars, NEW e \in Edit, sender[e] # None, CanWrite(role[sender[e]])
    PROVE  /\ sender[e] \in Conn /\ sender'[e] = sender[e]
           /\ name'[sender[e]] = name[sender[e]] /\ role'[sender[e]] = role[sender[e]]
<1>. DEFINE c == sender[e]
<1>1. c \in Conn
  BY DEF OInv, MInv, TInv, TypeOK
<1>2. sender'[e] = c
  BY SenderStays DEF OInv, MInv
<1>3. name'[c] = name[c]
  BY <1>1, NameStays DEF OInv, MInv, FrameInv
<1>4. role'[c] = role[c]
  BY <1>1, RoleKept, RoleAssumption DEF CanWrite, Role
<1>. QED
  BY <1>1, <1>2, <1>3, <1>4

LEMMA SentGrows ==
    ASSUME OInv, [Next]_vars, NEW n
    PROVE  Sent(n) \subseteq Sent(n)'
BY SentStays DEF Sent

\* Documents only grow, and what is in one stays in it.
LEMMA DocsGrow ==
    ASSUME OInv, [Next]_vars, NEW r \in Conn
    PROVE  doc[r] \subseteq doc'[r]
<1>1. CASE Unplaced(r)
  BY <1>1 DEF OInv, SaveInv
<1>2. CASE ~Unplaced(r)
  BY <1>2, DocGrows DEF OInv, MInv
<1>. QED
  BY <1>1, <1>2

\* A document that is not empty is one that was installed, under a name that stays.
LEMMA DocNamed ==
    ASSUME OInv, [Next]_vars, NEW r \in Conn, ~Unplaced(r)
    PROVE  name'[r] = name[r] /\ name[r] \in Name
<1>1. name[r] # None
  BY DEF OInv, MInv, TInv, RInv, RegistryInv, AdmissionsAgree, Unplaced
<1>. QED
  BY <1>1, NameStays DEF OInv, MInv, TInv, TypeOK

\* The frame of an Apply was sent, under the room's name, by a writer.
LEMMA AppliedIsSent ==
    ASSUME OInv, NEW t \in ConnThread, frame[t] \in Edit, room[t[2]] \in Conn
    PROVE  frame[t] \in Sent(name[room[t[2]]])
<1>1. t[2] \in Conn /\ room[t[2]] # None /\ sender[frame[t]] = t[2]
  BY ThreadFacts, ConnAssumption DEF OInv, MInv, TInv, LocalsAgree
<1>2. name[room[t[2]]] = name[t[2]]
  BY <1>1 DEF OInv, MInv, TInv, RInv, RegistryInv, NamesAgree
<1>3. CanWrite(role[t[2]])
  BY DEF OInv, OriginInv
<1>. QED
  BY <1>1, <1>2, <1>3, ConnAssumption DEF Sent

LEMMA DocOrigin ==
    ASSUME OInv, [Next]_vars, NEW r \in Conn
    PROVE  doc'[r] \subseteq Sent(name[r])'
<1>0. TInv /\ doc \in [Conn -> SUBSET Edit] /\ doc[r] \subseteq Sent(name[r])
  BY DEF OInv, MInv, TInv, TypeOK, OriginInv
<1>1. CASE Unplaced(r)'
  <2>1. doc'[r] = {}
    BY <1>0, <1>1, SaveInvStep DEF OInv, SaveInv
  <2>. QED
    BY <2>1
<1>2. CASE Unplaced(r) /\ ~Unplaced(r)'
  <2>1. doc[r] = {}
    BY <1>2 DEF OInv, SaveInv
  <2>2. \A t \in ConnThread : room[t[2]] # r
    BY <1>0, <1>2, ThreadFacts, RoomPlaced, ConnAssumption
  <2>3. CASE doc'[r] = doc[r]
    BY <2>1, <2>3
  <2>4. CASE \E c \in Conn : /\ pc[Admit(c)] = "install"
                             /\ doc' = [doc EXCEPT ![c] = snap[Admit(c)]]
                             /\ UNCHANGED <<name, offered>>
    <3>1. PICK c \in Conn : /\ pc[Admit(c)] = "install"
                            /\ doc' = [doc EXCEPT ![c] = snap[Admit(c)]]
                            /\ UNCHANGED <<name, offered>>
      BY <2>4
    <3>2. CASE c = r
      <4>1. doc'[r] \subseteq offered[name[r]] /\ name[r] \in Name
        BY <1>0, <3>1, <3>2 DEF OInv, SaveInv, TInv, TypeOK, RInv, RegistryInv, AdmissionsAgree
      <4>2. offered[name[r]] \subseteq Sent(name[r])
        BY <4>1 DEF OInv, OriginInv
      <4>. QED
        BY <3>1, <4>1, <4>2, SentStays DEF Sent
    <3>3. CASE c # r
      BY <1>0, <2>1, <3>1, <3>3
    <3>. QED
      BY <3>2, <3>3
  <2>. QED
    BY <1>0, <2>2, <2>3, <2>4, DocMoves
<1>3. CASE ~Unplaced(r)
  <2>1. name'[r] = name[r]
    BY <1>3, DocNamed
  <2>2. CASE doc'[r] = doc[r]
    BY <1>0, <2>1, <2>2, SentStays DEF Sent
  <2>3. CASE \E t \in ConnThread : /\ frame[t] \in Edit /\ room[t[2]] = r
                                   /\ doc'[r] = doc[r] \cup {frame[t]}
    BY <1>0, <2>1, <2>3, SentStays, AppliedIsSent DEF Sent
  <2>. QED
    BY <1>0, <1>3, <2>2, <2>3, DocMoves DEF Unplaced
<1>. QED
  BY <1>1, <1>2, <1>3

\* What is handed to the store is what its saver has encoded.
LEMMA OfferedMoves ==
    ASSUME TInv, [Next]_vars
    PROVE  \/ UNCHANGED offered
           \/ \E t \in Thread : /\ Save(t) /\ Inst(t) \in Conn
                                /\ offered' = [offered EXCEPT ![name[Inst(t)]] = @ \cup snap[t]]
<1>. USE DEF history
<1>1. CASE \E t \in Thread : Save(t)
  <2>1. PICK t \in Thread : Save(t)
    BY <1>1
  <2>2. Inst(t) \in Conn
    <3>1. pc[t] = "save"
      BY <2>1 DEF Save
    <3>. QED
      BY <3>1, SaverMoves
  <2>. QED
    BY <2>1, <2>2 DEF Save
<1>2. CASE \E d \in Conn : AdmitStep(d) \/ \E f \in Frame : OnMessage(d, f)
  BY <1>2 DEF OnMessage, AdmitStep, Authorize, LoadRoomLookup, LoadRoomLoad, LoadRoomInstall,
              AssignRoom, Register, CheckOpen, DecideGrant, Announce, OpenPhase, Replay
<1>3. CASE \E t \in Thread : ConnStep(t) \/ (SaveStep(t) /\ ~Save(t))
  BY <1>3 DEF ConnStep, SaveStep, Apply, ArmSave, Snapshot, SendPeer, Remove, Regrant, Forget,
              FlushStop, Encode
<1>4. CASE \E e \in Edit : TimerClears(e)
  BY <1>4 DEF TimerClears
<1>5. \A t \in ConnThread : t \in Thread
  BY ThreadFacts
<1>. QED
  BY <1>1, <1>2, <1>3, <1>4, <1>5, BystandersKeep DEF Next

\* What a saver has encoded was sent under its room's name.
LEMMA SavedIsSent ==
    ASSUME OInv, NEW t \in Thread, Save(t), Inst(t) \in Conn
    PROVE  snap[t] \subseteq Sent(name[Inst(t)])
BY DEF Save, OInv, OriginInv

LEMMA OfferedOrigin ==
    ASSUME OInv, [Next]_vars, NEW n \in Name
    PROVE  offered'[n] \subseteq Sent(n)'
<1>0. TInv /\ offered \in [Name -> SUBSET Edit] /\ offered[n] \subseteq Sent(n)
  BY DEF OInv, MInv, TInv, TypeOK, OriginInv
<1>1. CASE UNCHANGED offered
  BY <1>0, <1>1, SentGrows
<1>2. CASE \E t \in Thread : /\ Save(t) /\ Inst(t) \in Conn
                             /\ offered' = [offered EXCEPT ![name[Inst(t)]] = @ \cup snap[t]]
  <2>1. PICK t \in Thread : /\ Save(t) /\ Inst(t) \in Conn
                            /\ offered' = [offered EXCEPT ![name[Inst(t)]] = @ \cup snap[t]]
    BY <1>2
  <2>2. snap[t] \subseteq Sent(name[Inst(t)])
    BY <2>1, SavedIsSent
  <2>3. CASE name[Inst(t)] = n
    BY <1>0, <2>1, <2>2, <2>3, SentGrows
  <2>4. CASE name[Inst(t)] # n
    BY <1>0, <2>1, <2>4, SentGrows
  <2>. QED
    BY <2>3, <2>4
<1>. QED
  BY <1>0, <1>1, <1>2, OfferedMoves

\* Only a writer's edits are passed on to the room.
LEMMA DispatchWrites ==
    ASSUME TInv, NEW t \in ConnThread, NEW f \in Frame, Dispatch(t, f), frame'[t] \in Edit
    PROVE  frame'[t] = frame[t] \/ CanWrite(role[t[2]])
<1>1. t \in Thread /\ frame \in [Thread -> Frame \cup {None}]
  BY ThreadFacts DEF TInv, TypeOK
<1>2. f = "aware" => f \notin Edit
  BY MiscAssumption
<1>. QED
  BY <1>1, <1>2 DEF Dispatch

LEMMA FrameOrigin ==
    ASSUME OInv, [Next]_vars, NEW t \in ConnThread, frame'[t] \in Edit
    PROVE  CanWrite(role'[t[2]])
<1>0. /\ TInv /\ t \in Thread /\ t[2] \in Conn /\ frame \in [Thread -> Frame \cup {None}]
      /\ buffer \in [Conn -> Seq(Frame)]
  BY ThreadFacts DEF OInv, MInv, TInv, TypeOK
<1>1. SUFFICES frame'[t] = frame[t] \/ CanWrite(role[t[2]])
  <2>1. CanWrite(role[t[2]]) => role'[t[2]] = role[t[2]]
    BY <1>0, RoleKept, RoleAssumption DEF CanWrite, Role
  <2>2. frame[t] \in Edit => CanWrite(role[t[2]])
    BY DEF OInv, OriginInv
  <2>. QED
    BY <1>1, <2>1, <2>2
<1>. USE DEF localVars, sendVars
<1>2. CASE Still(t) \/ Listens(t)
  BY <1>2 DEF Still, Listens
<1>3. CASE ConnStep(t)
  BY <1>0, <1>3, EditAssumption DEF ConnStep, Apply, ArmSave, Snapshot, SendPeer, Remove, Regrant, Forget
<1>4. CASE SaveStep(t)
  BY <1>4 DEF SaveStep, FlushStop, Encode, Save
<1>5. CASE t = Admit(t[2]) /\ Replay(t[2])
  <2>1. CASE buffer[t[2]] = <<>>
    BY <1>5, <2>1 DEF Replay
  <2>2. CASE buffer[t[2]] # <<>>
    <3>1. Dispatch(t, Head(buffer[t[2]])) /\ Head(buffer[t[2]]) \in Frame
      BY <1>0, <1>5, <2>2 DEF Replay
    <3>. QED
      BY <1>0, <3>1, DispatchWrites
  <2>. QED
    BY <2>1, <2>2
<1>6. CASE t = Admit(t[2]) /\ AdmitStep(t[2]) /\ ~Replay(t[2])
  BY <1>6 DEF AdmitStep, Authorize, LoadRoomLookup, LoadRoomLoad, LoadRoomInstall, AssignRoom,
              Register, CheckOpen, DecideGrant, Announce, OpenPhase
<1>7. CASE t = Read(t[2]) /\ \E f \in Frame : OnMessage(t[2], f)
  <2>1. PICK f \in Frame : OnMessage(t[2], f)
    BY <1>7
  <2>2. UNCHANGED frame \/ Dispatch(t, f)
    BY <1>7, <2>1 DEF OnMessage
  <2>. QED
    BY <1>0, <2>2, DispatchWrites
<1>. QED
  BY <1>0, <1>2, <1>3, <1>4, <1>5, <1>6, <1>7, OwnSteps DEF OwnStep

\* A thread comes to its save by encoding the document.
LEMMA SaveEnters ==
    ASSUME TInv, [Next]_vars, NEW t \in Thread, pc'[t] = "save"
    PROVE  pc[t] \in {"encode", "save"}
<1>0. pc \in [Thread -> PcValue] /\ \A u \in ConnThread : u \in Thread
  BY ThreadFacts DEF TInv, TypeOK
<1>1. CASE t \in ConnThread
  <2>1. \E c \in Conn : t = Admit(c) \/ t = Read(c)
    BY <1>1, ThreadFacts
  <2>2. Home(t) \in {"read", "replay"}
    BY DEF Home
  <2>. QED
    BY <2>1, <2>2, StepEdges DEF Edges, AdmitEdge, ReadEdge, BodyEdge
<1>2. ASSUME NEW u \in Thread, ArmSave(u) \/ FlushStop(u)
      PROVE  pc'[t] \in {pc[t], "done", "peers", "armed", "encode"}
  BY <1>0, <1>2 DEF ArmSave, FlushStop, StopTimer, Armed
<1>3. CASE t \notin ConnThread
  <2>1. SaveStep(t) => pc[t] = "encode" \/ FlushStop(t) \/ pc[t] = "save"
    BY DEF SaveStep, Encode, Save
  <2>2. ASSUME NEW e \in Edit, t = Timer(e) PROVE ~TimerFires(e) /\ ~TimerClears(e)
    BY <1>0, <2>2 DEF TimerFires, TimerClears, Goto
  <2>3. ~FlushAllStart(t) /\ ~FlushAllNext(t)
    BY <1>0 DEF FlushAllStart, FlushAllNext, Goto
  <2>. QED
    BY <1>0, <1>2, <1>3, <2>1, <2>2, <2>3, BackgroundMoves
<1>. QED
  BY <1>1, <1>3

\* What a thread is about to save is in its room's document.
LEMMA SaveOrigin ==
    ASSUME OInv, [Next]_vars, NEW t \in Thread, pc'[t] = "save"
    PROVE  Inst(t)' = Inst(t) /\ snap'[t] \subseteq doc'[Inst(t)]
<1>0. TInv /\ snap \in [Thread -> SUBSET Edit] /\ pc \in [Thread -> PcValue] /\ pc[t] \in {"encode", "save"}
  BY SaveEnters DEF OInv, MInv, TInv, TypeOK
<1>1. Inst(t)' = Inst(t) /\ Inst(t) \in Conn /\ doc[Inst(t)] \subseteq doc'[Inst(t)]
  BY <1>0, SaverMoves, DocsGrow
<1>2. CASE pc[t] = "save" /\ snap'[t] = snap[t]
  BY <1>1, <1>2 DEF OInv, OriginInv
<1>3. CASE Encode(t)
  <2>1. snap'[t] = doc[Inst(t)]
    BY <1>0, <1>3 DEF Encode
  <2>. QED
    BY <1>1, <2>1
<1>4. ~Save(t)
  <2>1. ASSUME Save(t) PROVE FALSE
    <3>1. pc'[t] \in {"done", "next", "forget"}
      BY <1>0, <2>1 DEF Save, Goto
    <3>. QED
      BY <3>1
  <2>. QED
    BY <2>1
<1>. QED
  BY <1>0, <1>1, <1>2, <1>3, <1>4, SaverMoves

\* Who is still connected is still a member.
LEMMA LiveMemberStays ==
    ASSUME OInv, [Next]_vars, NEW p \in Conn, NEW r \in Conn, room[p] = r,
           isOpen[p] => p \in sockets[r], isOpen'[p]
    PROVE  p \in sockets'[r]
<1>0. TInv /\ sockets \in [Conn -> SUBSET Conn] /\ room[p] # None
  BY ConnAssumption DEF OInv, MInv, TInv, TypeOK
<1>1. phase[p] # "absent"
  BY <1>0 DEF TInv, RInv, RegistryInv, AdmissionsAgree, NoEarlyRoom, Unplaced
<1>2. isOpen[p] /\ p \in sockets[r]
  BY <1>0, <1>1, OpenShrinks
<1>3. ASSUME NEW t \in ConnThread, Remove(t), t[2] = p PROVE FALSE
  <2>1. pc[t] = "remove" /\ (t = Admit(p) \/ t = Read(p))
    BY <1>3, ThreadFacts DEF Remove
  <2>. QED
    BY <1>2, <2>1 DEF OInv, MInv, MemberInv, LeaversGone, Leaving
<1>. QED
  BY <1>0, <1>2, <1>3, SocketsMove

LEMMA PeersOrigin ==
    ASSUME OInv, [Next]_vars, NEW t \in ConnThread, pc'[t] = "send", NEW p \in peers'[t]
    PROVE  room'[p] = room'[t[2]] /\ (isOpen'[p] => p \in sockets'[room'[p]])
<1>0. /\ TInv /\ t \in Thread /\ t[2] \in Conn /\ pc \in [Thread -> PcValue]
      /\ peers \in [Thread -> SUBSET Conn] /\ sockets \in [Conn -> SUBSET Conn]
  BY ThreadFacts DEF OInv, MInv, TInv, TypeOK
<1>1. pc[t] \in {"peers", "send"}
  <2>1. \E c \in Conn : t = Admit(c) \/ t = Read(c)
    BY ThreadFacts
  <2>2. Home(t) \in {"read", "replay"}
    BY DEF Home
  <2>. QED
    BY <1>0, <2>1, <2>2, StepEdges DEF Edges, AdmitEdge, ReadEdge, BodyEdge
<1>2. room[t[2]] # None /\ room[t[2]] \in Conn /\ Inst(t) = room[t[2]]
  BY <1>0, <1>1, InstFacts, ConnAssumption DEF InRoom
<1>3. p \in Conn /\ room[p] = room[t[2]] /\ (isOpen[p] => p \in sockets[room[p]])
  <2>1. CASE Snapshot(t)
    <3>1. p \in sockets[room[t[2]]]
      BY <1>0, <1>2, <2>1 DEF Snapshot, Peers
    <3>. QED
      BY <1>0, <1>2, <3>1 DEF OInv, MInv, MemberInv, MembersPlaced
  <2>2. CASE pc[t] = "send" /\ (Still(t) \/ SendPeer(t))
    <3>1. p \in peers[t]
      <4>1. CASE Still(t)
        BY <4>1 DEF Still
      <4>2. CASE SendPeer(t)
        BY <1>0, <4>2 DEF SendPeer
      <4>. QED
        BY <2>2, <4>1, <4>2
    <3>. QED
      BY <1>0, <2>2, <3>1 DEF OInv, OriginInv
  <2>3. /\ pc[t] = "peers" => ~Still(t) /\ ~SendPeer(t)
        /\ pc[t] = "send" => ~Snapshot(t)
        /\ ~ArmSave(t)
    BY <1>1 DEF Still, SendPeer, Snapshot, ArmSave
  <2>. QED
    BY <1>0, <1>1, <2>1, <2>2, <2>3, SendingMoves DEF Sending
<1>4. room'[p] = room[p] /\ room'[t[2]] = room[t[2]]
  BY <1>0, <1>2, <1>3, RoomStays
<1>. QED
  BY <1>2, <1>3, <1>4, LiveMemberStays

\* Who closes a connection has found its socket dead, or closes it too.
LEMMA ClosesDead ==
    ASSUME TInv, [Next]_vars, NEW c \in Conn, phase'[c] = "closed"
    PROVE  phase[c] = "closed" \/ ~isOpen'[c]
<1>. USE DEF connVars, socketVars, Refuse
<1>0. phase \in [Conn -> {"absent", "pending", "open", "closed"}] /\ isOpen \in [Conn -> BOOLEAN]
  BY DEF TInv, TypeOK
<1>1. CASE \E d \in Conn : (\E n \in Name : Connect(d, n)) \/ OnClose(d) \/ ReaperRejects(d)
  BY <1>0, <1>1 DEF Connect, OnClose, ReaperRejects
<1>2. CASE \E d \in Conn : SocketFails(d) \/ OnAuthFrame(d) \/ ReaperFires(d)
  BY <1>2 DEF SocketFails, OnAuthFrame, ReaperFires
<1>3. CASE \E d \in Conn : Replay(d) \/ \E f \in Frame : OnMessage(d, f)
  BY <1>0, <1>3 DEF Replay, OnMessage, Dispatch
<1>4. CASE \E d \in Conn : \/ Authorize(d) \/ LoadRoomLookup(d) \/ LoadRoomLoad(d) \/ LoadRoomInstall(d)
  BY <1>0, <1>4 DEF Authorize, LoadRoomLookup, LoadRoomLoad, LoadRoomInstall, JoinRegistered,
                    ServerFull
<1>5. CASE \E d \in Conn : \/ AssignRoom(d) \/ Register(d) \/ CheckOpen(d) \/ DecideGrant(d)
                          \/ Announce(d) \/ OpenPhase(d)
  BY <1>0, <1>5 DEF AssignRoom, Register, CheckOpen, DecideGrant, Announce, OpenPhase, StillPending
<1>6. CASE \E t \in Thread : ConnStep(t) \/ SaveStep(t)
  BY <1>6 DEF ConnStep, SaveStep, Apply, ArmSave, Snapshot, SendPeer, Remove, Regrant, Forget,
              FlushStop, Encode, Save
<1>7. CASE \/ \E e \in Edit : TimerFires(e) \/ TimerClears(e)
           \/ \E t \in FlushThread : FlushAllStart(t) \/ FlushAllNext(t)
  BY <1>7 DEF TimerFires, TimerClears, FlushAllStart, FlushAllNext
<1>8. CASE UNCHANGED vars
  BY <1>8 DEF vars
<1>9. \A t \in ConnThread : t \in Thread
  BY ThreadFacts
<1>. QED
  BY <1>1, <1>2, <1>3, <1>4, <1>5, <1>6, <1>7, <1>8, <1>9 DEF Next, AdmitStep

LEMMA ConnOrigin ==
    ASSUME OInv, [Next]_vars, NEW c \in Conn
    PROVE  /\ pc'[Admit(c)] \in {"idle", "authorize"} => role'[c] = None
           /\ pc'[Admit(c)] = "announce" => snap'[Admit(c)] \subseteq doc'[room'[c]]
           /\ phase'[c] = "closed" => ~isOpen'[c]
<1>. DEFINE t == Admit(c)
<1>0. /\ TInv /\ AdmitEdge(c) /\ t \in ConnThread /\ t \in Thread /\ t[2] = c /\ Home(t) = "replay"
      /\ snap \in [Thread -> SUBSET Edit]
  BY StepEdges, ThreadFacts DEF OInv, MInv, TInv, TypeOK, Edges, Home, Admit, ConnThread
<1>1. ASSUME pc'[t] \in {"idle", "authorize"} PROVE role'[c] = None
  <2>1. pc[t] \in {"idle", "authorize"}
    BY <1>0, <1>1 DEF AdmitEdge, BodyEdge
  <2>. QED
    BY <1>0, <1>1, <2>1, RoleMoves DEF OInv, OriginInv
<1>2. ASSUME pc'[t] = "announce" PROVE snap'[t] \subseteq doc'[room'[c]]
  <2>1. pc[t] = "announce" \/ (pc[t] = "grant" /\ DecideGrant(c))
    BY <1>0, <1>2 DEF AdmitEdge, BodyEdge
  <2>2. room[c] # None /\ room[c] \in Conn /\ room'[c] = room[c]
    <3>1. room[c] # None
      BY <1>0, <2>1 DEF TInv, LocalsAgree, InRoom
    <3>. QED
      BY <1>0, <3>1, RoomStays, RoomPlaced
  <2>3. doc[room[c]] \subseteq doc'[room[c]]
    BY <2>2, DocsGrow
  <2>4. snap'[t] \subseteq doc[room[c]]
    <3>1. CASE DecideGrant(c)
      <4>1. target[c] = room[c]
        BY <1>0, <2>2 DEF TInv, RInv, RegistryInv, NamesAgree
      <4>. QED
        BY <1>0, <3>1, <4>1 DEF DecideGrant
    <3>2. CASE pc[t] = "announce"
      <4>1. snap[t] \subseteq doc[room[c]]
        BY <3>2 DEF OInv, OriginInv
      <4>2. Still(t)
        <5>1. ~Listens(t) /\ ~ConnStep(t) /\ ~SaveStep(t)
          BY <3>2 DEF Listens, ConnStep, Apply, ArmSave, Snapshot, SendPeer, Remove, Regrant, Forget,
                      SaveStep, FlushStop, Encode, Save
        <5>2. AdmitStep(c) => Announce(c)
          BY <3>2 DEF AdmitStep, Authorize, LoadRoomLookup, LoadRoomLoad, LoadRoomInstall, AssignRoom,
                      Register, CheckOpen, DecideGrant, OpenPhase, Replay
        <5>3. Announce(c) => pc'[t] = "open"
          BY <1>0 DEF Announce, Goto, TInv, TypeOK
        <5>4. t # Read(c)
          BY ThreadFacts
        <5>. QED
          BY <1>0, <1>2, <5>1, <5>2, <5>3, <5>4, OwnSteps DEF OwnStep
      <4>. QED
        BY <4>1, <4>2 DEF Still
    <3>. QED
      BY <2>1, <3>1, <3>2
  <2>. QED
    BY <2>2, <2>3, <2>4
<1>3. ASSUME phase'[c] = "closed" PROVE ~isOpen'[c]
  BY <1>0, <1>3, ClosesDead, OpenShrinks DEF OInv, OriginInv
<1>. QED
  BY <1>1, <1>2, <1>3

LEMMA OriginInvStep ==
    ASSUME OInv, [Next]_vars
    PROVE  OriginInv'
<1>1. \A r \in Conn : (doc[r] \subseteq Sent(name[r]))'
  BY DocOrigin
<1>2. \A n \in Name : (offered[n] \subseteq Sent(n))'
  BY OfferedOrigin
<1>3. \A t \in ConnThread : frame'[t] \in Edit => CanWrite(role'[t[2]])
  BY FrameOrigin
<1>4. \A t \in Thread : (pc[t] = "save" => snap[t] \subseteq doc[Inst(t)])'
  BY SaveOrigin
<1>5. \A t \in ConnThread : pc'[t] = "send" => \A p \in peers'[t] :
         room'[p] = room'[t[2]] /\ (isOpen'[p] => p \in sockets'[room'[p]])
  BY PeersOrigin
<1>6. \A c \in Conn :
         /\ pc'[Admit(c)] \in {"idle", "authorize"} => role'[c] = None
         /\ pc'[Admit(c)] = "announce" => snap'[Admit(c)] \subseteq doc'[room'[c]]
         /\ phase'[c] = "closed" => ~isOpen'[c]
  BY ConnOrigin
<1>. QED
  BY <1>1, <1>2, <1>3, <1>4, <1>5, <1>6 DEF OriginInv, CanWrite

\* The inductive invariant holds: whatever a thread is about to merge, to save or
\* to send was sent under its room's name by a writer.
THEOREM OriginInvariant == Spec => []OInv
<1>1. Init => OriginInv
  <2>. SUFFICES ASSUME Init PROVE OriginInv
    OBVIOUS
  <2>1. \A t \in Thread : pc[t] = "idle" /\ frame[t] \notin Edit
    BY EditAssumption DEF Init
  <2>2. \A t \in ConnThread : t \in Thread
    BY ThreadFacts
  <2>3. \A c \in Conn : pc[Admit(c)] = "idle" /\ role[c] = None /\ phase[c] = "absent" /\ doc[c] = {}
    BY <2>1, ThreadFacts DEF Init
  <2>. QED
    BY <2>1, <2>2, <2>3 DEF Init, OriginInv
<1>2. Init => OInv
  <2>1. Init => SaveInv /\ FrameInv
    BY ThreadFacts DEF Init, SaveInv, NoUnsavedEdit, FrameInv, NoDroppedEdit
  <2>. QED
    BY <1>1, <2>1, MInvInit DEF OInv
<1>3. OInv /\ [Next]_vars => OInv'
  BY MInvStep, SaveInvStep, FrameStep, OriginInvStep DEF OInv, MInv
<1>. QED
  BY <1>2, <1>3, PTL DEF Spec

------------------------------------------------------------------------------
(* Step by step                                                              *)

\* A step that leaves the documents, the members and what they were sent alone is a
\* Send, be it of nothing new.
LEMMA QuietIsSend ==
    ASSUME OInv, [Next]_vars, UNCHANGED <<RegisteredRooms, Text, Members, inbox, offered>>
    PROVE  Shared!Send
<1>1. SentTo' \in [Name -> SUBSET Edit] /\ SentTo = [n \in Name |-> Sent(n)]
      /\ SentTo' = [n \in Name |-> Sent(n)']
  BY DEF SentTo, Sent
<1>2. \A n \in Name : SentTo[n] \subseteq SentTo'[n]
  BY <1>1, SentGrows
<1>3. \A n, m \in Name : n # m => SentTo'[n] \cap SentTo'[m] = {}
  BY <1>1 DEF Sent
<1>. QED
  BY <1>1, <1>2, <1>3 DEF Shared!Send

\* What is registered under a name is one room's.
LEMMA OneName ==
    ASSUME OInv, NEW n \in Name, rooms[n] # None
    PROVE  /\ rooms[n] \in Conn /\ name[rooms[n]] = n /\ ~Unplaced(rooms[n])
           /\ Text[n] = doc[rooms[n]] /\ Members[n] = sockets[rooms[n]]
           /\ \A m \in Name : rooms[m] = rooms[n] => m = n
<1>1. rooms[n] \in Conn
  BY DEF OInv, MInv, TInv, TypeOK
<1>. QED
  BY <1>1 DEF OInv, MInv, TInv, RInv, RegistryInv, NamesAgree, NoEarlyRoom, Text, Members

\* A room with members is the one registered under its name.
LEMMA MembersRegistered ==
    ASSUME OInv, NEW r \in Conn, sockets[r] # {}
    PROVE  name[r] \in Name /\ rooms[name[r]] = r
<1>1. ~Unplaced(r)
  BY DEF OInv, MInv, TInv, RInv, RegistryInv, NoEarlyRoom
<1>2. name[r] # None
  BY <1>1 DEF OInv, MInv, TInv, RInv, RegistryInv, AdmissionsAgree, Unplaced
<1>. QED
  BY <1>2 DEF OInv, MInv, TInv, TypeOK, RInv, RegistryInv, NoGhostRoom

\* A step that changes one document changes what is registered under its name.
LEMMA TextMoves ==
    ASSUME OInv, NEW r \in Conn, NEW D, doc' = [doc EXCEPT ![r] = D], UNCHANGED rooms
    PROVE  /\ RegisteredRooms' = RegisteredRooms
           /\ (name[r] \in Name /\ rooms[name[r]] = r)
                 => Text' = [Text EXCEPT ![name[r]] = D] /\ name[r] \in RegisteredRooms
           /\ ~(name[r] \in Name /\ rooms[name[r]] = r) => Text' = Text
<1>0. doc \in [Conn -> SUBSET Edit] /\ rooms \in [Name -> Conn \cup {None}] /\ r # None
  BY ConnAssumption DEF OInv, MInv, TInv, TypeOK
<1>1. RegisteredRooms' = RegisteredRooms
  BY DEF RegisteredRooms
<1>2. \A n \in Name : rooms[n] = r => n = name[r]
  BY <1>0, OneName
<1>3. \A n \in Name : rooms[n] # r => Text'[n] = Text[n]
  BY <1>0 DEF Text
<1>4. \A n \in Name : rooms[n] = r => Text'[n] = D
  BY <1>0 DEF Text
<1>5. Text = [n \in Name |-> Text[n]] /\ Text' = [n \in Name |-> Text'[n]]
  BY DEF Text
<1>. QED
  BY <1>0, <1>1, <1>2, <1>3, <1>4, <1>5 DEF RegisteredRooms

LEMMA ApplyRefines ==
    ASSUME OInv, [Next]_vars, NEW t \in ConnThread, Apply(t)
    PROVE  Shared!Next
<1>. USE DEF connVars, memberVars, history
<1>0. pc[t] = "apply" /\ Inst(t) = room[t[2]] /\ room[t[2]] \in Conn
  BY InstFacts DEF Apply, InRoom, OInv, MInv
<1>1. UNCHANGED <<rooms, sockets, inbox, offered, sender, name, role>>
  BY DEF Apply, placeVars
<1>2. Members' = Members /\ RegisteredRooms' = RegisteredRooms /\ SentTo' = SentTo
  BY <1>1 DEF Members, RegisteredRooms, SentTo, Sent
<1>3. CASE frame[t] \in Edit
  <2>. DEFINE r == room[t[2]]
              n == name[r]
              e == frame[t]
  <2>1. doc' = [doc EXCEPT ![r] = doc[r] \cup {e}]
    BY <1>0, <1>3 DEF Apply
  <2>2. CASE n \in Name /\ rooms[n] = r
    <3>1. Text' = [Text EXCEPT ![n] = doc[r] \cup {e}] /\ n \in RegisteredRooms
      BY <1>0, <1>1, <2>1, <2>2, TextMoves
    <3>2. Text[n] = doc[r]
      BY <1>0, <2>2, OneName, ConnAssumption
    <3>3. e \in SentTo[n]
      BY <1>0, <1>3, <2>2, AppliedIsSent DEF SentTo
    <3>4. Shared!Merge(n, e)
      <4>1. Text' = [Text EXCEPT ![n] = @ \cup {e}]
        BY <3>1, <3>2
      <4>. QED
        BY <1>1, <1>2, <3>1, <3>3, <4>1 DEF Shared!Merge
    <3>. QED
      BY <1>3, <2>2, <3>4 DEF Shared!Next
  <2>3. CASE ~(n \in Name /\ rooms[n] = r)
    <3>1. Text' = Text
      BY <1>0, <1>1, <2>1, <2>3, TextMoves
    <3>. QED
      BY <1>1, <1>2, <3>1, QuietIsSend DEF Shared!Next
  <2>. QED
    BY <2>2, <2>3
<1>4. CASE frame[t] \notin Edit
  <2>1. Text' = Text
    BY <1>1, <1>4 DEF Apply, Text
  <2>. QED
    BY <1>1, <1>2, <2>1, QuietIsSend DEF Shared!Next
<1>. QED
  BY <1>3, <1>4

LEMMA InstallRefines ==
    ASSUME OInv, [Next]_vars, NEW c \in Conn, LoadRoomInstall(c)
    PROVE  Shared!Next
<1>. DEFINE n == name[c]
            D == snap[Admit(c)]
<1>0. /\ pc[Admit(c)] = "install" /\ Unplaced(c) /\ n \in Name
      /\ UNCHANGED <<sockets, inbox, offered, sender, name, role>>
  BY DEF LoadRoomInstall, history, Unplaced, OInv, MInv, TInv, TypeOK, RInv, RegistryInv, AdmissionsAgree
<1>a. /\ rooms \in [Name -> Conn \cup {None}] /\ doc \in [Conn -> SUBSET Edit]
      /\ sockets[c] = {} /\ \A m \in Name : rooms[m] # c
  BY <1>0 DEF OInv, MInv, TInv, TypeOK, RInv, RegistryInv, NoEarlyRoom
<1>1. CASE UNCHANGED <<rooms, doc>>
  <2>1. Text' = Text /\ Members' = Members /\ RegisteredRooms' = RegisteredRooms
    BY <1>0, <1>1 DEF Text, Members, RegisteredRooms
  <2>. QED
    BY <1>0, <2>1, QuietIsSend DEF Shared!Next
<1>2. CASE /\ rooms[n] = None /\ RoomLeft
           /\ rooms' = [rooms EXCEPT ![n] = c] /\ doc' = [doc EXCEPT ![c] = D]
  <2>1. RegisteredRooms' = RegisteredRooms \cup {n} /\ n \notin RegisteredRooms
    BY <1>0, <1>a, <1>2, ConnAssumption DEF RegisteredRooms
  <2>2. Text' = [Text EXCEPT ![n] = D]
    <3>1. Text'[n] = D
      BY <1>0, <1>a, <1>2, ConnAssumption DEF Text
    <3>2. \A m \in Name : m # n => Text'[m] = Text[m]
      BY <1>0, <1>a, <1>2, ConnAssumption DEF Text
    <3>3. Text = [m \in Name |-> Text[m]] /\ Text' = [m \in Name |-> Text'[m]]
      BY DEF Text
    <3>. QED
      BY <1>0, <3>1, <3>2, <3>3
  <2>3. Members' = Members
    <3>1. Members'[n] = {} /\ Members[n] = {}
      BY <1>0, <1>a, <1>2, ConnAssumption DEF Members
    <3>2. \A m \in Name : m # n => Members'[m] = Members[m]
      BY <1>0, <1>a, <1>2 DEF Members
    <3>3. Members = [m \in Name |-> Members[m]] /\ Members' = [m \in Name |-> Members'[m]]
      BY DEF Members
    <3>. QED
      BY <3>1, <3>2, <3>3
  <2>4. SentTo' = SentTo
    BY <1>0 DEF SentTo, Sent
  <2>5. D \in SUBSET offered[n]
    BY <1>0 DEF OInv, SaveInv
  <2>6. Cardinality(RegisteredRooms) < MaxRooms
    BY <1>2 DEF RoomLeft
  <2>7. Shared!Open(n)
    <3>1. \E X \in SUBSET offered[n] : Text' = [Text EXCEPT ![n] = X]
      BY <2>2, <2>5
    <3>2. UNCHANGED <<inbox, offered>>
      BY <1>0
    <3>3. Shared!Cardinality(RegisteredRooms) = Cardinality(RegisteredRooms)
      BY Zenon DEF Cardinality, Shared!Cardinality
    <3>. QED
      BY <2>1, <2>3, <2>4, <2>6, <3>1, <3>2, <3>3 DEF Shared!Open
  <2>. QED
    BY <1>0, <2>7 DEF Shared!Next
<1>. QED
  BY <1>1, <1>2 DEF LoadRoomInstall, JoinRegistered, ServerFull

\* A step that changes one room's members changes those registered under its name.
LEMMA MembersMove ==
    ASSUME OInv, NEW r \in Conn, NEW S, sockets' = [sockets EXCEPT ![r] = S], UNCHANGED <<rooms, doc>>
    PROVE  /\ RegisteredRooms' = RegisteredRooms /\ Text' = Text
           /\ (name[r] \in Name /\ rooms[name[r]] = r)
                 => Members' = [Members EXCEPT ![name[r]] = S] /\ name[r] \in RegisteredRooms
           /\ ~(name[r] \in Name /\ rooms[name[r]] = r) => Members' = Members
<1>0. sockets \in [Conn -> SUBSET Conn] /\ rooms \in [Name -> Conn \cup {None}] /\ r # None
  BY ConnAssumption DEF OInv, MInv, TInv, TypeOK
<1>1. RegisteredRooms' = RegisteredRooms /\ Text' = Text
  BY DEF RegisteredRooms, Text
<1>2. \A n \in Name : rooms[n] = r => n = name[r]
  BY <1>0, OneName
<1>3. \A n \in Name : rooms[n] # r => Members'[n] = Members[n]
  BY <1>0 DEF Members
<1>4. \A n \in Name : rooms[n] = r => Members'[n] = S
  BY <1>0 DEF Members
<1>5. Members = [n \in Name |-> Members[n]] /\ Members' = [n \in Name |-> Members'[n]]
  BY DEF Members
<1>. QED
  BY <1>0, <1>1, <1>2, <1>3, <1>4, <1>5 DEF RegisteredRooms

LEMMA RegisterRefines ==
    ASSUME OInv, [Next]_vars, NEW c \in Conn, Register(c)
    PROVE  Shared!Next
<1>. DEFINE r == target[c]
            n == name[r]
<1>0. /\ pc[Admit(c)] = "register" /\ r = room[c] /\ r \in Conn /\ Early(c) /\ c # None
      /\ UNCHANGED <<rooms, doc, inbox, offered, sender, name, role>>
  BY ConnAssumption DEF Register, connVars, placeVars, docVars, history, Early, OInv, MInv, TInv, TypeOK,
         RInv, RegistryInv, AdmissionsAgree
<1>1. sockets' = [sockets EXCEPT ![r] = sockets[r] \cup {c}]
  BY <1>0 DEF Register
<1>2. n \in Name /\ rooms[n] = r
  <2>1. c \in Reserved(r) /\ pending[r] = Cardinality(Reserved(r)) /\ pending[r] \in Nat
    BY <1>0 DEF Reserved, OInv, MInv, TInv, TypeOK, RInv, RegistryInv, PendingExact
  <2>2. pending[r] > 0
    <3>1. Cardinality(Reserved(r)) # 0
      BY <2>1, ReservedFinite, FS_EmptySet
    <3>. QED
      BY <2>1, <3>1
  <2>3. ~Unplaced(r)
    BY <1>0 DEF OInv, MInv, TInv, RInv, RegistryInv, NoEarlyRoom
  <2>. QED
    BY <1>0, <2>2, <2>3, DocNamed DEF OInv, MInv, TInv, RInv, RegistryInv, NoGhostRoom
<1>3. /\ RegisteredRooms' = RegisteredRooms /\ Text' = Text /\ n \in RegisteredRooms
      /\ Members' = [Members EXCEPT ![n] = sockets[r] \cup {c}]
  BY <1>0, <1>1, <1>2, MembersMove
<1>4. Members[n] = sockets[r]
  BY <1>0, <1>2, OneName, ConnAssumption
<1>5. \A m \in Name : c \notin Members[m]
  <2>1. \A q \in Conn : c \notin sockets[q]
    BY <1>0 DEF OInv, MInv, MemberInv, MembersPlaced
  <2>. QED
    BY <2>1 DEF Members, OInv, MInv, TInv, TypeOK
<1>6. SentTo' = SentTo
  BY <1>0 DEF SentTo, Sent
<1>7. Shared!Join(n, c)
  BY <1>0, <1>3, <1>4, <1>5, <1>6 DEF Shared!Join
<1>. QED
  BY <1>2, <1>7 DEF Shared!Next

LEMMA RemoveRefines ==
    ASSUME OInv, [Next]_vars, NEW t \in ConnThread, Remove(t)
    PROVE  Shared!Next
<1>. DEFINE c == t[2]
            r == room[c]
            n == name[r]
<1>0. /\ c \in Conn /\ r \in Conn /\ Inst(t) = r
      /\ UNCHANGED <<rooms, doc, inbox, offered, sender, name, role>>
  BY ThreadFacts, InstFacts DEF Remove, connVars, placeVars, InRoom, OInv, MInv
<1>1. sockets' = [sockets EXCEPT ![r] = sockets[r] \ {c}]
  BY <1>0 DEF Remove
<1>2. SentTo' = SentTo
  BY <1>0 DEF SentTo, Sent
<1>3. CASE n \in Name /\ rooms[n] = r
  <2>1. /\ RegisteredRooms' = RegisteredRooms /\ Text' = Text
        /\ Members' = [Members EXCEPT ![n] = sockets[r] \ {c}]
    BY <1>0, <1>1, <1>3, MembersMove
  <2>2. Members[n] = sockets[r]
    BY <1>0, <1>3, OneName, ConnAssumption
  <2>3. Shared!Leave(n, c)
    BY <1>0, <1>2, <2>1, <2>2 DEF Shared!Leave
  <2>. QED
    BY <1>0, <1>3, <2>3 DEF Shared!Next
<1>4. CASE ~(n \in Name /\ rooms[n] = r)
  <2>1. RegisteredRooms' = RegisteredRooms /\ Text' = Text /\ Members' = Members
    BY <1>0, <1>1, <1>4, MembersMove
  <2>. QED
    BY <1>0, <2>1, QuietIsSend DEF Shared!Next
<1>. QED
  BY <1>3, <1>4

\* A live member is sent a part of its document.
LEMMA DeliveryRefines ==
    ASSUME OInv, [Next]_vars, NEW c \in Conn, NEW D, D \subseteq doc[room[c]], room[c] \in Conn,
           c \in sockets[room[c]], inbox' = [inbox EXCEPT ![c] = @ \cup D],
           UNCHANGED <<roomVars, placeVars, sender, offered>>
    PROVE  Shared!Next
<1>. DEFINE n == name[room[c]]
<1>1. n \in Name /\ rooms[n] = room[c]
  BY MembersRegistered
<1>2. n \in RegisteredRooms /\ Text[n] = doc[room[c]] /\ Members[n] = sockets[room[c]]
  BY <1>1, OneName, ConnAssumption DEF RegisteredRooms
<1>3. UNCHANGED <<RegisteredRooms, Text, Members, SentTo>>
  BY DEF RegisteredRooms, Text, Members, SentTo, Sent, roomVars, memberVars, docVars, placeVars
<1>4. Shared!Deliver(n, c)
  BY <1>2, <1>3 DEF Shared!Deliver
<1>. QED
  BY <1>1, <1>4 DEF Shared!Next

LEMMA QuietRooms ==
    ASSUME OInv, [Next]_vars, UNCHANGED <<rooms, doc, sockets, inbox, offered>>
    PROVE  Shared!Next
<1>1. UNCHANGED <<RegisteredRooms, Text, Members>>
  BY DEF RegisteredRooms, Text, Members
<1>. QED
  BY <1>1, QuietIsSend DEF Shared!Next

LEMMA AnnounceRefines ==
    ASSUME OInv, [Next]_vars, NEW c \in Conn, Announce(c)
    PROVE  Shared!Next
<1>. USE DEF connVars
<1>1. pc[Admit(c)] = "announce" /\ UNCHANGED <<roomVars, placeVars, sender, offered>>
  BY DEF Announce
<1>2. CASE ~isOpen[c]
  BY <1>1, <1>2, QuietRooms DEF Announce, roomVars, memberVars, docVars
<1>3. CASE isOpen[c]
  <2>1. phase[c] # "closed"
    BY <1>3 DEF OInv, OriginInv
  <2>2. room[c] # None /\ c \in sockets[room[c]]
    BY <1>1, <2>1 DEF OInv, MInv, TInv, RInv, RegistryInv, AdmissionsAgree, Placed
  <2>3. room[c] \in Conn
    BY <2>2, RoomPlaced DEF OInv, MInv
  <2>4. snap[Admit(c)] \subseteq doc[room[c]]
    BY <1>1 DEF OInv, OriginInv
  <2>5. inbox' = [inbox EXCEPT ![c] = @ \cup snap[Admit(c)]]
    BY <1>3 DEF Announce
  <2>. QED
    BY <1>1, <2>2, <2>3, <2>4, <2>5, DeliveryRefines
<1>. QED
  BY <1>2, <1>3

LEMMA SendPeerRefines ==
    ASSUME OInv, [Next]_vars, NEW t \in ConnThread, SendPeer(t)
    PROVE  Shared!Next
<1>. USE DEF connVars
<1>0. /\ pc[t] = "send" /\ UNCHANGED <<roomVars, placeVars, sender, offered>>
      /\ t \in Thread /\ peers \in [Thread -> SUBSET Conn]
  BY ThreadFacts DEF SendPeer, OInv, MInv, TInv, TypeOK
<1>1. CASE UNCHANGED inbox
  BY <1>0, <1>1, QuietRooms DEF roomVars, memberVars, docVars
<1>2. CASE \E p \in peers[t] : /\ isOpen[p] /\ frame[t] \in Edit
                               /\ inbox' = [inbox EXCEPT ![p] = @ \cup {frame[t]}]
  <2>1. PICK p \in peers[t] : /\ isOpen[p] /\ frame[t] \in Edit
                              /\ inbox' = [inbox EXCEPT ![p] = @ \cup {frame[t]}]
    BY <1>2
  <2>2. p \in Conn /\ room[p] = room[t[2]] /\ p \in sockets[room[p]]
    BY <1>0, <2>1 DEF OInv, OriginInv
  <2>3. room[p] \in Conn
    BY <1>0, <2>2, InstFacts DEF InRoom, OInv, MInv
  <2>4. {frame[t]} \subseteq doc[room[p]]
    BY <1>0, <2>1, <2>2 DEF OInv, FrameInv
  <2>. QED
    BY <1>0, <2>1, <2>2, <2>3, <2>4, DeliveryRefines
<1>. QED
  BY <1>1, <1>2 DEF SendPeer

LEMMA SaveRefines ==
    ASSUME OInv, [Next]_vars, NEW t \in Thread, Save(t)
    PROVE  Shared!Next
<1>. USE DEF connVars
<1>. DEFINE n == name[Inst(t)]
<1>0. UNCHANGED <<roomVars, placeVars, sender, inbox>>
  BY DEF Save
<1>1. Inst(t) \in Conn /\ offered' = [offered EXCEPT ![n] = @ \cup snap[t]]
  <2>1. pc[t] = "save"
    BY DEF Save
  <2>. QED
    BY <2>1, SaverMoves DEF Save, OInv, MInv
<1>2. UNCHANGED <<RegisteredRooms, Text, Members, SentTo>>
  BY <1>0 DEF RegisteredRooms, Text, Members, SentTo, Sent, roomVars, memberVars, docVars, placeVars
<1>3. CASE n \in Name
  <2>1. snap[t] \in SUBSET SentTo[n]
    BY <1>1, <1>3, SavedIsSent DEF SentTo
  <2>2. Shared!Keep(n)
    <3>1. \E X \in SUBSET SentTo[n] : offered' = [offered EXCEPT ![n] = @ \cup X]
      BY <1>1, <2>1
    <3>. QED
      BY <1>0, <1>2, <3>1 DEF Shared!Keep
  <2>. QED
    BY <1>3, <2>2 DEF Shared!Next
<1>4. CASE n \notin Name
  <2>1. offered' = offered
    BY <1>1, <1>4 DEF OInv, MInv, TInv, TypeOK
  <2>. QED
    BY <1>0, <2>1, QuietRooms DEF roomVars, memberVars, docVars
<1>. QED
  BY <1>3, <1>4

LEMMA ForgetRefines ==
    ASSUME OInv, [Next]_vars, NEW t \in ConnThread, Forget(t)
    PROVE  Shared!Next
<1>. USE DEF connVars
<1>. DEFINE r == Inst(t)
            n == name[r]
<1>0. UNCHANGED <<doc, sockets, placeVars, sender, inbox, offered>> /\ r \in Conn
  BY InstFacts DEF Forget, docVars, history, InRoom, OInv, MInv
<1>1. CASE UNCHANGED rooms
  BY <1>0, <1>1, QuietRooms
<1>2. CASE Vacant(r, sockets[r]) /\ rooms[n] = r /\ rooms' = [rooms EXCEPT ![n] = None]
  <2>1. CASE n \notin Name
    BY <1>0, <1>2, <2>1, QuietRooms DEF OInv, MInv, TInv, TypeOK
  <2>2. CASE n \in Name
    <3>0. rooms \in [Name -> Conn \cup {None}]
      BY DEF OInv, MInv, TInv, TypeOK
    <3>1. RegisteredRooms' = RegisteredRooms \ {n} /\ n \in RegisteredRooms
      BY <1>0, <1>2, <2>2, <3>0, ConnAssumption DEF RegisteredRooms
    <3>2. Members[n] = {}
      BY <1>0, <1>2, <2>2 DEF Members, Vacant
    <3>3. Members' = Members
      <4>1. \A m \in Name : Members'[m] = Members[m]
        BY <1>0, <1>2, <2>2, <3>0, <3>2 DEF Members
      <4>2. Members = [m \in Name |-> Members[m]] /\ Members' = [m \in Name |-> Members'[m]]
        BY DEF Members
      <4>. QED
        BY <4>1, <4>2
    <3>4. Text' = [Text EXCEPT ![n] = {}]
      <4>1. \A m \in Name : Text'[m] = IF m = n THEN {} ELSE Text[m]
        BY <1>0, <1>2, <2>2, <3>0 DEF Text
      <4>2. Text = [m \in Name |-> Text[m]] /\ Text' = [m \in Name |-> Text'[m]]
        BY DEF Text
      <4>. QED
        BY <2>2, <4>1, <4>2
    <3>5. SentTo' = SentTo
      BY <1>0 DEF SentTo, Sent, placeVars
    <3>6. Shared!Close(n)
      BY <1>0, <3>1, <3>2, <3>3, <3>4, <3>5 DEF Shared!Close
    <3>. QED
      BY <2>2, <3>6 DEF Shared!Next
  <2>. QED
    BY <2>1, <2>2
<1>. QED
  BY <1>1, <1>2 DEF Forget

\* Every step of the relay is a step of SharedRooms or leaves it as it is.
LEMMA RoomsStep ==
    ASSUME OInv, [Next]_vars
    PROVE  Shared!Next
<1>. USE DEF connVars, roomVars, memberVars, docVars, history
<1>1. CASE \E c \in Conn : LoadRoomInstall(c) \/ Register(c) \/ Announce(c)
  BY <1>1, InstallRefines, RegisterRefines, AnnounceRefines
<1>2. CASE \E t \in ConnThread : Apply(t) \/ Remove(t) \/ SendPeer(t) \/ Forget(t)
  BY <1>2, ApplyRefines, RemoveRefines, SendPeerRefines, ForgetRefines
<1>3. CASE \E t \in Thread : Save(t)
  BY <1>3, SaveRefines
<1>4. CASE \E c \in Conn : \/ \E n \in Name : Connect(c, n)
                          \/ SocketFails(c) \/ OnAuthFrame(c) \/ OnClose(c)
                          \/ ReaperFires(c) \/ ReaperRejects(c)
                          \/ \E f \in Frame : OnMessage(c, f)
  BY <1>4, QuietRooms DEF Connect, SocketFails, OnAuthFrame, OnClose, ReaperFires, ReaperRejects,
                          OnMessage
<1>5. CASE \E c \in Conn : AdmitStep(c) /\ ~(LoadRoomInstall(c) \/ Register(c) \/ Announce(c))
  BY <1>5, QuietRooms DEF AdmitStep, Authorize, LoadRoomLookup, JoinRegistered, ServerFull,
              LoadRoomLoad, AssignRoom, CheckOpen, DecideGrant, OpenPhase, Replay
<1>6. CASE \E t \in Thread : \/ ArmSave(t) \/ Snapshot(t) \/ Regrant(t)
                             \/ FlushStop(t) \/ Encode(t)
  BY <1>6, QuietRooms DEF ArmSave, Snapshot, Regrant, FlushStop, Encode
<1>7. CASE \/ \E e \in Edit : TimerFires(e) \/ TimerClears(e)
           \/ \E t \in FlushThread : FlushAllStart(t) \/ FlushAllNext(t)
  BY <1>7, QuietRooms DEF TimerFires, TimerClears, FlushAllStart, FlushAllNext
<1>8. CASE UNCHANGED vars
  BY <1>8, QuietRooms DEF vars
<1>9. \A t \in ConnThread : t \in Thread
  BY ThreadFacts
<1>. QED
  BY <1>1, <1>2, <1>3, <1>4, <1>5, <1>6, <1>7, <1>8, <1>9 DEF Next, ConnStep, SaveStep

\* The relay implements SharedRooms: whatever its threads do, each name has one
\* document at a time, which grows by what its writers have sent and reaches its
\* members only.
THEOREM RoomsRefined == Spec => ImplementsRooms
<1>1. Init => Shared!Init
  <2>. SUFFICES ASSUME Init PROVE Shared!Init
    OBVIOUS
  <2>1. RegisteredRooms = {}
    BY DEF Init, RegisteredRooms
  <2>2. Text = [n \in Name |-> {}] /\ Members = [n \in Name |-> {}]
    BY DEF Init, Text, Members
  <2>3. SentTo = [n \in Name |-> {}]
    BY DEF Init, SentTo, Sent
  <2>. QED
    BY <2>1, <2>2, <2>3 DEF Init, Shared!Init
<1>2. OInv /\ [Next]_vars => [Shared!Next]_(Shared!docs)
  BY RoomsStep
<1>. QED
  BY <1>1, <1>2, OriginInvariant, PTL DEF Spec, ImplementsRooms, Shared!Spec
================================================================================
