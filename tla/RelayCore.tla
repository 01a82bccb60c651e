------------------------------ MODULE RelayCore ------------------------------
(***************************************************************************)
(* The portable core of the collaborative relay                            *)
(* (modules/relay/relay/core.go): room registry, admission, broadcast,     *)
(* seed grants, and debounced saving of each room's document.              *)
(*                                                                         *)
(* One action is one critical section of a goroutine, or one call it makes *)
(* outside every lock.  The goroutines ("threads") are, for a connection   *)
(* c: <<"admit", c>>, which runs admit and the replay of the frames        *)
(* buffered before it, and <<"read", c>>, the socket's read loop, which    *)
(* runs OnMessage and finally OnClose; for an edit e, <<"timer", e>>, the  *)
(* callback of the debounce timer that handling e armed; for a caller f of *)
(* FlushAll, <<"flush", f>>.  With AuthRequired, admit runs on the read    *)
(* loop itself: see Reading.                                               *)
(*                                                                         *)
(* docMu and Core.mu are held for one action at most, and Core.mu is only  *)
(* ever taken inside docMu, so neither appears as a variable.              *)
(***************************************************************************)
EXTENDS Naturals, Sequences, FiniteSets

CONSTANTS
    Conn,              \* connections; a room instance is named by the
                       \* connection whose admission created it
    Name,              \* room names
    Edit,              \* well-formed DOC updates, each sent at most once
    Blank,             \* the edits that insert nothing (a fresh client's state)
    Misc,              \* the other frames: "aware", "malformed", "unknown"
    Verdict,           \* outcomes of authorize and authorizeRoom that occur
    AuthRequired,      \* Options.AuthRequired
    Flusher,           \* callers of FlushAll
    MaxRooms,          \* maxRooms
    MaxPendingFrames,  \* maxPendingFrames
    StoreMayFail,      \* whether Store.Load and Store.Save may return an error
    None

Role == {"owner", "editor", "viewer"}

ASSUME ConnAssumption  == IsFiniteSet(Conn) /\ None \notin Conn
ASSUME EditAssumption  == Blank \subseteq Edit /\ None \notin Edit
ASSUME MiscAssumption  == /\ Misc \subseteq {"aware", "malformed", "unknown"}
                          /\ Edit \cap {"aware", "malformed", "unknown"} = {}
                          /\ None \notin Misc
ASSUME RoleAssumption  == /\ Verdict \subseteq Role \cup {"error", "deny"}
                          /\ None \notin Role
ASSUME NameAssumption  == IsFiniteSet(Name) /\ None \notin Name
ASSUME BoundAssumption == MaxRooms \in Nat /\ MaxPendingFrames \in Nat
ASSUME ModeAssumption  == AuthRequired \in BOOLEAN /\ StoreMayFail \in BOOLEAN

Frame  == Edit \cup Misc
Thread == ({"admit", "read"} \X Conn) \cup ({"timer"} \X Edit)
             \cup ({"flush"} \X Flusher)

VARIABLES
    phase,      \* conn.phase, "absent" before Connect
    isOpen,     \* Socket.IsOpen
    name,       \* conn.name, the room the request names
    role,       \* conn.role
    target,     \* admit's local r
    room,       \* conn.room
    buffer,     \* conn.pending; once the connection is open, admit's copy of it
    reaper,     \* the handshake reaper: "off", "set", or "reject"
    rooms,      \* Core.rooms
    doc,        \* room.doc, as the set of updates merged into it
    sockets,    \* room.sockets
    pending,    \* room.pending
    seeder,     \* room.seeder
    saveTimer,  \* room.saveTimer
    store,      \* what Store.Load returns
    pc,         \* the next step of each thread
    frame,      \* the frame a thread is handling
    snap,       \* the snapshot a thread has loaded or encoded
    peers,      \* the peers a thread has yet to send its frame to
    grantee,    \* the connection a thread is about to send the seed grant to
    todo,       \* FlushAll's copy of the registry
    work,       \* the room FlushAll is flushing
    sender,     \* history: the connection each edit came from
    inbox,      \* history: the edits sent to each socket while it was open
    granted,    \* history: the members that have been sent the seed grant
    offered     \* history: the edits handed to Store.Save for each name

socketVars == <<phase, isOpen>>
placeVars  == <<name, role, target, room>>
inputVars  == <<buffer, reaper>>
connVars   == <<socketVars, placeVars, inputVars>>
memberVars == <<rooms, sockets, pending>>
docVars    == <<doc, seeder, saveTimer>>
roomVars   == <<memberVars, docVars>>
sendVars   == <<frame, peers, grantee>>
flushVars  == <<todo, work>>
localVars  == <<sendVars, snap, flushVars>>
history    == <<sender, inbox, granted, offered>>
vars == <<connVars, roomVars, store, pc, localVars, history>>

------------------------------------------------------------------------------

Admit(c) == <<"admit", c>>
Read(c)  == <<"read", c>>
Timer(e) == <<"timer", e>>
ConnThread  == {"admit", "read"} \X Conn
FlushThread == {"flush"} \X Flusher

CanWrite(ro) == ro \in {"owner", "editor"}
docIsEmpty(i) == doc[i] \subseteq Blank

\* The room a thread's handle, dropSocket, flush or safeSave works on.
Inst(t) == CASE t[1] = "timer" -> room[sender[t[2]]]
             [] t[1] = "flush" -> work[t]
             [] OTHER          -> room[t[2]]

\* Where a thread goes on when handle returns.
Home(t) == IF t[1] = "admit" THEN "replay" ELSE "read"

\* r.saveTimer.Stop(): prevents a timer that has not fired, and no other.
StopTimer(i, p) ==
    [t \in Thread |-> IF /\ saveTimer[i] # None
                         /\ t = Timer(saveTimer[i])
                         /\ p[t] = "armed"
                      THEN "done" ELSE p[t]]

\* Mutant: the loop is left for good once the connection has been rejected.
ReadingUnlessClosed(c) ==
    /\ pc[Read(c)] = "read" /\ phase[c] # "closed"
    /\ AuthRequired => pc[Admit(c)] \in {"idle", "done"}

\* The read loop of c is waiting for a frame.  With AuthRequired the AUTH
\* frame's listener runs admit before the loop reads again.
Reading(c) ==
    /\ pc[Read(c)] = "read"
    /\ AuthRequired => pc[Admit(c)] \in {"idle", "done"}

\* conn.reject, and the phase/Close pairs of admit's error paths.
Refuse(c) == /\ phase' = [phase EXCEPT ![c] = "closed"]
             /\ isOpen' = [isOpen EXCEPT ![c] = FALSE]

Goto(t, l) == pc' = [pc EXCEPT ![t] = l]

------------------------------------------------------------------------------

Init ==
    /\ phase = [c \in Conn |-> "absent"]
    /\ isOpen = [c \in Conn |-> FALSE]
    /\ name = [c \in Conn |-> None]
    /\ role = [c \in Conn |-> None]
    /\ target = [c \in Conn |-> None]
    /\ room = [c \in Conn |-> None]
    /\ buffer = [c \in Conn |-> <<>>]
    /\ reaper = [c \in Conn |-> "off"]
    /\ rooms = [n \in Name |-> None]
    /\ doc = [c \in Conn |-> {}]
    /\ sockets = [c \in Conn |-> {}]
    /\ pending = [c \in Conn |-> 0]
    /\ seeder = [c \in Conn |-> None]
    /\ saveTimer = [c \in Conn |-> None]
    /\ store = [n \in Name |-> {}]
    /\ pc = [t \in Thread |-> "idle"]
    /\ frame = [t \in Thread |-> None]
    /\ snap = [t \in Thread |-> {}]
    /\ peers = [t \in Thread |-> {}]
    /\ grantee = [t \in Thread |-> None]
    /\ todo = [t \in FlushThread |-> {}]
    /\ work = [t \in FlushThread |-> None]
    /\ sender = [e \in Edit |-> None]
    /\ inbox = [c \in Conn |-> {}]
    /\ granted = {}
    /\ offered = [n \in Name |-> {}]

------------------------------------------------------------------------------
(* The connection: Connect, its listeners and its reaper.                    *)

NoReaper == "off"   \* Mutant: the reaper is never set.
HandshakeReaper == IF AuthRequired THEN "set" ELSE "off"

Connect(c, n) ==
    /\ phase[c] = "absent"
    /\ phase' = [phase EXCEPT ![c] = "pending"]
    /\ isOpen' = [isOpen EXCEPT ![c] = TRUE]
    /\ name' = [name EXCEPT ![c] = n]
    /\ reaper' = [reaper EXCEPT ![c] = HandshakeReaper]
    /\ pc' = [pc EXCEPT ![Read(c)] = "read",
                        ![Admit(c)] = IF AuthRequired THEN "idle" ELSE "authorize"]
    /\ UNCHANGED <<role, target, room, buffer, roomVars, store, localVars,
                   history>>

\* The peer goes away, a write fails or times out, or the send queue overflows.
SocketFails(c) ==
    /\ isOpen[c]
    /\ isOpen' = [isOpen EXCEPT ![c] = FALSE]
    /\ UNCHANGED <<phase, placeVars, inputVars, roomVars, store, pc, localVars,
                   history>>

\* handle up to its first lock on the room: rate limit, tag and role.  A breach
\* of the rate limit is always possible here.
Dispatch(t, f) ==
    LET c == t[2] IN
    \/ Refuse(c) /\ Goto(t, Home(t)) /\ UNCHANGED frame
    \/ /\ f = "unknown" \/ (f # "aware" /\ ~CanWrite(role[c]))
       /\ Goto(t, Home(t))
       /\ UNCHANGED <<socketVars, frame>>
    \/ /\ f = "aware" \/ (f # "unknown" /\ CanWrite(role[c]))
       /\ Goto(t, IF f = "aware" THEN "peers" ELSE "apply")
       /\ frame' = [frame EXCEPT ![t] = f]
       /\ UNCHANGED socketVars

BufferOverwritten(c, f) == <<f>>   \* Mutant: only the last frame is kept.
Buffered(c, f) == Append(buffer[c], f)

\* The OnMessage listener; a frame that finds the phase closed changes nothing.
\* The bound on buffered bytes may refuse any frame, the bound on their number
\* only when the buffer is full.
OnMessage(c, f) ==
    /\ Reading(c)
    /\ f \in Edit => sender[f] = None
    /\ sender' = IF f \in Edit THEN [sender EXCEPT ![f] = c] ELSE sender
    /\ \/ phase[c] = "open" /\ Dispatch(Read(c), f) /\ UNCHANGED buffer
       \/ phase[c] = "pending" /\ Refuse(c) /\ UNCHANGED <<buffer, pc, frame>>
       \/ /\ phase[c] = "pending" /\ Len(buffer[c]) < MaxPendingFrames
          /\ buffer' = [buffer EXCEPT ![c] = Buffered(c, f)]
          /\ UNCHANGED <<socketVars, pc, frame>>
    /\ UNCHANGED <<placeVars, reaper, roomVars, store, peers, grantee, snap,
                   flushVars, inbox, granted, offered>>

\* OnMessage of an AUTH frame: startAuthFromFrame calls admit.
OnAuthFrame(c) ==
    /\ AuthRequired /\ Reading(c)
    /\ phase[c] = "pending" /\ Len(buffer[c]) < MaxPendingFrames
    /\ Goto(Admit(c), "authorize")
    /\ UNCHANGED <<connVars, roomVars, store, localVars, history>>

\* The read loop ends on a dead socket and runs the OnClose listener, after
\* which Connect returns and stops the reaper.
OnClose(c) ==
    /\ Reading(c) /\ ~isOpen[c]
    /\ phase' = [phase EXCEPT ![c] = "closed"]
    /\ Goto(Read(c), IF room[c] = None THEN "done" ELSE "remove")
    /\ reaper' = [reaper EXCEPT ![c] = IF @ = "set" THEN "off" ELSE @]
    /\ UNCHANGED <<isOpen, placeVars, buffer, roomVars, store, localVars,
                   history>>

\* The reaper fires and reads the phase ...
ReaperFires(c) ==
    /\ reaper[c] = "set"
    /\ reaper' = [reaper EXCEPT ![c] = IF phase[c] = "pending" THEN "reject" ELSE "off"]
    /\ UNCHANGED <<socketVars, placeVars, buffer, roomVars, store, pc,
                   localVars, history>>

\* ... and rejects the connection after it has released conn.mu.
ReaperRejects(c) ==
    /\ reaper[c] = "reject"
    /\ reaper' = [reaper EXCEPT ![c] = "off"]
    /\ Refuse(c)
    /\ UNCHANGED <<placeVars, buffer, roomVars, store, pc, localVars, history>>

------------------------------------------------------------------------------
(* admit and loadRoom                                                        *)

\* authorize, roomName and authorizeRoom, with the closedNow checks after them.
Authorize(c) ==
    /\ pc[Admit(c)] = "authorize"
    /\ \/ "error" \in Verdict /\ Refuse(c) /\ Goto(Admit(c), "done") /\ UNCHANGED role
       \/ /\ phase[c] = "closed" /\ Goto(Admit(c), "done")
          /\ UNCHANGED <<socketVars, role>>
       \/ /\ "deny" \in Verdict /\ phase[c] # "closed"
          /\ Refuse(c) /\ Goto(Admit(c), "done") /\ UNCHANGED role
       \/ /\ phase[c] # "closed"
          /\ \E ro \in Verdict \cap Role : role' = [role EXCEPT ![c] = ro]
          /\ Goto(Admit(c), "lookup")
          /\ UNCHANGED socketVars
    /\ UNCHANGED <<name, target, room, inputVars, roomVars, store, localVars,
                   history>>

RegisteredRooms == {n \in Name : rooms[n] # None}

RoomLeftOffByOne == Cardinality(RegisteredRooms) <= MaxRooms   \* Mutant
RoomLeft == Cardinality(RegisteredRooms) < MaxRooms

SlotKept(r) == pending[r]   \* Mutant: the counter does not move.
SlotReserved(r) == pending[r] + 1
SlotReleased(r) == pending[r] - 1

\* A registered room reserves a pending slot and is the connection's room.
JoinRegistered(c) ==
    /\ target' = [target EXCEPT ![c] = rooms[name[c]]]
    /\ pending' = [pending EXCEPT ![rooms[name[c]]] = SlotReserved(rooms[name[c]])]
    /\ Goto(Admit(c), "assign")
    /\ UNCHANGED <<socketVars, rooms, doc>>

ServerFull(c) ==
    /\ rooms[name[c]] = None /\ ~RoomLeft
    /\ Refuse(c) /\ Goto(Admit(c), "done")
    /\ UNCHANGED <<target, rooms, pending, doc>>

LoadRoomLookup(c) ==
    /\ pc[Admit(c)] = "lookup"
    /\ \/ rooms[name[c]] # None /\ JoinRegistered(c)
       \/ ServerFull(c)
       \/ /\ rooms[name[c]] = None /\ RoomLeft
          /\ Goto(Admit(c), "load")
          /\ UNCHANGED <<socketVars, target, rooms, pending, doc>>
    /\ UNCHANGED <<name, role, room, inputVars, sockets, seeder, saveTimer,
                   store, localVars, history>>

\* Store.Load, outside every lock; a failure or a corrupt snapshot ends admit.
LoadRoomLoad(c) ==
    /\ pc[Admit(c)] = "load"
    /\ \/ /\ snap' = [snap EXCEPT ![Admit(c)] = store[name[c]]]
          /\ Goto(Admit(c), "install") /\ UNCHANGED socketVars
       \/ StoreMayFail /\ Refuse(c) /\ Goto(Admit(c), "done") /\ UNCHANGED snap
    /\ UNCHANGED <<placeVars, inputVars, roomVars, store, sendVars, flushVars,
                   history>>

\* The registry is checked again before the loaded room is registered.
LoadRoomInstall(c) ==
    /\ pc[Admit(c)] = "install"
    /\ \/ rooms[name[c]] # None /\ JoinRegistered(c)
       \/ ServerFull(c)
       \/ /\ rooms[name[c]] = None /\ RoomLeft
          /\ rooms' = [rooms EXCEPT ![name[c]] = c]
          /\ doc' = [doc EXCEPT ![c] = snap[Admit(c)]]
          /\ pending' = [pending EXCEPT ![c] = 1]
          /\ target' = [target EXCEPT ![c] = c]
          /\ Goto(Admit(c), "assign") /\ UNCHANGED socketVars
    /\ snap' = [snap EXCEPT ![Admit(c)] = {}]
    /\ UNCHANGED <<name, role, room, inputVars, sockets, seeder, saveTimer,
                   store, sendVars, flushVars, history>>

AssignRoom(c) ==
    /\ pc[Admit(c)] = "assign"
    /\ room' = [room EXCEPT ![c] = target[c]]
    /\ Goto(Admit(c), "register")
    /\ UNCHANGED <<socketVars, name, role, target, inputVars, roomVars, store,
                   localVars, history>>

Register(c) ==
    /\ pc[Admit(c)] = "register"
    /\ pending' = [pending EXCEPT ![target[c]] = SlotReleased(target[c])]
    /\ sockets' = [sockets EXCEPT ![target[c]] = @ \cup {c}]
    /\ Goto(Admit(c), "check")
    /\ UNCHANGED <<connVars, rooms, docVars, store, localVars, history>>

DeadNotDropped(c) == IF isOpen[c] THEN "grant" ELSE "done"   \* Mutant
AfterCheck(c) == IF isOpen[c] THEN "grant" ELSE "remove"

\* A socket that died during admission is dropped by admit itself.
CheckOpen(c) ==
    /\ pc[Admit(c)] = "check"
    /\ phase' = [phase EXCEPT ![c] = IF isOpen[c] THEN @ ELSE "closed"]
    /\ Goto(Admit(c), AfterCheck(c))
    /\ UNCHANGED <<isOpen, placeVars, inputVars, roomVars, store, localVars,
                   history>>

GrantToAnyone(r) == docIsEmpty(r)   \* Mutant: the grant held is ignored.
GrantDue(r) == seeder[r] = None /\ docIsEmpty(r)

\* Under docMu and Core.mu: the initial state and the decision to grant the seed.
DecideGrant(c) ==
    LET r == target[c] IN
    /\ pc[Admit(c)] = "grant"
    /\ snap' = [snap EXCEPT ![Admit(c)] = doc[r]]
    /\ seeder' = [seeder EXCEPT ![r] = IF GrantDue(r) THEN c ELSE @]
    /\ grantee' = [grantee EXCEPT ![Admit(c)] = IF GrantDue(r) THEN c ELSE None]
    /\ Goto(Admit(c), "announce")
    /\ UNCHANGED <<connVars, memberVars, doc, saveTimer, store, frame, peers,
                   flushVars, history>>

\* Role, grant and state go out; a closed socket drops what it is sent.
Announce(c) ==
    /\ pc[Admit(c)] = "announce"
    /\ IF isOpen[c]
       THEN /\ inbox' = [inbox EXCEPT ![c] = @ \cup snap[Admit(c)]]
            /\ granted' = granted \cup ({grantee[Admit(c)]} \ {None})
       ELSE UNCHANGED <<inbox, granted>>
    /\ snap' = [snap EXCEPT ![Admit(c)] = {}]
    /\ grantee' = [grantee EXCEPT ![Admit(c)] = None]
    /\ Goto(Admit(c), "open")
    /\ UNCHANGED <<connVars, roomVars, store, frame, peers, flushVars, sender,
                   offered>>

AlwaysOpens(c) == TRUE   \* Mutant: the phase is not checked again.
StillPending(c) == phase[c] = "pending"

\* A connection closed while it was being admitted is not opened.
OpenPhase(c) ==
    /\ pc[Admit(c)] = "open"
    /\ IF StillPending(c)
       THEN phase' = [phase EXCEPT ![c] = "open"] /\ Goto(Admit(c), "replay")
       ELSE Goto(Admit(c), "done") /\ UNCHANGED phase
    /\ UNCHANGED <<isOpen, placeVars, inputVars, roomVars, store, localVars,
                   history>>

\* The frames buffered while the connection was pending, in their order.
Replay(c) ==
    /\ pc[Admit(c)] = "replay"
    /\ IF buffer[c] = <<>>
       THEN Goto(Admit(c), "done") /\ UNCHANGED <<socketVars, buffer, frame>>
       ELSE /\ Dispatch(Admit(c), Head(buffer[c]))
            /\ buffer' = [buffer EXCEPT ![c] = Tail(@)]
    /\ UNCHANGED <<placeVars, reaper, roomVars, store, peers, grantee, snap,
                   flushVars, history>>

------------------------------------------------------------------------------
(* handle: merge, arm the debounce timer, broadcast                          *)

\* A malformed update is recovered from and dropped.
Apply(t) ==
    /\ pc[t] = "apply"
    /\ IF frame[t] \in Edit
       THEN /\ doc' = [doc EXCEPT ![Inst(t)] = @ \cup {frame[t]}]
            /\ Goto(t, "arm") /\ UNCHANGED frame
       ELSE /\ Goto(t, Home(t)) /\ frame' = [frame EXCEPT ![t] = None]
            /\ UNCHANGED doc
    /\ UNCHANGED <<connVars, memberVars, seeder, saveTimer, store, peers,
                   grantee, snap, flushVars, history>>

\* Mutant: a timer that is set is stopped, and not set again.
ArmedIfIdle(t) == IF saveTimer[Inst(t)] = None THEN "armed" ELSE "done"
Armed(t) == "armed"

ArmSave(t) ==
    /\ pc[t] = "arm"
    /\ saveTimer' = [saveTimer EXCEPT ![Inst(t)] = frame[t]]
    /\ pc' = [StopTimer(Inst(t), pc) EXCEPT ![t] = "peers",
                                            ![Timer(frame[t])] = Armed(t)]
    /\ UNCHANGED <<connVars, memberVars, doc, seeder, store, localVars,
                   history>>

\* Mutant: members whose admission has not ended are passed over.
OpenPeers(t) == {p \in sockets[Inst(t)] \ {t[2]} : phase[p] = "open"}
Peers(t) == sockets[Inst(t)] \ {t[2]}

Snapshot(t) ==
    /\ pc[t] = "peers"
    /\ peers' = [peers EXCEPT ![t] = Peers(t)]
    /\ Goto(t, "send")
    /\ UNCHANGED <<connVars, roomVars, store, frame, grantee, snap, flushVars,
                   history>>

SendPeer(t) ==
    /\ pc[t] = "send"
    /\ IF peers[t] = {}
       THEN /\ Goto(t, Home(t)) /\ frame' = [frame EXCEPT ![t] = None]
            /\ UNCHANGED <<peers, inbox>>
       ELSE /\ \E p \in peers[t] :
                 /\ peers' = [peers EXCEPT ![t] = @ \ {p}]
                 /\ inbox' = IF isOpen[p] /\ frame[t] \in Edit
                             THEN [inbox EXCEPT ![p] = @ \cup {frame[t]}] ELSE inbox
            /\ UNCHANGED <<pc, frame>>
    /\ UNCHANGED <<connVars, roomVars, store, grantee, snap, flushVars, sender,
                   granted, offered>>

------------------------------------------------------------------------------
(* dropSocket, flush and safeSave                                            *)

\* Neither a member nor an admission is left in r.
VacantOfMembers(r, members) == members = {}   \* Mutant: reserved slots are ignored.
Vacant(r, members) == members = {} /\ pending[r] = 0

\* Who may hold the grant of r once c has left.
SeederStays(r, c) == {seeder[r]}   \* Mutant: the grant is not taken back.
Heirs(r, c) ==
    IF seeder[r] # c THEN {seeder[r]}
    ELSE IF docIsEmpty(r) /\ sockets[r] \ {c} # {} THEN sockets[r] \ {c}
    ELSE {None}

Remove(t) ==
    LET c == t[2]
        r == Inst(t) IN
    /\ pc[t] = "remove"
    /\ sockets' = [sockets EXCEPT ![r] = @ \ {c}]
    /\ granted' = granted \ {c}
    /\ \E h \in Heirs(r, c) :
          /\ seeder' = [seeder EXCEPT ![r] = h]
          /\ IF seeder[r] = c /\ h # None
             THEN grantee' = [grantee EXCEPT ![t] = h] /\ Goto(t, "regrant")
             ELSE /\ Goto(t, IF Vacant(r, sockets[r] \ {c}) THEN "stop" ELSE "done")
                  /\ UNCHANGED grantee
    /\ UNCHANGED <<connVars, rooms, pending, doc, saveTimer, store, frame,
                   peers, snap, flushVars, sender, inbox, offered>>

\* The grant goes out after the locks are released; the room is not empty.
Regrant(t) ==
    /\ pc[t] = "regrant"
    /\ granted' = IF isOpen[grantee[t]] THEN granted \cup {grantee[t]} ELSE granted
    /\ grantee' = [grantee EXCEPT ![t] = None]
    /\ Goto(t, "done")
    /\ UNCHANGED <<connVars, roomVars, store, frame, peers, snap, flushVars,
                   sender, inbox, offered>>

FlushStop(t) ==
    /\ pc[t] = "stop"
    /\ pc' = [StopTimer(Inst(t), pc) EXCEPT ![t] = "encode"]
    /\ saveTimer' = [saveTimer EXCEPT ![Inst(t)] = None]
    /\ UNCHANGED <<connVars, memberVars, doc, seeder, store, localVars,
                   history>>

Encode(t) ==
    /\ pc[t] = "encode"
    /\ snap' = [snap EXCEPT ![t] = doc[Inst(t)]]
    /\ Goto(t, "save")
    /\ UNCHANGED <<connVars, roomVars, store, sendVars, flushVars, history>>

\* Store.Save, outside every lock; a failure is logged.
Save(t) ==
    LET n == name[Inst(t)] IN
    /\ pc[t] = "save"
    /\ \/ store' = [store EXCEPT ![n] = snap[t]]
       \/ StoreMayFail /\ UNCHANGED store
    /\ offered' = [offered EXCEPT ![n] = @ \cup snap[t]]
    /\ snap' = [snap EXCEPT ![t] = {}]
    /\ Goto(t, CASE t[1] = "timer" -> "done"
                 [] t[1] = "flush" -> "next"
                 [] OTHER          -> "forget")
    /\ UNCHANGED <<connVars, roomVars, sendVars, flushVars, sender, inbox,
                   granted>>

Forget(t) ==
    LET r == Inst(t) IN
    /\ pc[t] = "forget"
    /\ rooms' = IF Vacant(r, sockets[r]) /\ rooms[name[r]] = r
                THEN [rooms EXCEPT ![name[r]] = None] ELSE rooms
    /\ Goto(t, "done")
    /\ UNCHANGED <<connVars, sockets, pending, docVars, store, localVars,
                   history>>

\* The debounce elapses; the callback then waits for Core.mu.
TimerFires(e) ==
    /\ pc[Timer(e)] = "armed"
    /\ Goto(Timer(e), "clear")
    /\ UNCHANGED <<connVars, roomVars, store, localVars, history>>

TimerClears(e) ==
    /\ pc[Timer(e)] = "clear"
    /\ saveTimer' = [saveTimer EXCEPT ![Inst(Timer(e))] = None]
    /\ Goto(Timer(e), "encode")
    /\ UNCHANGED <<connVars, memberVars, doc, seeder, store, localVars,
                   history>>

FlushAllStart(t) ==
    /\ pc[t] = "idle"
    /\ todo' = [todo EXCEPT ![t] = {rooms[n] : n \in RegisteredRooms}]
    /\ Goto(t, "next")
    /\ UNCHANGED <<connVars, roomVars, store, sendVars, snap, work, history>>

FlushAllNext(t) ==
    /\ pc[t] = "next"
    /\ IF todo[t] = {}
       THEN work' = [work EXCEPT ![t] = None] /\ Goto(t, "done") /\ UNCHANGED todo
       ELSE \E r \in todo[t] : /\ todo' = [todo EXCEPT ![t] = @ \ {r}]
                               /\ work' = [work EXCEPT ![t] = r]
                               /\ Goto(t, "stop")
    /\ UNCHANGED <<connVars, roomVars, store, sendVars, snap, history>>

------------------------------------------------------------------------------

AdmitStep(c) ==
    \/ Authorize(c) \/ LoadRoomLookup(c) \/ LoadRoomLoad(c) \/ LoadRoomInstall(c)
    \/ AssignRoom(c) \/ Register(c) \/ CheckOpen(c) \/ DecideGrant(c)
    \/ Announce(c) \/ OpenPhase(c) \/ Replay(c)

ConnStep(t) ==
    \/ Apply(t) \/ ArmSave(t) \/ Snapshot(t) \/ SendPeer(t)
    \/ Remove(t) \/ Regrant(t) \/ Forget(t)

SaveStep(t) == FlushStop(t) \/ Encode(t) \/ Save(t)

Next ==
    \/ \E c \in Conn :
          \/ \E n \in Name : Connect(c, n)
          \/ SocketFails(c) \/ OnAuthFrame(c) \/ OnClose(c)
          \/ ReaperFires(c) \/ ReaperRejects(c) \/ AdmitStep(c)
          \/ \E f \in Frame : OnMessage(c, f)
    \/ \E t \in ConnThread : ConnStep(t)
    \/ \E t \in Thread : SaveStep(t)
    \/ \E e \in Edit : TimerFires(e) \/ TimerClears(e)
    \/ \E t \in FlushThread : FlushAllStart(t) \/ FlushAllNext(t)

Spec == Init /\ [][Next]_vars

\* Goroutines run, timers fire and calls to the store return; peers need not
\* connect, send or leave.  A dead socket may still deliver frames that were
\* read before it died, but not for ever: OnClose is strongly fair.
Fairness ==
    /\ \A c \in Conn : /\ WF_vars(AdmitStep(c)) /\ SF_vars(OnClose(c))
                       /\ WF_vars(ReaperFires(c)) /\ WF_vars(ReaperRejects(c))
    /\ \A t \in ConnThread : WF_vars(ConnStep(t))
    /\ \A t \in Thread : WF_vars(SaveStep(t))
    /\ \A e \in Edit : WF_vars(TimerFires(e) \/ TimerClears(e))
    /\ \A t \in FlushThread : WF_vars(FlushAllNext(t))

FairSpec == Spec /\ Fairness

==============================================================================
