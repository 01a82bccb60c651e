--------------------------- MODULE RelayCoreProofs ---------------------------
(***************************************************************************)
(* Proofs about RelayCore, for any number of connections, names, edits and *)
(* FlushAll callers: a room's pending counter is exact, a room with a      *)
(* member or a reserved slot is the registered one, the connections        *)
(* admitted under one name share one document, a closed connection stays   *)
(* closed, the registry keeps to its cap, every variable to its type, and  *)
(* it is right who is in a room and who holds its seed grant: a connection *)
(* that has been torn down is a member of no room, one member of an empty  *)
(* room at most is told to seed it, and with AUTH that grant is never left *)
(* with a connection that is gone.                                         *)
(***************************************************************************)
EXTENDS RelayProperties, TLAPS, FiniteSetTheorems

\* The part of TypeOK that the registry proof needs.
RegistryTypes ==
    /\ phase \in [Conn -> {"absent", "pending", "open", "closed"}]
    /\ name \in [Conn -> Name \cup {None}]
    /\ target \in [Conn -> Conn \cup {None}]
    /\ room \in [Conn -> Conn \cup {None}]
    /\ rooms \in [Name -> Conn \cup {None}]
    /\ sockets \in [Conn -> SUBSET Conn]
    /\ pending \in [Conn -> Nat]
    /\ pc \in [Thread -> PcValue]
    /\ reaper \in [Conn -> {"off", "set", "reject"}]

RInv == RegistryTypes /\ RegistryInv

UnplacedPc == {"idle", "authorize", "lookup", "load", "install"}
ReservedPc == {"assign", "register"}
PlacedPc   == {"check", "grant", "announce", "open", "replay",
               "apply", "arm", "peers", "send"}

\* What a step that leaves the registry alone may do to one connection.
PhaseMove(c) ==
    \/ phase'[c] = phase[c]
    \/ phase[c] # "absent" /\ phase'[c] = "closed"
    \/ pc[Admit(c)] \in PlacedPc /\ phase[c] = "pending" /\ phase'[c] = "open"

AdmitMove(c) ==
    \/ pc'[Admit(c)] = pc[Admit(c)]
    \/ /\ pc[Admit(c)] \in UnplacedPc
       /\ phase[c] # "absent"
       /\ pc'[Admit(c)] \in UnplacedPc \cup {"done"}
       /\ pc'[Admit(c)] = "done" => phase'[c] # "pending"
    \/ /\ pc[Admit(c)] \notin UnplacedPc \cup ReservedPc
       /\ pc'[Admit(c)] \notin UnplacedPc \cup ReservedPc
       /\ pc'[Admit(c)] \in PlacedPc => pc[Admit(c)] \in PlacedPc
       /\ pc'[Admit(c)] = "remove" => phase'[c] = "closed"
       /\ pc'[Admit(c)] \in {"check", "grant", "announce", "open"} \/ phase'[c] # "pending"

ReaperMove(c) == reaper'[c] = reaper[c] \/ phase[c] # "absent"

ReadMove(c) ==
    \/ pc'[Read(c)] = pc[Read(c)]
    \/ /\ phase[c] # "absent"
       /\ pc'[Read(c)] = "remove" => phase'[c] = "closed"

\* A step that leaves the registry, the rooms' members and slots alone.
Neutral ==
    /\ UNCHANGED <<name, target, room, rooms, sockets, pending>>
    /\ phase' \in [Conn -> {"absent", "pending", "open", "closed"}]
    /\ pc' \in [Thread -> PcValue]
    /\ reaper' \in [Conn -> {"off", "set", "reject"}]
    /\ \A c \in Conn : PhaseMove(c) /\ AdmitMove(c) /\ ReadMove(c) /\ ReaperMove(c)

\* The threads of connections are threads, and no two of them are the same.
LEMMA ThreadFacts ==
    /\ \A c \in Conn : Admit(c) \in Thread /\ Read(c) \in Thread
    /\ \A c, d \in Conn : /\ Admit(c) = Admit(d) => c = d
                          /\ Read(c) = Read(d) => c = d
                          /\ Admit(c) # Read(d)
    /\ \A t \in ConnThread : t \in Thread /\ t[2] \in Conn
                             /\ (t = Admit(t[2]) \/ t = Read(t[2]))
    /\ \A e \in Edit, c \in Conn : /\ Timer(e) \in Thread
                                   /\ Timer(e) # Admit(c) /\ Timer(e) # Read(c)
    /\ \A t \in FlushThread, c \in Conn : /\ t \in Thread
                                          /\ t # Admit(c) /\ t # Read(c)
BY DEF Thread, ConnThread, FlushThread, Admit, Read, Timer

\* The reserved slots of a room are finitely many.
LEMMA ReservedFinite ==
    ASSUME NEW r
    PROVE  /\ IsFiniteSet(Reserved(r))
           /\ Cardinality(Reserved(r)) \in Nat
<1>1. Reserved(r) \subseteq Conn
  BY DEF Reserved
<1>2. IsFiniteSet(Reserved(r))
  BY <1>1, ConnAssumption, FS_Subset
<1>. QED
  BY <1>2, FS_CardinalityType

\* A step that leaves the registry alone preserves the registry invariant.
LEMMA NeutralStep ==
    ASSUME RInv, Neutral
    PROVE  RInv'
<1>. USE DEF RInv, RegistryTypes, RegistryInv
<1>1. RegistryTypes'
  BY DEF Neutral
<1>2. PendingExact'
  <2>1. \A r \in Conn : Reserved(r)' = Reserved(r)
    BY DEF Neutral, AdmitMove, Reserved, ReservedPc, UnplacedPc
  <2>. QED
    BY <2>1 DEF PendingExact, Neutral
<1>3. NoGhostRoom'
  BY DEF NoGhostRoom, Neutral
<1>4. NoEarlyRoom'
  BY DEF NoEarlyRoom, Neutral, AdmitMove, Unplaced, UnplacedPc
<1>5. NamesAgree'
  BY DEF NamesAgree, Neutral
<1>6. AdmissionsAgree'
  <2>. SUFFICES ASSUME NEW c \in Conn
                PROVE  /\ phase'[c] = "absent" => /\ pc'[Admit(c)] = "idle" /\ pc'[Read(c)] = "idle"
                                                      /\ reaper'[c] = "off"
                       /\ phase'[c] = "pending" =>
                             \/ Unplaced(c)'
                             \/ pc'[Admit(c)] \in {"assign", "register", "check", "grant",
                                                  "announce", "open"}
                       /\ phase'[c] # "absent" => name'[c] # None
                       /\ pc'[Admit(c)] \in {"assign", "register"} => target'[c] # None
                       /\ pc'[Admit(c)] = "assign" => room'[c] = None
                       /\ pc'[Admit(c)] = "register" => room'[c] = target'[c]
                       /\ (Placed(c)' /\ phase'[c] # "closed") \/ phase'[c] = "open" =>
                             room'[c] # None /\ c \in sockets'[room'[c]]
                       /\ pc'[Admit(c)] = "remove" \/ pc'[Read(c)] = "remove" => phase'[c] = "closed"
                       /\ pc'[Admit(c)] \notin {"idle"} => phase'[c] # "absent"
    BY DEF AdmissionsAgree
  <2>. USE DEF AdmissionsAgree, Neutral, PhaseMove, AdmitMove, ReadMove, Placed, PlacedPc,
               UnplacedPc, ReservedPc, ReaperMove, Unplaced
  <2>1. phase'[c] = "absent" => /\ pc'[Admit(c)] = "idle" /\ pc'[Read(c)] = "idle"
                                /\ reaper'[c] = "off"
    OBVIOUS
  <2>7. phase'[c] = "pending" =>
           \/ Unplaced(c)'
           \/ pc'[Admit(c)] \in {"assign", "register", "check", "grant", "announce", "open"}
    OBVIOUS
  <2>2. phase'[c] # "absent" => name'[c] # None
    OBVIOUS
  <2>3. /\ pc'[Admit(c)] \in {"assign", "register"} => target'[c] # None
        /\ pc'[Admit(c)] = "assign" => room'[c] = None
        /\ pc'[Admit(c)] = "register" => room'[c] = target'[c]
    OBVIOUS
  <2>4. (Placed(c)' /\ phase'[c] # "closed") \/ phase'[c] = "open" =>
             room'[c] # None /\ c \in sockets'[room'[c]]
    OBVIOUS
  <2>5. pc'[Admit(c)] = "remove" \/ pc'[Read(c)] = "remove" => phase'[c] = "closed"
    OBVIOUS
  <2>6. pc'[Admit(c)] \notin {"idle"} => phase'[c] # "absent"
    OBVIOUS
  <2>. QED
    BY <2>1, <2>2, <2>3, <2>4, <2>5, <2>6, <2>7
<1>. QED
  BY <1>1, <1>2, <1>3, <1>4, <1>5, <1>6

\* What Goto does to the program counters.
LEMMA GotoFacts ==
    ASSUME RegistryTypes, NEW t \in Thread, NEW l \in PcValue, Goto(t, l)
    PROVE  /\ pc' \in [Thread -> PcValue]
           /\ pc'[t] = l
           /\ \A u \in Thread : u # t => pc'[u] = pc[u]
BY DEF RegistryTypes, Goto

\* A step that moves one thread of a connection, and perhaps its phase.
LEMMA OneThreadMoves ==
    ASSUME RInv, NEW c \in Conn, NEW k \in {"admit", "read"}, NEW l \in PcValue,
           Goto(<<k, c>>, l),
           UNCHANGED <<name, target, room, rooms, sockets, pending>>,
           phase' \in [Conn -> {"absent", "pending", "open", "closed"}],
           \A d \in Conn : d # c => phase'[d] = phase[d],
           PhaseMove(c), AdmitMove(c), ReadMove(c), ReaperMove(c),
           reaper' \in [Conn -> {"off", "set", "reject"}],
           \A d \in Conn : d # c => reaper'[d] = reaper[d]
    PROVE  RInv'
<1>1. <<k, c>> \in Thread
  BY DEF Thread
<1>2. /\ pc' \in [Thread -> PcValue]
      /\ \A u \in Thread : u # <<k, c>> => pc'[u] = pc[u]
  BY <1>1, GotoFacts DEF RInv
<1>3. \A d \in Conn : d # c => pc'[Admit(d)] = pc[Admit(d)] /\ pc'[Read(d)] = pc[Read(d)]
  BY <1>2, ThreadFacts DEF Admit, Read
<1>4. \A d \in Conn : PhaseMove(d) /\ AdmitMove(d) /\ ReadMove(d) /\ ReaperMove(d)
  BY <1>3 DEF PhaseMove, AdmitMove, ReadMove, ReaperMove
<1>. QED
  BY <1>2, <1>4, NeutralStep DEF Neutral

\* A rejection that moves no thread: its phase closes, its reaper may be spent.
LEMMA RefuseOnly ==
    ASSUME RInv, NEW c \in Conn, phase[c] # "absent", Refuse(c),
           UNCHANGED <<name, target, room, rooms, sockets, pending, pc>>,
           reaper' \in [Conn -> {"off", "set", "reject"}],
           \A d \in Conn : d # c => reaper'[d] = reaper[d]
    PROVE  RInv'
<1>1. phase' \in [Conn -> {"absent", "pending", "open", "closed"}]
  BY DEF Refuse, RInv, RegistryTypes
<1>2. \A d \in Conn : PhaseMove(d) /\ AdmitMove(d) /\ ReadMove(d) /\ ReaperMove(d)
  BY DEF PhaseMove, AdmitMove, ReadMove, ReaperMove, Refuse, RInv, RegistryTypes
<1>. QED
  BY <1>1, <1>2, NeutralStep DEF Neutral, RInv, RegistryTypes

\* The steps of handle, dropSocket and flush that change no membership.
BodyPc == {"apply", "arm", "peers", "send", "regrant", "stop", "encode", "save"}
NextPc == {"replay", "read", "arm", "peers", "send", "encode", "save", "forget", "done"}

\* A step of one thread that leaves the registry and the connections alone.
LEMMA BodyStep ==
    ASSUME RInv, NEW t \in Thread,
           UNCHANGED <<phase, name, target, room, rooms, sockets, pending, reaper>>,
           pc' \in [Thread -> PcValue],
           \A u \in ConnThread : u # t => pc'[u] = pc[u],
           t \in ConnThread => /\ pc[t] \in BodyPc /\ pc'[t] \in NextPc
                               /\ pc'[t] \in PlacedPc => pc[t] \in PlacedPc
    PROVE  RInv'
<1>. USE DEF RInv, RegistryTypes
<1>1. \A c \in Conn : PhaseMove(c) /\ ReaperMove(c)
  BY DEF PhaseMove, ReaperMove
<1>2. \A c \in Conn : Admit(c) \in ConnThread /\ Read(c) \in ConnThread
  BY DEF Admit, Read, ConnThread
<1>3. \A c \in Conn : AdmitMove(c)
  <2>. SUFFICES ASSUME NEW c \in Conn, Admit(c) = t PROVE AdmitMove(c)
    BY <1>2 DEF AdmitMove
  <2>1. pc[Admit(c)] \in BodyPc
    BY <1>2
  <2>2. phase[c] # "pending"
    BY <2>1 DEF RegistryInv, AdmissionsAgree, Unplaced, BodyPc
  <2>. QED
    BY <1>2, <2>1, <2>2 DEF AdmitMove, BodyPc, NextPc, UnplacedPc, ReservedPc
<1>4. \A c \in Conn : ReadMove(c)
  <2>. SUFFICES ASSUME NEW c \in Conn, Read(c) = t PROVE ReadMove(c)
    BY <1>2 DEF ReadMove
  <2>1. pc[Read(c)] \in BodyPc
    BY <1>2
  <2>2. phase[c] # "absent"
    BY <2>1 DEF RegistryInv, AdmissionsAgree, BodyPc
  <2>. QED
    BY <1>2, <2>2 DEF ReadMove, NextPc
<1>. QED
  BY <1>1, <1>3, <1>4, NeutralStep DEF Neutral

------------------------------------------------------------------------------
(* The steps that change the registry, memberships or slots                  *)

LEMMA ConnectStep ==
    ASSUME RInv, NEW c \in Conn, NEW n \in Name, Connect(c, n)
    PROVE  RInv'
<1>. USE DEF RInv, RegistryInv, RegistryTypes
<1>1. /\ phase[c] = "absent"
      /\ pc[Admit(c)] = "idle" /\ pc[Read(c)] = "idle"
  BY DEF Connect, AdmissionsAgree
<1>2. Unplaced(c) /\ target[c] = None /\ room[c] = None /\ sockets[c] = {}
  BY <1>1 DEF Unplaced, NoEarlyRoom
<1>3. /\ \A d \in Conn : target[d] # c
      /\ \A m \in Name : rooms[m] # c
  BY <1>2 DEF NoEarlyRoom
<1>4. /\ pc' \in [Thread -> PcValue]
      /\ pc'[Admit(c)] \in {"idle", "authorize"} /\ pc'[Read(c)] = "read"
      /\ \A d \in Conn : d # c => pc'[Admit(d)] = pc[Admit(d)] /\ pc'[Read(d)] = pc[Read(d)]
  BY ThreadFacts DEF Connect, PcValue
<1>5. /\ phase' = [phase EXCEPT ![c] = "pending"]
      /\ name' = [name EXCEPT ![c] = n]
      /\ reaper' = [reaper EXCEPT ![c] = HandshakeReaper]
      /\ UNCHANGED <<target, room, rooms, sockets, pending>>
  BY DEF Connect, roomVars, memberVars
<1>6. RegistryTypes'
  BY <1>4, <1>5 DEF HandshakeReaper
<1>7. PendingExact'
  <2>1. \A r \in Conn : Reserved(r)' = Reserved(r)
    BY <1>1, <1>4, <1>5 DEF Reserved
  <2>. QED
    BY <2>1, <1>5 DEF PendingExact
<1>8. NoGhostRoom'
  <2>1. pending[c] = 0
    <3>1. Reserved(c) = {}
      BY <1>3 DEF Reserved
    <3>. QED
      BY <3>1, FS_EmptySet DEF PendingExact
  <2>. QED
    BY <1>2, <1>5, <2>1 DEF NoGhostRoom
<1>9. NoEarlyRoom'
  BY <1>1, <1>2, <1>4, <1>5 DEF NoEarlyRoom, Unplaced
<1>10. NamesAgree'
  BY <1>2, <1>3, <1>5 DEF NamesAgree
<1>11. AdmissionsAgree'
  BY <1>1, <1>2, <1>4, <1>5, NameAssumption DEF AdmissionsAgree, Placed, Unplaced
<1>. QED
  BY <1>6, <1>7, <1>8, <1>9, <1>10, <1>11

\* Adding or removing one admission's slot moves the count by one.
LEMMA SlotCount ==
    ASSUME NEW r, NEW c \in Conn
    PROVE  /\ c \notin Reserved(r) =>
                 Cardinality(Reserved(r) \cup {c}) = Cardinality(Reserved(r)) + 1
           /\ c \in Reserved(r) =>
                 Cardinality(Reserved(r) \ {c}) = Cardinality(Reserved(r)) - 1
BY ReservedFinite, FS_AddElement, FS_RemoveElement

\* loadRoom finds the room registered.
LEMMA JoinStep ==
    ASSUME RInv, NEW c \in Conn, pc[Admit(c)] \in {"lookup", "install"},
           rooms[name[c]] # None, JoinRegistered(c),
           UNCHANGED <<name, room, sockets, reaper>>
    PROVE  RInv'
<1>. DEFINE r == rooms[name[c]]
<1>. USE DEF RInv, RegistryInv, RegistryTypes
<1>1. phase[c] # "absent" /\ name[c] \in Name /\ r \in Conn
  BY DEF AdmissionsAgree
<1>2. Unplaced(c) /\ target[c] = None /\ room[c] = None
  BY DEF Unplaced, NoEarlyRoom
<1>3. r # c /\ name[r] = name[c] /\ ~Unplaced(r)
  BY <1>1, <1>2 DEF NoEarlyRoom, NamesAgree
<1>4. /\ target' = [target EXCEPT ![c] = r]
      /\ pending' = [pending EXCEPT ![r] = pending[r] + 1]
      /\ UNCHANGED <<phase, rooms>>
  BY DEF JoinRegistered, SlotReserved, socketVars
<1>5. /\ pc' \in [Thread -> PcValue]
      /\ pc'[Admit(c)] = "assign" /\ pc'[Read(c)] = pc[Read(c)]
      /\ \A d \in Conn : d # c => pc'[Admit(d)] = pc[Admit(d)] /\ pc'[Read(d)] = pc[Read(d)]
  BY ThreadFacts, GotoFacts DEF JoinRegistered, PcValue
<1>6. RegistryTypes'
  BY <1>1, <1>4, <1>5
<1>7. PendingExact'
  <2>1. c \notin Reserved(r) /\ Reserved(r)' = Reserved(r) \cup {c}
    BY <1>1, <1>2, <1>4, <1>5 DEF Reserved, Unplaced
  <2>2. \A q \in Conn : q # r => Reserved(q)' = Reserved(q)
    BY <1>1, <1>2, <1>4, <1>5 DEF Reserved, Unplaced
  <2>3. Cardinality(Reserved(r)') = pending[r] + 1
    BY <1>1, <2>1, SlotCount DEF PendingExact
  <2>4. \A q \in Conn : q # r => pending'[q] = Cardinality(Reserved(q)')
    BY <2>2, <1>4 DEF PendingExact
  <2>. QED
    BY <1>1, <1>4, <2>3, <2>4 DEF PendingExact
<1>8. NoGhostRoom'
  BY <1>1, <1>3, <1>4 DEF NoGhostRoom
<1>9. NoEarlyRoom'
  BY <1>3, <1>4, <1>5 DEF NoEarlyRoom, Unplaced
<1>10. NamesAgree'
  BY <1>1, <1>2, <1>3, <1>4 DEF NamesAgree
<1>11. AdmissionsAgree'
  BY <1>1, <1>2, <1>4, <1>5, ConnAssumption DEF AdmissionsAgree, Placed, Unplaced
<1>. QED
  BY <1>6, <1>7, <1>8, <1>9, <1>10, <1>11

\* loadRoom registers the room it has loaded.
LEMMA InstallStep ==
    ASSUME RInv, NEW c \in Conn, pc[Admit(c)] = "install", rooms[name[c]] = None,
           rooms' = [rooms EXCEPT ![name[c]] = c],
           pending' = [pending EXCEPT ![c] = 1],
           target' = [target EXCEPT ![c] = c],
           Goto(Admit(c), "assign"),
           UNCHANGED <<phase, name, room, sockets, reaper>>
    PROVE  RInv'
<1>. USE DEF RInv, RegistryInv, RegistryTypes
<1>1. phase[c] # "absent" /\ name[c] \in Name
  BY DEF AdmissionsAgree
<1>2. /\ Unplaced(c) /\ target[c] = None /\ room[c] = None /\ sockets[c] = {}
      /\ \A d \in Conn : target[d] # c
      /\ \A n \in Name : rooms[n] # c
  BY DEF Unplaced, NoEarlyRoom
<1>3. /\ pc' \in [Thread -> PcValue]
      /\ pc'[Admit(c)] = "assign" /\ pc'[Read(c)] = pc[Read(c)]
      /\ \A d \in Conn : d # c => pc'[Admit(d)] = pc[Admit(d)] /\ pc'[Read(d)] = pc[Read(d)]
  BY ThreadFacts, GotoFacts DEF PcValue
<1>4. RegistryTypes'
  BY <1>1, <1>3
<1>5. PendingExact'
  <2>1. Reserved(c)' = {c}
    BY <1>2, <1>3 DEF Reserved
  <2>2. \A q \in Conn : q # c => Reserved(q)' = Reserved(q)
    BY <1>2, <1>3 DEF Reserved
  <2>3. Cardinality({c}) = 1
    BY FS_Singleton
  <2>. QED
    BY <2>1, <2>2, <2>3 DEF PendingExact
<1>6. NoGhostRoom'
  <2>1. \A r \in Conn : r # c /\ name[r] = name[c] => sockets[r] = {} /\ ~(pending[r] > 0)
    BY <1>1, ConnAssumption DEF NoGhostRoom
  <2>. QED
    BY <1>1, <1>2, <2>1 DEF NoGhostRoom
<1>7. NoEarlyRoom'
  BY <1>2, <1>3 DEF NoEarlyRoom, Unplaced
<1>8. NamesAgree'
  BY <1>1, <1>2 DEF NamesAgree
<1>9. AdmissionsAgree'
  BY <1>1, <1>2, <1>3, ConnAssumption DEF AdmissionsAgree, Placed, Unplaced
<1>. QED
  BY <1>4, <1>5, <1>6, <1>7, <1>8, <1>9

LEMMA AssignStep ==
    ASSUME RInv, NEW c \in Conn, AssignRoom(c)
    PROVE  RInv'
<1>. USE DEF RInv, RegistryInv, RegistryTypes
<1>1. /\ pc[Admit(c)] = "assign"
      /\ room' = [room EXCEPT ![c] = target[c]]
      /\ UNCHANGED <<phase, name, target, rooms, sockets, pending, reaper>>
  BY DEF AssignRoom, socketVars, roomVars, memberVars, inputVars
<1>2. /\ pc' \in [Thread -> PcValue]
      /\ pc'[Admit(c)] = "register" /\ pc'[Read(c)] = pc[Read(c)]
      /\ \A d \in Conn : d # c => pc'[Admit(d)] = pc[Admit(d)] /\ pc'[Read(d)] = pc[Read(d)]
  BY ThreadFacts, GotoFacts DEF AssignRoom, PcValue
<1>3. RegistryTypes'
  BY <1>1, <1>2
<1>4. PendingExact'
  <2>1. \A r \in Conn : Reserved(r)' = Reserved(r)
    BY <1>1, <1>2 DEF Reserved
  <2>. QED
    BY <2>1, <1>1 DEF PendingExact
<1>5. NoGhostRoom'
  BY <1>1 DEF NoGhostRoom
<1>6. NoEarlyRoom'
  BY <1>1, <1>2 DEF NoEarlyRoom, Unplaced
<1>7. NamesAgree'
  BY <1>1 DEF NamesAgree
<1>8. AdmissionsAgree'
  <2>1. phase[c] # "open"
    BY <1>1 DEF AdmissionsAgree
  <2>. QED
    BY <1>1, <1>2, <2>1 DEF AdmissionsAgree, Placed, Unplaced
<1>. QED
  BY <1>3, <1>4, <1>5, <1>6, <1>7, <1>8

LEMMA RegisterStep ==
    ASSUME RInv, NEW c \in Conn, Register(c)
    PROVE  RInv'
<1>. DEFINE r == target[c]
<1>. USE DEF RInv, RegistryInv, RegistryTypes
<1>1. /\ pc[Admit(c)] = "register"
      /\ pending' = [pending EXCEPT ![r] = pending[r] - 1]
      /\ sockets' = [sockets EXCEPT ![r] = @ \cup {c}]
      /\ UNCHANGED <<phase, name, target, room, rooms, reaper>>
  BY DEF Register, SlotReleased, connVars, socketVars, placeVars, inputVars
<1>2. r \in Conn /\ room[c] = r
  BY <1>1 DEF AdmissionsAgree
<1>3. /\ pc' \in [Thread -> PcValue]
      /\ pc'[Admit(c)] = "check" /\ pc'[Read(c)] = pc[Read(c)]
      /\ \A d \in Conn : d # c => pc'[Admit(d)] = pc[Admit(d)] /\ pc'[Read(d)] = pc[Read(d)]
  BY ThreadFacts, GotoFacts DEF Register, PcValue
<1>4. c \in Reserved(r)
  BY <1>1 DEF Reserved
<1>5. /\ pending[r] = Cardinality(Reserved(r))
      /\ pending[r] > 0
  <2>1. pending[r] = Cardinality(Reserved(r))
    BY <1>2 DEF PendingExact
  <2>2. Cardinality(Reserved(r)) # 0
    BY <1>4, ReservedFinite, FS_EmptySet
  <2>. QED
    BY <1>2, <2>1, <2>2
<1>6. RegistryTypes'
  BY <1>1, <1>2, <1>3, <1>5
<1>7. PendingExact'
  <2>1. Reserved(r)' = Reserved(r) \ {c}
    BY <1>1, <1>3 DEF Reserved
  <2>2. \A q \in Conn : q # r => Reserved(q)' = Reserved(q)
    BY <1>1, <1>3 DEF Reserved
  <2>3. Cardinality(Reserved(r)') = pending[r] - 1
    BY <1>4, <1>5, <2>1, SlotCount
  <2>4. \A q \in Conn : q # r => pending'[q] = Cardinality(Reserved(q)')
    BY <2>2, <1>1 DEF PendingExact
  <2>. QED
    BY <1>1, <1>2, <2>3, <2>4 DEF PendingExact
<1>8. NoGhostRoom'
  BY <1>1, <1>2, <1>5 DEF NoGhostRoom
<1>9. NoEarlyRoom'
  BY <1>1, <1>2, <1>3 DEF NoEarlyRoom, Unplaced
<1>10. NamesAgree'
  BY <1>1 DEF NamesAgree
<1>11. AdmissionsAgree'
  BY <1>1, <1>2, <1>3, ConnAssumption DEF AdmissionsAgree, Placed, Unplaced
<1>. QED
  BY <1>6, <1>7, <1>8, <1>9, <1>10, <1>11

LEMMA RemoveStep ==
    ASSUME RInv, NEW t \in ConnThread, Remove(t)
    PROVE  RInv'
<1>. DEFINE c == t[2]
            r == room[t[2]]
<1>. USE DEF RInv, RegistryInv, RegistryTypes
<1>1. c \in Conn /\ t \in Thread /\ (t = Admit(c) \/ t = Read(c))
  BY ThreadFacts
<1>2. Inst(t) = r
  BY DEF Inst, ConnThread
<1>3. /\ pc[t] = "remove"
      /\ sockets' = [sockets EXCEPT ![r] = @ \ {c}]
      /\ UNCHANGED <<phase, name, target, room, rooms, pending, reaper>>
  BY <1>2 DEF Remove, connVars, socketVars, placeVars, inputVars
<1>4. phase[c] = "closed"
  BY <1>1, <1>3 DEF AdmissionsAgree
<1>5. PICK l \in {"regrant", "stop", "done"} : Goto(t, l)
  BY DEF Remove
<1>6. /\ pc' \in [Thread -> PcValue]
      /\ pc'[t] = l
      /\ \A u \in Thread : u # t => pc'[u] = pc[u]
  BY <1>1, <1>5, GotoFacts DEF PcValue
<1>7. /\ \A d \in Conn : pc'[Admit(d)] = pc[Admit(d)]
                           \/ (d = c /\ pc[Admit(d)] = "remove" /\ pc'[Admit(d)] = l)
      /\ \A d \in Conn : pc'[Read(d)] = pc[Read(d)]
                           \/ (d = c /\ pc[Read(d)] = "remove" /\ pc'[Read(d)] = l)
  <2>1. \A d \in Conn : Admit(d) = t \/ pc'[Admit(d)] = pc[Admit(d)]
    BY <1>6, ThreadFacts
  <2>2. \A d \in Conn : Read(d) = t \/ pc'[Read(d)] = pc[Read(d)]
    BY <1>6, ThreadFacts
  <2>3. \A d \in Conn : Admit(d) = t \/ Read(d) = t => d = c
    BY <1>1, ThreadFacts
  <2>. QED
    BY <1>3, <1>6, <2>1, <2>2, <2>3
<1>8. RegistryTypes'
  BY <1>3, <1>6
<1>9. PendingExact'
  <2>1. \A q \in Conn : Reserved(q)' = Reserved(q)
    BY <1>3, <1>7 DEF Reserved
  <2>. QED
    BY <2>1, <1>3 DEF PendingExact
<1>10. NoGhostRoom'
  BY <1>3 DEF NoGhostRoom
<1>11. NoEarlyRoom'
  BY <1>3, <1>7 DEF NoEarlyRoom, Unplaced
<1>12. NamesAgree'
  BY <1>3 DEF NamesAgree
<1>13. AdmissionsAgree'
  <2>1. \A d \in Conn : Placed(d)' => Placed(d)
    BY <1>7 DEF Placed
  <2>2. \A d \in Conn : phase[d] # "closed" => d # c
    BY <1>4
  <2>3. \A d, q \in Conn : d # c /\ d \in sockets[q] => d \in sockets'[q]
    BY <1>3
  <2>4. \A d \in Conn : (Placed(d)' /\ phase'[d] # "closed") \/ phase'[d] = "open" =>
                             room'[d] # None /\ d \in sockets'[room'[d]]
    BY <1>3, <2>1, <2>2, <2>3 DEF AdmissionsAgree
  <2>5. \A d \in Conn : phase[d] # "closed" =>
           pc'[Admit(d)] = pc[Admit(d)] /\ pc'[Read(d)] = pc[Read(d)]
    BY <1>7, <2>2
  <2>6. \A d \in Conn : Unplaced(d) => Unplaced(d)'
    BY <1>7 DEF Unplaced
  <2>. QED
    BY <1>3, <1>4, <1>7, <2>4, <2>5, <2>6 DEF AdmissionsAgree
<1>. QED
  BY <1>8, <1>9, <1>10, <1>11, <1>12, <1>13

LEMMA ForgetStep ==
    ASSUME RInv, NEW t \in ConnThread, Forget(t)
    PROVE  RInv'
<1>. DEFINE r == Inst(t)
<1>. USE DEF RInv, RegistryInv, RegistryTypes
<1>1. /\ UNCHANGED <<phase, name, target, room, sockets, pending, reaper>>
      /\ \/ rooms' = rooms
         \/ /\ sockets[r] = {} /\ pending[r] = 0 /\ rooms[name[r]] = r
            /\ rooms' = [rooms EXCEPT ![name[r]] = None]
  BY DEF Forget, Vacant, connVars, socketVars, placeVars, inputVars
<1>2. pc[t] = "forget" /\ t \in Thread
  BY ThreadFacts DEF Forget
<1>3. /\ pc' \in [Thread -> PcValue]
      /\ pc'[t] = "done"
      /\ \A u \in Thread : u # t => pc'[u] = pc[u]
  BY <1>2, GotoFacts DEF Forget, PcValue
<1>4. /\ \A d \in Conn : pc'[Admit(d)] = pc[Admit(d)]
                           \/ (pc[Admit(d)] = "forget" /\ pc'[Admit(d)] = "done")
      /\ \A d \in Conn : pc'[Read(d)] = pc[Read(d)]
                           \/ (pc[Read(d)] = "forget" /\ pc'[Read(d)] = "done")
  <2>1. \A d \in Conn : Admit(d) = t \/ pc'[Admit(d)] = pc[Admit(d)]
    BY <1>3, ThreadFacts
  <2>2. \A d \in Conn : Read(d) = t \/ pc'[Read(d)] = pc[Read(d)]
    BY <1>3, ThreadFacts
  <2>. QED
    BY <1>2, <1>3, <2>1, <2>2
<1>5. RegistryTypes'
  BY <1>1, <1>3
<1>6. PendingExact'
  <2>1. \A q \in Conn : Reserved(q)' = Reserved(q)
    BY <1>1, <1>4 DEF Reserved
  <2>. QED
    BY <2>1, <1>1 DEF PendingExact
<1>7. NoGhostRoom'
  <2>1. CASE rooms' = rooms
    BY <1>1, <2>1 DEF NoGhostRoom
  <2>2. CASE /\ sockets[r] = {} /\ pending[r] = 0 /\ rooms[name[r]] = r
             /\ rooms' = [rooms EXCEPT ![name[r]] = None]
    <3>1. SUFFICES ASSUME NEW q \in Conn, sockets[q] # {} \/ pending[q] > 0
                   PROVE  rooms'[name[q]] = q
      BY <1>1 DEF NoGhostRoom
    <3>2. q # r
      BY <2>2, <3>1
    <3>3. rooms[name[q]] = q
      BY <3>1 DEF NoGhostRoom
    <3>4. name[q] # name[r]
      BY <2>2, <3>2, <3>3
    <3>. QED
      BY <2>2, <3>3, <3>4
  <2>. QED
    BY <1>1, <2>1, <2>2
<1>8. NoEarlyRoom'
  BY <1>1, <1>4, ConnAssumption DEF NoEarlyRoom, Unplaced
<1>9. NamesAgree'
  BY <1>1 DEF NamesAgree
<1>10. AdmissionsAgree'
  BY <1>1, <1>4 DEF AdmissionsAgree, Placed, Unplaced
<1>. QED
  BY <1>5, <1>6, <1>7, <1>8, <1>9, <1>10

------------------------------------------------------------------------------
(* The steps of the listeners and of the reaper                              *)

\* handle, up to its first lock, run by the read loop or by the replay.
LEMMA DispatchStep ==
    ASSUME RInv, NEW c \in Conn, NEW k \in {"admit", "read"}, NEW f,
           Dispatch(<<k, c>>, f),
           phase[c] \notin {"absent", "pending"},
           k = "admit" => pc[Admit(c)] = "replay",
           UNCHANGED <<name, target, room, rooms, sockets, pending, reaper>>
    PROVE  RInv'
<1>. DEFINE t == <<k, c>>
<1>. USE DEF RInv, RegistryTypes
<1>1. PICK l \in {"replay", "read", "peers", "apply"} :
         Goto(t, l) /\ (k = "read" => l # "replay") /\ (k = "admit" => l # "read")
  BY DEF Dispatch, Home
<1>2. /\ phase' \in [Conn -> {"absent", "pending", "open", "closed"}]
      /\ \A d \in Conn : d # c => phase'[d] = phase[d]
      /\ phase'[c] \in {phase[c], "closed"}
  BY DEF Dispatch, Refuse, socketVars
<1>3. t \in Thread /\ l \in PcValue
  BY DEF Thread, PcValue
<1>4. /\ pc'[t] = l
      /\ \A u \in Thread : u # t => pc'[u] = pc[u]
  BY <1>1, <1>3, GotoFacts
<1>5. PhaseMove(c) /\ ReaperMove(c)
  BY <1>2 DEF PhaseMove, ReaperMove
<1>6. AdmitMove(c)
  BY <1>1, <1>2, <1>4, ThreadFacts
     DEF AdmitMove, Admit, Read, UnplacedPc, ReservedPc, PlacedPc
<1>7. ReadMove(c)
  BY <1>1, <1>2, <1>4, ThreadFacts DEF ReadMove, Admit, Read
<1>. QED
  BY <1>1, <1>2, <1>3, <1>5, <1>6, <1>7, OneThreadMoves

LEMMA OnMessageStep ==
    ASSUME RInv, NEW c \in Conn, NEW f \in Frame, OnMessage(c, f)
    PROVE  RInv'
<1>. USE DEF RInv, RegistryTypes
<1>1. UNCHANGED <<name, target, room, rooms, sockets, pending, reaper>>
  BY DEF OnMessage, placeVars, roomVars, memberVars
<1>2. CASE phase[c] = "open" /\ Dispatch(Read(c), f)
  BY <1>1, <1>2, DispatchStep DEF Read
<1>3. CASE phase[c] = "pending" /\ Refuse(c) /\ UNCHANGED pc
  BY <1>1, <1>3, RefuseOnly
<1>4. CASE UNCHANGED <<socketVars, pc>>
  <2>1. Neutral
    BY <1>1, <1>4 DEF Neutral, PhaseMove, AdmitMove, ReadMove, ReaperMove, socketVars
  <2>. QED
    BY <2>1, NeutralStep
<1>. QED
  BY <1>2, <1>3, <1>4 DEF OnMessage

LEMMA ListenerStep ==
    ASSUME RInv, NEW c \in Conn,
           SocketFails(c) \/ OnAuthFrame(c) \/ OnClose(c) \/ ReaperFires(c) \/ ReaperRejects(c)
    PROVE  RInv'
<1>. USE DEF RInv, RegistryTypes, roomVars, memberVars, placeVars, inputVars, connVars
<1>1. CASE SocketFails(c)
  <2>1. Neutral
    BY <1>1 DEF SocketFails, Neutral, PhaseMove, AdmitMove, ReadMove, ReaperMove
  <2>. QED
    BY <2>1, NeutralStep
<1>2. CASE OnAuthFrame(c)
  <2>1. /\ Goto(<<"admit", c>>, "authorize") /\ "authorize" \in PcValue
        /\ UNCHANGED <<phase, name, target, room, rooms, sockets, pending, reaper>>
        /\ phase[c] = "pending" /\ pc[Admit(c)] \in {"idle", "done"}
    BY <1>2 DEF OnAuthFrame, Reading, Admit, socketVars, PcValue
  <2>2. pc[Admit(c)] = "idle"
    BY <2>1 DEF RegistryInv, AdmissionsAgree, Unplaced
  <2>3. /\ pc'[Admit(c)] = "authorize" /\ pc'[Read(c)] = pc[Read(c)]
    BY <2>1, GotoFacts, ThreadFacts DEF Admit
  <2>4. PhaseMove(c) /\ AdmitMove(c) /\ ReadMove(c) /\ ReaperMove(c)
    BY <2>1, <2>2, <2>3 DEF PhaseMove, AdmitMove, ReadMove, ReaperMove, UnplacedPc
  <2>. QED
    BY <2>1, <2>4, OneThreadMoves
<1>3. CASE OnClose(c)
  <2>1. PICK l \in {"done", "remove"} : Goto(<<"read", c>>, l)
    BY <1>3 DEF OnClose, Read
  <2>2. /\ UNCHANGED <<name, target, room, rooms, sockets, pending>>
        /\ phase' = [phase EXCEPT ![c] = "closed"]
        /\ reaper' \in [Conn -> {"off", "set", "reject"}]
        /\ \A d \in Conn : d # c => reaper'[d] = reaper[d]
        /\ pc[Read(c)] = "read"
    BY <1>3 DEF OnClose, Reading
  <2>3. phase[c] # "absent"
    BY <2>2 DEF RegistryInv, AdmissionsAgree
  <2>4. pc'[Read(c)] = l /\ pc'[Admit(c)] = pc[Admit(c)]
    BY <2>1, GotoFacts, ThreadFacts DEF Read, PcValue
  <2>5. PhaseMove(c) /\ AdmitMove(c) /\ ReadMove(c) /\ ReaperMove(c)
    BY <2>2, <2>3, <2>4 DEF PhaseMove, AdmitMove, ReadMove, ReaperMove
  <2>6. l \in PcValue
    BY DEF PcValue
  <2>. QED
    BY <2>1, <2>2, <2>5, <2>6, OneThreadMoves
<1>4. CASE ReaperFires(c)
  <2>1. phase[c] # "absent"
    BY <1>4 DEF ReaperFires, RegistryInv, AdmissionsAgree
  <2>2. Neutral
    BY <1>4, <2>1 DEF ReaperFires, Neutral, PhaseMove, AdmitMove, ReadMove, ReaperMove, socketVars
  <2>. QED
    BY <2>2, NeutralStep
<1>5. CASE ReaperRejects(c)
  <2>1. phase[c] # "absent"
    BY <1>5 DEF ReaperRejects, RegistryInv, AdmissionsAgree
  <2>. QED
    BY <1>5, <2>1, RefuseOnly DEF ReaperRejects
<1>. QED
  BY <1>1, <1>2, <1>3, <1>4, <1>5

------------------------------------------------------------------------------
(* The steps of admit and of the save path, and the theorems                 *)

\* A step of admit that leaves memberships and slots alone.
LEMMA AdmitMoves ==
    ASSUME RInv, NEW c \in Conn, NEW l \in PcValue, Goto(Admit(c), l),
           UNCHANGED <<name, target, room, rooms, sockets, pending, reaper>>,
           phase' \in [Conn -> {"absent", "pending", "open", "closed"}],
           \A d \in Conn : d # c => phase'[d] = phase[d],
           PhaseMove(c),
           pc'[Admit(c)] = l => AdmitMove(c)
    PROVE  RInv'
<1>1. pc'[Admit(c)] = l /\ pc'[Read(c)] = pc[Read(c)]
  BY GotoFacts, ThreadFacts DEF RInv
<1>2. ReadMove(c) /\ ReaperMove(c)
  BY <1>1 DEF ReadMove, ReaperMove
<1>. QED
  BY <1>1, <1>2, OneThreadMoves DEF Admit, RInv, RegistryTypes

LEMMA AuthorizeStep ==
    ASSUME RInv, NEW c \in Conn, Authorize(c)
    PROVE  RInv'
<1>. USE DEF RInv, RegistryTypes
<1>1. /\ pc[Admit(c)] = "authorize" /\ phase[c] # "absent"
      /\ UNCHANGED <<name, target, room, rooms, sockets, pending, reaper>>
  BY ThreadFacts DEF Authorize, RegistryInv, AdmissionsAgree, roomVars, memberVars, inputVars
<1>2. PICK l \in {"done", "lookup"} :
         /\ Goto(Admit(c), l)
         /\ Refuse(c) \/ (phase' = phase /\ (l = "done" => phase[c] = "closed"))
  BY DEF Authorize, socketVars
<1>3. /\ phase' \in [Conn -> {"absent", "pending", "open", "closed"}]
      /\ \A d \in Conn : d # c => phase'[d] = phase[d]
      /\ PhaseMove(c)
      /\ l = "done" => phase'[c] = "closed"
  BY <1>1, <1>2 DEF Refuse, PhaseMove
<1>4. pc'[Admit(c)] = l => AdmitMove(c)
  BY <1>1, <1>3 DEF AdmitMove, UnplacedPc
<1>5. l \in PcValue
  BY DEF PcValue
<1>. QED
  BY <1>1, <1>2, <1>3, <1>4, <1>5, AdmitMoves

\* loadRoom's steps that find no room: the load, its failure, the full server.
LEMMA UnplacedStep ==
    ASSUME RInv, NEW c \in Conn, pc[Admit(c)] \in {"lookup", "load", "install"},
           UNCHANGED <<name, target, room, rooms, sockets, pending, reaper>>,
           NEW l \in {"load", "install", "done"}, Goto(Admit(c), l),
           IF l = "done" THEN Refuse(c) ELSE UNCHANGED socketVars
    PROVE  RInv'
<1>. USE DEF RInv, RegistryTypes
<1>1. phase[c] # "absent"
  BY DEF RegistryInv, AdmissionsAgree
<1>2. /\ phase' \in [Conn -> {"absent", "pending", "open", "closed"}]
      /\ \A d \in Conn : d # c => phase'[d] = phase[d]
      /\ PhaseMove(c)
      /\ l = "done" => phase'[c] = "closed"
  BY <1>1 DEF Refuse, PhaseMove, socketVars
<1>3. pc'[Admit(c)] = l => AdmitMove(c)
  BY <1>1, <1>2 DEF AdmitMove, UnplacedPc
<1>4. l \in PcValue
  BY DEF PcValue
<1>. QED
  BY <1>2, <1>3, <1>4, AdmitMoves

LEMMA LoadRoomStep ==
    ASSUME RInv, NEW c \in Conn,
           LoadRoomLookup(c) \/ LoadRoomLoad(c) \/ LoadRoomInstall(c)
    PROVE  RInv'
<1>. USE DEF inputVars, roomVars, memberVars, placeVars
<1>1. CASE LoadRoomLookup(c)
  <2>1. UNCHANGED <<name, room, sockets, reaper>> /\ pc[Admit(c)] = "lookup"
    BY <1>1 DEF LoadRoomLookup
  <2>2. CASE rooms[name[c]] # None /\ JoinRegistered(c)
    BY <2>1, <2>2, JoinStep
  <2>3. CASE ServerFull(c)
    BY <2>1, <2>3, UnplacedStep DEF ServerFull
  <2>4. CASE Goto(Admit(c), "load") /\ UNCHANGED <<socketVars, target, rooms, pending>>
    BY <2>1, <2>4, UnplacedStep
  <2>. QED
    BY <1>1, <2>2, <2>3, <2>4 DEF LoadRoomLookup
<1>2. CASE LoadRoomLoad(c)
  <2>1. /\ UNCHANGED <<name, target, room, rooms, sockets, pending, reaper>>
        /\ pc[Admit(c)] = "load"
    BY <1>2 DEF LoadRoomLoad
  <2>2. CASE Goto(Admit(c), "install") /\ UNCHANGED socketVars
    BY <2>1, <2>2, UnplacedStep
  <2>3. CASE Refuse(c) /\ Goto(Admit(c), "done")
    BY <2>1, <2>3, UnplacedStep
  <2>. QED
    BY <1>2, <2>2, <2>3 DEF LoadRoomLoad
<1>3. CASE LoadRoomInstall(c)
  <2>1. UNCHANGED <<name, room, sockets, reaper>> /\ pc[Admit(c)] = "install"
    BY <1>3 DEF LoadRoomInstall
  <2>2. CASE rooms[name[c]] # None /\ JoinRegistered(c)
    BY <2>1, <2>2, JoinStep
  <2>3. CASE ServerFull(c)
    BY <2>1, <2>3, UnplacedStep DEF ServerFull
  <2>4. CASE /\ rooms[name[c]] = None
             /\ rooms' = [rooms EXCEPT ![name[c]] = c]
             /\ pending' = [pending EXCEPT ![c] = 1]
             /\ target' = [target EXCEPT ![c] = c]
             /\ Goto(Admit(c), "assign") /\ UNCHANGED socketVars
    BY <2>1, <2>4, InstallStep DEF socketVars
  <2>. QED
    BY <1>3, <2>2, <2>3, <2>4 DEF LoadRoomInstall
<1>. QED
  BY <1>1, <1>2, <1>3

\* admit from its IsOpen check to the replay.
LEMMA AdmittedStep ==
    ASSUME RInv, NEW c \in Conn,
           CheckOpen(c) \/ DecideGrant(c) \/ Announce(c) \/ OpenPhase(c) \/ Replay(c)
    PROVE  RInv'
<1>. USE DEF RInv, RegistryTypes, connVars, socketVars, placeVars, inputVars, roomVars,
             memberVars, PhaseMove
<1>1. CASE CheckOpen(c)
  <2>1. /\ pc[Admit(c)] = "check" /\ phase[c] # "absent"
        /\ UNCHANGED <<name, target, room, rooms, sockets, pending, reaper>>
    BY <1>1 DEF CheckOpen, RegistryInv, AdmissionsAgree
  <2>2. PICK l \in {"grant", "remove"} :
           /\ Goto(Admit(c), l)
           /\ phase' = [phase EXCEPT ![c] = IF l = "grant" THEN @ ELSE "closed"]
    BY <1>1 DEF CheckOpen, AfterCheck
  <2>3. pc'[Admit(c)] = l => AdmitMove(c)
    BY <2>1, <2>2 DEF AdmitMove, UnplacedPc, ReservedPc, PlacedPc
  <2>4. l \in PcValue
    BY DEF PcValue
  <2>. QED
    BY <2>1, <2>2, <2>3, <2>4, AdmitMoves
<1>2. CASE DecideGrant(c)
  <2>1. pc'[Admit(c)] = "announce" => AdmitMove(c)
    BY <1>2 DEF DecideGrant, AdmitMove, UnplacedPc, ReservedPc, PlacedPc
  <2>2. "announce" \in PcValue
    BY DEF PcValue
  <2>. QED
    BY <1>2, <2>1, <2>2, AdmitMoves DEF DecideGrant
<1>3. CASE Announce(c)
  <2>1. pc'[Admit(c)] = "open" => AdmitMove(c)
    BY <1>3 DEF Announce, AdmitMove, UnplacedPc, ReservedPc, PlacedPc
  <2>2. "open" \in PcValue
    BY DEF PcValue
  <2>. QED
    BY <1>3, <2>1, <2>2, AdmitMoves DEF Announce
<1>4. CASE OpenPhase(c)
  <2>1. /\ pc[Admit(c)] = "open"
        /\ UNCHANGED <<name, target, room, rooms, sockets, pending, reaper>>
    BY <1>4 DEF OpenPhase
  <2>2. CASE phase[c] = "pending" /\ phase' = [phase EXCEPT ![c] = "open"]
               /\ Goto(Admit(c), "replay")
    <3>1. PhaseMove(c)
      BY <2>1, <2>2 DEF PlacedPc
    <3>2. pc'[Admit(c)] = "replay" => AdmitMove(c)
      BY <2>1, <2>2 DEF AdmitMove, UnplacedPc, ReservedPc, PlacedPc
    <3>3. "replay" \in PcValue
      BY DEF PcValue
    <3>. QED
      BY <2>1, <2>2, <3>1, <3>2, <3>3, AdmitMoves
  <2>3. CASE phase[c] # "pending" /\ Goto(Admit(c), "done") /\ UNCHANGED phase
    <3>1. pc'[Admit(c)] = "done" => AdmitMove(c)
      BY <2>1, <2>3 DEF AdmitMove, UnplacedPc, ReservedPc, PlacedPc
    <3>2. "done" \in PcValue
      BY DEF PcValue
    <3>. QED
      BY <2>1, <2>3, <3>1, <3>2, AdmitMoves
  <2>. QED
    BY <1>4, <2>2, <2>3 DEF OpenPhase, StillPending
<1>5. CASE Replay(c)
  <2>1. /\ pc[Admit(c)] = "replay" /\ phase[c] \notin {"absent", "pending"}
        /\ UNCHANGED <<name, target, room, rooms, sockets, pending, reaper>>
    BY <1>5 DEF Replay, RegistryInv, AdmissionsAgree, Unplaced
  <2>2. CASE Goto(Admit(c), "done") /\ UNCHANGED socketVars
    <3>1. pc'[Admit(c)] = "done" => AdmitMove(c)
      BY <2>1, <2>2 DEF AdmitMove, UnplacedPc, ReservedPc, PlacedPc
    <3>2. "done" \in PcValue
      BY DEF PcValue
    <3>. QED
      BY <2>1, <2>2, <3>1, <3>2, AdmitMoves
  <2>3. CASE Dispatch(Admit(c), Head(buffer[c]))
    BY <2>1, <2>3, DispatchStep DEF Admit
  <2>. QED
    BY <1>5, <2>2, <2>3 DEF Replay
<1>. QED
  BY <1>1, <1>2, <1>3, <1>4, <1>5

LEMMA AdmitStepPreserves ==
    ASSUME RInv, NEW c \in Conn, AdmitStep(c)
    PROVE  RInv'
BY AuthorizeStep, LoadRoomStep, AssignStep, RegisterStep, AdmittedStep DEF AdmitStep

\* Stopping a timer moves no connection's thread.
LEMMA StopTimerFacts ==
    ASSUME RegistryTypes, NEW i
    PROVE  /\ StopTimer(i, pc) \in [Thread -> PcValue]
           /\ \A u \in ConnThread : u \in Thread /\ StopTimer(i, pc)[u] = pc[u]
BY ThreadFacts DEF StopTimer, RegistryTypes, PcValue, ConnThread, Timer

\* handle from its first lock on the room, and the grant dropSocket sends.
LEMMA HandleStep ==
    ASSUME RInv, NEW t \in ConnThread,
           Apply(t) \/ ArmSave(t) \/ Snapshot(t) \/ SendPeer(t) \/ Regrant(t)
    PROVE  RInv'
<1>. USE DEF RInv, connVars, socketVars, placeVars, inputVars, roomVars, memberVars
<1>1. UNCHANGED <<phase, name, target, room, rooms, sockets, pending, reaper>>
  BY DEF Apply, ArmSave, Snapshot, SendPeer, Regrant
<1>2. t \in Thread
  BY ThreadFacts
<1>3. CASE Apply(t) \/ Snapshot(t) \/ SendPeer(t) \/ Regrant(t)
  <2>1. PICK l \in NextPc \ {"encode", "save", "forget"} :
           /\ Goto(t, l) \/ (UNCHANGED pc /\ pc[t] = "send" /\ l = "send")
           /\ pc[t] \in BodyPc
           /\ l \in PlacedPc => pc[t] \in PlacedPc
    BY <1>3 DEF Apply, Snapshot, SendPeer, Regrant, Home, NextPc, BodyPc, PlacedPc
  <2>2. l \in PcValue
    BY DEF NextPc, PcValue
  <2>3. /\ pc' \in [Thread -> PcValue] /\ pc'[t] = l
        /\ \A u \in Thread : u # t => pc'[u] = pc[u]
    BY <1>2, <2>1, <2>2, GotoFacts DEF RegistryTypes
  <2>4. \A u \in ConnThread : u # t => pc'[u] = pc[u]
    BY <2>3, ThreadFacts
  <2>. QED
    BY <1>1, <1>2, <2>1, <2>3, <2>4, BodyStep
<1>4. CASE ArmSave(t)
  <2>1. /\ pc[t] = "arm"
        /\ pc' = [StopTimer(Inst(t), pc) EXCEPT ![t] = "peers", ![Timer(frame[t])] = "armed"]
    BY <1>4 DEF ArmSave, Armed
  <2>2. \A u \in ConnThread : u # Timer(frame[t])
    BY DEF ConnThread, Timer
  <2>3. /\ pc' \in [Thread -> PcValue] /\ pc'[t] = "peers"
        /\ \A u \in ConnThread : u # t => pc'[u] = pc[u]
    BY <1>2, <2>1, <2>2, StopTimerFacts DEF PcValue
  <2>. QED
    BY <1>1, <1>2, <2>1, <2>3, BodyStep DEF BodyPc, NextPc, PlacedPc
<1>. QED
  BY <1>3, <1>4

\* flush and safeSave, on whichever thread.
LEMMA SaveStepPreserves ==
    ASSUME RInv, NEW t \in Thread, SaveStep(t)
    PROVE  RInv'
<1>. USE DEF RInv, connVars, socketVars, placeVars, inputVars, roomVars, memberVars
<1>1. UNCHANGED <<phase, name, target, room, rooms, sockets, pending, reaper>>
  BY DEF SaveStep, FlushStop, Encode, Save
<1>2. CASE FlushStop(t)
  <2>1. /\ pc[t] = "stop"
        /\ pc' = [StopTimer(Inst(t), pc) EXCEPT ![t] = "encode"]
    BY <1>2 DEF FlushStop
  <2>2. /\ pc' \in [Thread -> PcValue] /\ pc'[t] = "encode"
        /\ \A u \in ConnThread : u # t => pc'[u] = pc[u]
    BY <2>1, StopTimerFacts DEF PcValue
  <2>. QED
    BY <1>1, <2>1, <2>2, BodyStep DEF BodyPc, NextPc, PlacedPc
<1>3. CASE Encode(t) \/ Save(t)
  <2>1. PICK l \in {"save", "done", "next", "forget"} :
           /\ Goto(t, l) /\ pc[t] \in BodyPc
           /\ t \in ConnThread => l # "next"
    BY <1>3 DEF Encode, Save, BodyPc, ConnThread
  <2>2. l \in PcValue
    BY DEF PcValue
  <2>3. /\ pc' \in [Thread -> PcValue] /\ pc'[t] = l
        /\ \A u \in ConnThread : u # t => pc'[u] = pc[u]
    BY <2>1, <2>2, GotoFacts, ThreadFacts
  <2>. QED
    BY <1>1, <2>1, <2>3, BodyStep DEF NextPc, PlacedPc
<1>. QED
  BY <1>2, <1>3 DEF SaveStep

\* A step of a timer's callback or of FlushAll's loop.
LEMMA BackgroundStep ==
    ASSUME RInv, NEW t \in Thread, t \notin ConnThread, NEW l \in PcValue, Goto(t, l),
           UNCHANGED <<phase, name, target, room, rooms, sockets, pending, reaper>>
    PROVE  RInv'
<1>1. /\ pc' \in [Thread -> PcValue]
      /\ \A u \in ConnThread : u # t => pc'[u] = pc[u]
  BY GotoFacts, ThreadFacts DEF RInv
<1>. QED
  BY <1>1, BodyStep

LEMMA TimerStep ==
    ASSUME RInv, NEW e \in Edit, TimerFires(e) \/ TimerClears(e)
    PROVE  RInv'
<1>1. Timer(e) \in Thread /\ Timer(e) \notin ConnThread
  BY DEF Timer, Thread, ConnThread
<1>2. PICK l \in {"clear", "encode"} : Goto(Timer(e), l)
  BY DEF TimerFires, TimerClears
<1>3. l \in PcValue
  BY DEF PcValue
<1>4. UNCHANGED <<phase, name, target, room, rooms, sockets, pending, reaper>>
  BY DEF TimerFires, TimerClears, connVars, socketVars, placeVars, inputVars, roomVars, memberVars
<1>. QED
  BY <1>1, <1>2, <1>3, <1>4, BackgroundStep

LEMMA FlushAllStep ==
    ASSUME RInv, NEW t \in FlushThread, FlushAllStart(t) \/ FlushAllNext(t)
    PROVE  RInv'
<1>1. t \in Thread /\ t \notin ConnThread
  BY DEF FlushThread, Thread, ConnThread
<1>2. PICK l \in {"next", "done", "stop"} : Goto(t, l)
  BY DEF FlushAllStart, FlushAllNext
<1>3. l \in PcValue
  BY DEF PcValue
<1>4. UNCHANGED <<phase, name, target, room, rooms, sockets, pending, reaper>>
  BY DEF FlushAllStart, FlushAllNext, connVars, socketVars, placeVars, inputVars, roomVars, memberVars
<1>. QED
  BY <1>1, <1>2, <1>3, <1>4, BackgroundStep

LEMMA StutterStep ==
    ASSUME RInv, UNCHANGED vars
    PROVE  RInv'
<1>1. Neutral
  BY DEF vars, connVars, socketVars, placeVars, inputVars, roomVars, memberVars, Neutral,
         RInv, RegistryTypes, PhaseMove, AdmitMove, ReadMove, ReaperMove
<1>. QED
  BY <1>1, NeutralStep

LEMMA RInvInit == Init => RInv
<1>. SUFFICES ASSUME Init PROVE RInv
  OBVIOUS
<1>1. \A c \in Conn : pc[Admit(c)] = "idle" /\ pc[Read(c)] = "idle" /\ Unplaced(c)
  BY ThreadFacts DEF Init, Unplaced
<1>2. RegistryTypes
  BY DEF Init, RegistryTypes, PcValue
<1>3. PendingExact
  <2>1. \A r \in Conn : Reserved(r) = {}
    BY <1>1 DEF Reserved
  <2>. QED
    BY <2>1, FS_EmptySet DEF PendingExact, Init
<1>4. NoGhostRoom
  BY DEF Init, NoGhostRoom
<1>5. NoEarlyRoom
  BY ConnAssumption DEF Init, NoEarlyRoom
<1>6. NamesAgree
  BY DEF Init, NamesAgree
<1>7. AdmissionsAgree
  BY <1>1 DEF Init, AdmissionsAgree, Placed, Unplaced
<1>. QED
  BY <1>2, <1>3, <1>4, <1>5, <1>6, <1>7 DEF RInv, RegistryInv

LEMMA RInvStep == RInv /\ [Next]_vars => RInv'
<1>. SUFFICES ASSUME RInv, [Next]_vars PROVE RInv'
  OBVIOUS
<1>1. CASE \E c \in Conn : \E n \in Name : Connect(c, n)
  BY <1>1, ConnectStep
<1>2. CASE \E c \in Conn : \/ SocketFails(c) \/ OnAuthFrame(c) \/ OnClose(c)
                          \/ ReaperFires(c) \/ ReaperRejects(c)
  BY <1>2, ListenerStep
<1>3. CASE \E c \in Conn : AdmitStep(c)
  BY <1>3, AdmitStepPreserves
<1>4. CASE \E c \in Conn : \E f \in Frame : OnMessage(c, f)
  BY <1>4, OnMessageStep
<1>5. CASE \E t \in ConnThread : ConnStep(t)
  BY <1>5, HandleStep, RemoveStep, ForgetStep DEF ConnStep
<1>6. CASE \E t \in Thread : SaveStep(t)
  BY <1>6, SaveStepPreserves
<1>7. CASE \E e \in Edit : TimerFires(e) \/ TimerClears(e)
  BY <1>7, TimerStep
<1>8. CASE \E t \in FlushThread : FlushAllStart(t) \/ FlushAllNext(t)
  BY <1>8, FlushAllStep
<1>9. CASE UNCHANGED vars
  BY <1>9, StutterStep
<1>. QED
  BY <1>1, <1>2, <1>3, <1>4, <1>5, <1>6, <1>7, <1>8, <1>9 DEF Next

\* The registry, the reserved slots and the memberships agree in every state:
\* loadRoom's two registry checks, the pending counter and dropSocket's re-check
\* after the flush suffice for any number of connections.
THEOREM RegistryInvariant == Spec => []RegistryInv
<1>1. RInv => RegistryInv
  BY DEF RInv
<1>. QED
  BY <1>1, RInvInit, RInvStep, PTL DEF Spec

\* A room with a member or a reserved slot is never forgotten or displaced.
THEOREM NoGhostRoomHolds == Spec => []NoGhostRoom
<1>1. RegistryInv => NoGhostRoom
  BY DEF RegistryInv
<1>. QED
  BY <1>1, RegistryInvariant, PTL

\* Connections admitted under one name share one document, whatever the churn.
THEOREM NoForkHolds == Spec => []NoFork
<1>1. RInv => NoFork
  <2>. SUFFICES ASSUME RInv, NEW c \in Conn, NEW d \in Conn,
                       phase[c] = "open", phase[d] = "open", name[c] = name[d]
                PROVE  room[c] = room[d]
    BY DEF NoFork
  <2>. USE DEF RInv, RegistryTypes, RegistryInv
  <2>1. \A x \in {c, d} : room[x] \in Conn /\ sockets[room[x]] # {} /\ room[x] = target[x]
    BY DEF AdmissionsAgree, NamesAgree
  <2>2. \A x \in {c, d} : rooms[name[room[x]]] = room[x] /\ name[room[x]] = name[x]
    BY <2>1, ConnAssumption DEF NoGhostRoom, NamesAgree
  <2>. QED
    BY <2>2
<1>. QED
  BY <1>1, RInvInit, RInvStep, PTL DEF Spec

LEMMA ClosedStep ==
    ASSUME RInv, [Next]_vars, NEW c \in Conn, phase[c] = "closed"
    PROVE  phase'[c] = "closed"
<1>. USE DEF connVars, socketVars, RInv, RegistryTypes
<1>1. CASE UNCHANGED phase
  BY <1>1
<1>2. CASE \E d \in Conn, n \in Name : Connect(d, n)
  BY <1>2 DEF Connect
<1>3. CASE \E d \in Conn : OnClose(d) \/ ReaperRejects(d) \/ CheckOpen(d)
  BY <1>3 DEF OnClose, ReaperRejects, CheckOpen, Refuse
<1>4. CASE \E d \in Conn : Authorize(d) \/ LoadRoomLookup(d) \/ LoadRoomLoad(d) \/ LoadRoomInstall(d)
  BY <1>4 DEF Authorize, LoadRoomLookup, LoadRoomLoad, LoadRoomInstall, JoinRegistered,
              ServerFull, Refuse
<1>5. CASE \E d \in Conn : OpenPhase(d)
  BY <1>5 DEF OpenPhase, StillPending
<1>6. CASE \E d \in Conn : Replay(d) \/ \E f \in Frame : OnMessage(d, f)
  BY <1>6 DEF Replay, OnMessage, Dispatch, Refuse
<1>7. CASE \E t \in Thread : ConnStep(t) \/ SaveStep(t)
  BY <1>7, <1>1 DEF ConnStep, SaveStep, Apply, ArmSave, Snapshot, SendPeer, Remove, Regrant, Forget,
              FlushStop, Encode, Save
<1>8. CASE \E d \in Conn : \/ SocketFails(d) \/ OnAuthFrame(d) \/ ReaperFires(d)
                          \/ AssignRoom(d) \/ Register(d) \/ DecideGrant(d) \/ Announce(d)
  BY <1>8, <1>1 DEF SocketFails, OnAuthFrame, ReaperFires, AssignRoom, Register, DecideGrant, Announce
<1>9. CASE \E e \in Edit : TimerFires(e) \/ TimerClears(e)
  BY <1>9, <1>1 DEF TimerFires, TimerClears
<1>10. CASE \E t \in FlushThread : FlushAllStart(t) \/ FlushAllNext(t)
  BY <1>10, <1>1 DEF FlushAllStart, FlushAllNext
<1>11. CASE UNCHANGED vars
  BY <1>11, <1>1 DEF vars
<1>12. \A t \in ConnThread : t \in Thread
  BY ThreadFacts
<1>. QED
  BY <1>2, <1>3, <1>4, <1>5, <1>6, <1>7, <1>8, <1>9, <1>10, <1>11, <1>12 DEF Next, AdmitStep

\* No admission in progress, and nothing else, opens a connection once it has been
\* closed by a rejection, its reaper or the end of its socket.
THEOREM ClosedIsFinalHolds == Spec => ClosedIsFinal
<1>1. RInv /\ [Next]_vars => [\A c \in Conn : phase[c] = "closed" => phase'[c] = "closed"]_vars
  BY ClosedStep
<1>. QED
  BY <1>1, RInvInit, RInvStep, PTL DEF Spec, ClosedIsFinal

\* Only loadRoom adds a name to the registry, one at a time and below the cap.
LEMMA RegisteredMoves ==
    ASSUME RInv, [Next]_vars
    PROVE  \/ RegisteredRooms' \subseteq RegisteredRooms
           \/ \E n \in Name : RegisteredRooms' = RegisteredRooms \cup {n} /\ RoomLeft
<1>. USE DEF connVars, roomVars, memberVars, docVars, RInv, RegistryTypes
<1>1. CASE UNCHANGED rooms
  BY <1>1 DEF RegisteredRooms
<1>2. CASE \E c \in Conn : LoadRoomInstall(c)
  <2>1. PICK c \in Conn : LoadRoomInstall(c)
    BY <1>2
  <2>2. CASE UNCHANGED rooms
    BY <1>1, <2>2
  <2>3. CASE rooms' = [rooms EXCEPT ![name[c]] = c] /\ RoomLeft
    <3>1. name[c] \in Name
      BY <2>1 DEF LoadRoomInstall, RegistryInv, AdmissionsAgree
    <3>2. RegisteredRooms' = RegisteredRooms \cup {name[c]}
      BY <2>3, <3>1, ConnAssumption DEF RegisteredRooms
    <3>. QED
      BY <2>3, <3>1, <3>2
  <2>. QED
    BY <2>1, <2>2, <2>3 DEF LoadRoomInstall, JoinRegistered, ServerFull
<1>3. CASE \E t \in ConnThread : Forget(t)
  <2>1. PICK n : rooms' = rooms \/ rooms' = [rooms EXCEPT ![n] = None]
    BY <1>3 DEF Forget
  <2>. QED
    BY <2>1 DEF RegisteredRooms
<1>4. CASE \E c \in Conn : \/ \E n \in Name : Connect(c, n)
                          \/ SocketFails(c) \/ OnAuthFrame(c) \/ OnClose(c)
                          \/ ReaperFires(c) \/ ReaperRejects(c)
                          \/ \E f \in Frame : OnMessage(c, f)
  BY <1>4, <1>1 DEF Connect, SocketFails, OnAuthFrame, OnClose, ReaperFires, ReaperRejects, OnMessage
<1>5. CASE \E c \in Conn : AdmitStep(c) /\ ~LoadRoomInstall(c)
  BY <1>5, <1>1 DEF AdmitStep, Authorize, LoadRoomLookup, LoadRoomLoad, JoinRegistered, ServerFull,
              AssignRoom, Register, CheckOpen, DecideGrant, Announce, OpenPhase, Replay
<1>6. CASE \E t \in ConnThread : ConnStep(t) /\ ~Forget(t)
  BY <1>6, <1>1 DEF ConnStep, Apply, ArmSave, Snapshot, SendPeer, Remove, Regrant
<1>7. CASE \E t \in Thread : SaveStep(t)
  BY <1>7, <1>1 DEF SaveStep, FlushStop, Encode, Save
<1>8. CASE \/ \E e \in Edit : TimerFires(e) \/ TimerClears(e)
           \/ \E t \in FlushThread : FlushAllStart(t) \/ FlushAllNext(t)
  BY <1>8, <1>1 DEF TimerFires, TimerClears, FlushAllStart, FlushAllNext
<1>9. CASE UNCHANGED vars
  BY <1>9, <1>1 DEF vars
<1>. QED
  BY <1>2, <1>3, <1>4, <1>5, <1>6, <1>7, <1>8, <1>9 DEF Next

\* The registry never outgrows maxRooms, however many loads were begun while
\* there was room for one: each is checked again when it installs its room.
THEOREM RoomCapHolds == Spec => []RoomCap
<1>1. Init => RoomCap
  <2>1. Init => RegisteredRooms = {}
    BY DEF Init, RegisteredRooms
  <2>. QED
    BY <2>1, FS_EmptySet, BoundAssumption DEF RoomCap
<1>2. RInv /\ RoomCap /\ [Next]_vars => RoomCap'
  <2>. SUFFICES ASSUME RInv, RoomCap, [Next]_vars PROVE RoomCap'
    OBVIOUS
  <2>1. IsFiniteSet(RegisteredRooms) /\ Cardinality(RegisteredRooms) \in Nat
    BY NameAssumption, FS_Subset, FS_CardinalityType DEF RegisteredRooms
  <2>2. CASE RegisteredRooms' \subseteq RegisteredRooms
    <3>1. /\ Cardinality(RegisteredRooms') <= Cardinality(RegisteredRooms)
          /\ Cardinality(RegisteredRooms') \in Nat
      BY <2>1, <2>2, FS_Subset, FS_CardinalityType
    <3>. QED
      BY <2>1, <3>1, BoundAssumption DEF RoomCap
  <2>3. CASE \E n \in Name : RegisteredRooms' = RegisteredRooms \cup {n} /\ RoomLeft
    <3>1. PICK n \in Name : RegisteredRooms' = RegisteredRooms \cup {n} /\ RoomLeft
      BY <2>3
    <3>2. \/ Cardinality(RegisteredRooms') = Cardinality(RegisteredRooms)
          \/ Cardinality(RegisteredRooms') = Cardinality(RegisteredRooms) + 1
      BY <2>1, <3>1, FS_AddElement
    <3>. QED
      BY <2>1, <3>1, <3>2, BoundAssumption DEF RoomCap, RoomLeft
  <2>. QED
    BY <2>2, <2>3, RegisteredMoves
<1>. QED
  BY <1>1, <1>2, RInvInit, RInvStep, PTL DEF Spec

------------------------------------------------------------------------------
(* The type invariant: what a thread carries from one critical section to    *)
(* the next is what the later one expects.                                   *)

TInv == RInv /\ TypeOK /\ LocalsAgree

\* The room a thread works on exists.
LEMMA InstFacts ==
    ASSUME TInv
    PROVE  /\ \A t \in ConnThread : pc[t] \in InRoom => Inst(t) = room[t[2]] /\ Inst(t) \in Conn
           /\ \A e \in Edit : pc[Timer(e)] \notin {"idle", "done"} => Inst(Timer(e)) \in Conn
           /\ \A t \in FlushThread : pc[t] \in {"stop", "encode", "save"} => Inst(t) \in Conn
<1>. USE DEF TInv, TypeOK, LocalsAgree
<1>1. ASSUME NEW t \in ConnThread, pc[t] \in InRoom
      PROVE  Inst(t) = room[t[2]] /\ Inst(t) \in Conn
  BY <1>1 DEF Inst, ConnThread
<1>2. ASSUME NEW e \in Edit, pc[Timer(e)] \notin {"idle", "done"}
      PROVE  Inst(Timer(e)) \in Conn
  BY <1>2 DEF Inst, Timer
<1>3. ASSUME NEW t \in FlushThread, pc[t] \in {"stop", "encode", "save"}
      PROVE  Inst(t) \in Conn
  BY <1>3 DEF Inst, FlushThread
<1>. QED
  BY <1>1, <1>2, <1>3

\* A step that leaves alone all that LocalsAgree is about but program counters.
LEMMA LocalsKept ==
    ASSUME TInv, TypeOK', UNCHANGED <<room, frame, sender, buffer, work>>,
           \A t \in ConnThread :
              /\ pc'[t] \in InRoom => pc[t] \in InRoom \/ room[t[2]] # None
              /\ pc'[t] = "arm" => pc[t] = "arm" \/ frame[t] \in Edit
              /\ pc'[t] = "regrant" =>
                    grantee'[t] # None \/ (pc[t] = "regrant" /\ grantee'[t] = grantee[t]),
           \A e \in Edit : pc'[Timer(e)] \notin {"idle", "done"} =>
              pc[Timer(e)] \notin {"idle", "done"}
                \/ (sender[e] # None /\ room[sender[e]] # None),
           \A t \in FlushThread : pc'[t] \in {"stop", "encode", "save"} =>
              pc[t] \in {"stop", "encode", "save"}
    PROVE  LocalsAgree'
BY DEF TInv, LocalsAgree

\* A step of one thread moves no other.
LEMMA Moves ==
    ASSUME TInv, NEW t \in Thread, NEW l \in PcValue, Goto(t, l)
    PROVE  /\ pc' \in [Thread -> PcValue] /\ pc'[t] = l
           /\ \A u \in ConnThread : u # t => pc'[u] = pc[u]
           /\ \A u \in FlushThread : u # t => pc'[u] = pc[u]
           /\ \A e \in Edit : Timer(e) # t => pc'[Timer(e)] = pc[Timer(e)]
<1>1. \A u \in Thread : u # t => pc'[u] = pc[u]
  BY GotoFacts DEF TInv, RInv
<1>. QED
  BY <1>1, GotoFacts DEF TInv, RInv, ConnThread, FlushThread, Thread, Timer

\* The threads that are none of a connection's two.
LEMMA Distinct ==
    /\ \A t \in ConnThread, e \in Edit : t # Timer(e)
    /\ \A t \in FlushThread, e \in Edit : t # Timer(e)
    /\ \A t \in ConnThread : t \notin FlushThread
    /\ \A c \in Conn : Admit(c) \in ConnThread /\ Read(c) \in ConnThread /\ Admit(c) # Read(c)
                       /\ Admit(c)[2] = c /\ Read(c)[2] = c
    /\ \A e, f \in Edit : Timer(e) = Timer(f) => e = f
    /\ \A t \in Thread : t \in ConnThread \/ t \in FlushThread \/ \E e \in Edit : t = Timer(e)
BY DEF ConnThread, FlushThread, Timer, Admit, Read, Thread

------------------------------------------------------------------------------
(* The steps of a connection that change no frame, buffer or sender          *)

\* A step that moves one thread of a connection, to a place it may be in.
LEMMA ConnMoves ==
    ASSUME TInv, TypeOK', NEW t \in ConnThread, NEW l \in PcValue, Goto(t, l),
           UNCHANGED <<room, frame, sender, buffer, work>>,
           l \in InRoom => room[t[2]] # None,
           l = "arm" => frame[t] \in Edit,
           l = "regrant" => grantee'[t] # None,
           \A u \in ConnThread : u # t => grantee'[u] = grantee[u]
    PROVE  LocalsAgree'
<1>1. t \in Thread
  BY ThreadFacts
<1>2. /\ pc'[t] = l
      /\ \A u \in ConnThread : u # t => pc'[u] = pc[u]
      /\ \A u \in FlushThread : pc'[u] = pc[u]
      /\ \A e \in Edit : pc'[Timer(e)] = pc[Timer(e)]
  BY <1>1, Moves, Distinct
<1>. QED
  BY <1>2, LocalsKept

LEMMA ListenerTypes ==
    ASSUME TInv, RInv', NEW c \in Conn,
           \/ \E n \in Name : Connect(c, n)
           \/ SocketFails(c) \/ OnAuthFrame(c) \/ OnClose(c)
           \/ ReaperFires(c) \/ ReaperRejects(c)
    PROVE  TypeOK' /\ LocalsAgree'
<1>. USE DEF connVars, socketVars, placeVars, inputVars, roomVars, memberVars, docVars,
             localVars, sendVars, flushVars, history
<1>a. RegistryTypes'
  BY DEF RInv
<1>b. Admit(c) \in ConnThread /\ Read(c) \in ConnThread /\ Read(c)[2] = c
  BY Distinct
<1>1. CASE \E n \in Name : Connect(c, n)
  <2>0. PICK n \in Name : Connect(c, n)
    BY <1>1
  <2>1. TypeOK'
    BY <1>a, <2>0 DEF TInv, TypeOK, Connect, RegistryTypes
  <2>2. /\ \A t \in ConnThread : pc'[t] = pc[t] \/ pc'[t] \in {"read", "idle", "authorize"}
        /\ \A e \in Edit : pc'[Timer(e)] = pc[Timer(e)]
        /\ \A t \in FlushThread : pc'[t] = pc[t]
    BY <1>1, <1>b, ThreadFacts DEF Connect, TInv, TypeOK
  <2>3. UNCHANGED <<room, frame, sender, buffer, work, grantee>>
    BY <1>1 DEF Connect
  <2>. QED
    BY <2>1, <2>2, <2>3, LocalsKept DEF InRoom
<1>2. CASE SocketFails(c)
  <2>1. TypeOK'
    BY <1>2 DEF TInv, TypeOK, SocketFails
  <2>. QED
    BY <1>2, <2>1, LocalsKept DEF SocketFails
<1>3. CASE OnAuthFrame(c)
  <2>1. TypeOK'
    BY <1>a, <1>3 DEF TInv, TypeOK, OnAuthFrame, RegistryTypes
  <2>2. "authorize" \in PcValue /\ "authorize" \notin InRoom
    BY DEF PcValue, InRoom
  <2>. QED
    BY <1>3, <1>b, <2>1, <2>2, ConnMoves DEF OnAuthFrame
<1>4. CASE OnClose(c)
  <2>1. TypeOK'
    BY <1>a, <1>4 DEF TInv, TypeOK, OnClose, RegistryTypes
  <2>2. PICK l \in {"done", "remove"} : Goto(Read(c), l) /\ (l = "remove" => room[c] # None)
    BY <1>4 DEF OnClose
  <2>3. l \in PcValue /\ (l \in InRoom => l = "remove")
    BY DEF PcValue, InRoom
  <2>. QED
    BY <1>4, <1>b, <2>1, <2>2, <2>3, ConnMoves DEF OnClose
<1>5. CASE ReaperFires(c)
  <2>1. TypeOK'
    BY <1>5 DEF TInv, TypeOK, ReaperFires
  <2>. QED
    BY <1>5, <2>1, LocalsKept DEF ReaperFires
<1>6. CASE ReaperRejects(c)
  <2>1. TypeOK'
    BY <1>6 DEF TInv, TypeOK, ReaperRejects, Refuse
  <2>. QED
    BY <1>6, <2>1, LocalsKept DEF ReaperRejects
<1>. QED
  BY <1>1, <1>2, <1>3, <1>4, <1>5, <1>6

LEMMA AuthorizeTypes ==
    ASSUME TInv, RInv', NEW c \in Conn, Authorize(c)
    PROVE  TypeOK' /\ LocalsAgree'
<1>. USE DEF connVars, socketVars, placeVars, inputVars, roomVars, memberVars, docVars,
             localVars, sendVars, flushVars, history
<1>1. RegistryTypes'
  BY DEF RInv
<1>2. role' \in [Conn -> Role \cup {None}]
  BY DEF Authorize, TInv, TypeOK
<1>3. isOpen' \in [Conn -> BOOLEAN]
  BY DEF Authorize, TInv, TypeOK, Refuse
<1>4. TypeOK'
  BY <1>1, <1>2, <1>3 DEF TInv, TypeOK, Authorize, RegistryTypes
<1>5. PICK l \in {"done", "lookup"} : Goto(Admit(c), l)
  BY DEF Authorize
<1>6. l \in PcValue /\ l \notin InRoom
  BY DEF PcValue, InRoom
<1>. QED
  BY <1>4, <1>5, <1>6, ConnMoves, Distinct DEF Authorize

\* loadRoom, up to the registration in the room it returns.
LEMMA LoadTypes ==
    ASSUME TInv, RInv', NEW c \in Conn,
           \/ LoadRoomLookup(c) \/ LoadRoomLoad(c) \/ LoadRoomInstall(c)
           \/ AssignRoom(c) \/ Register(c)
    PROVE  TypeOK' /\ LocalsAgree'
<1>. USE DEF connVars, socketVars, placeVars, inputVars, roomVars, memberVars, docVars,
             localVars, sendVars, flushVars, history
<1>a. RegistryTypes'
  BY DEF RInv
<1>b. Admit(c) \in ConnThread /\ Admit(c) \in Thread /\ Admit(c)[2] = c
  BY Distinct, ThreadFacts
<1>c. /\ {"load", "install", "assign", "register", "check", "done"} \subseteq PcValue
      /\ {"load", "install", "assign", "register", "done"} \cap InRoom = {}
  BY DEF PcValue, InRoom
<1>1. CASE LoadRoomLookup(c)
  <2>1. isOpen' \in [Conn -> BOOLEAN] /\ doc' = doc
    BY <1>1 DEF LoadRoomLookup, TInv, TypeOK, Refuse, JoinRegistered, ServerFull
  <2>2. TypeOK'
    BY <1>a, <1>1, <2>1 DEF TInv, TypeOK, LoadRoomLookup, RegistryTypes
  <2>3. PICK l \in {"load", "assign", "done"} : Goto(Admit(c), l)
    BY <1>1 DEF LoadRoomLookup, JoinRegistered, ServerFull
  <2>. QED
    BY <1>1, <1>b, <1>c, <2>2, <2>3, ConnMoves DEF LoadRoomLookup
<1>2. CASE LoadRoomLoad(c)
  <2>0. name[c] \in Name
    BY <1>2, <1>b DEF LoadRoomLoad, TInv, RInv, RegistryInv, AdmissionsAgree, TypeOK
  <2>a. isOpen' \in [Conn -> BOOLEAN]
    BY <1>2 DEF LoadRoomLoad, TInv, TypeOK, Refuse
  <2>1. snap' \in [Thread -> SUBSET Edit]
    <3>1. store[name[c]] \in SUBSET Edit
      BY <2>0 DEF TInv, TypeOK
    <3>2. snap' = snap \/ snap' = [snap EXCEPT ![Admit(c)] = store[name[c]]]
      BY <1>2 DEF LoadRoomLoad
    <3>. QED
      BY <3>1, <3>2 DEF TInv, TypeOK
  <2>2. TypeOK'
    BY <1>a, <1>2, <2>1, <2>a DEF TInv, TypeOK, LoadRoomLoad, RegistryTypes
  <2>3. PICK l \in {"install", "done"} : Goto(Admit(c), l)
    BY <1>2 DEF LoadRoomLoad
  <2>. QED
    BY <1>2, <1>b, <1>c, <2>2, <2>3, ConnMoves DEF LoadRoomLoad
<1>3. CASE LoadRoomInstall(c)
  <2>0. isOpen' \in [Conn -> BOOLEAN]
    BY <1>3 DEF LoadRoomInstall, TInv, TypeOK, Refuse, JoinRegistered, ServerFull
  <2>a. snap[Admit(c)] \in SUBSET Edit
    BY <1>b DEF TInv, TypeOK
  <2>b. doc' = doc \/ doc' = [doc EXCEPT ![c] = snap[Admit(c)]]
    BY <1>3 DEF LoadRoomInstall, JoinRegistered, ServerFull
  <2>c. doc' \in [Conn -> SUBSET Edit]
    BY <2>a, <2>b DEF TInv, TypeOK
  <2>1. snap' \in [Thread -> SUBSET Edit]
    BY <1>3 DEF LoadRoomInstall, TInv, TypeOK
  <2>2. TypeOK'
    BY <1>a, <1>3, <2>0, <2>1, <2>c DEF TInv, TypeOK, LoadRoomInstall, RegistryTypes
  <2>3. PICK l \in {"assign", "done"} : Goto(Admit(c), l)
    BY <1>3 DEF LoadRoomInstall, JoinRegistered, ServerFull
  <2>. QED
    BY <1>3, <1>b, <1>c, <2>2, <2>3, ConnMoves DEF LoadRoomInstall
<1>4. CASE AssignRoom(c)
  <2>1. TypeOK'
    BY <1>a, <1>4 DEF TInv, TypeOK, AssignRoom, RegistryTypes
  <2>2. /\ \A u \in ConnThread : u # Admit(c) => pc'[u] = pc[u]
        /\ pc'[Admit(c)] \notin InRoom
        /\ \A u \in FlushThread : pc'[u] = pc[u]
        /\ \A e \in Edit : pc'[Timer(e)] = pc[Timer(e)]
    BY <1>4, <1>b, <1>c, Moves, Distinct DEF AssignRoom
  <2>3. room[c] = None /\ room'[c] # None /\ \A d \in Conn : d # c => room'[d] = room[d]
    BY <1>4 DEF AssignRoom, TInv, TypeOK, RInv, RegistryInv, AdmissionsAgree
  <2>4. \A d \in Conn : room[d] # None => room'[d] # None
    BY <2>3
  <2>5. UNCHANGED <<frame, sender, buffer, work, grantee>>
    BY <1>4 DEF AssignRoom
  <2>6. \A t \in ConnThread : pc'[t] \in InRoom \cup {"arm", "regrant"} => pc'[t] = pc[t]
    BY <2>2 DEF InRoom
  <2>7. \A t \in ConnThread : t[2] \in Conn
    BY ThreadFacts
  <2>8. \A e \in Edit : sender[e] # None => sender[e] \in Conn
    BY DEF TInv, TypeOK
  <2>9. LocalsAgree'
    BY <2>2, <2>4, <2>5, <2>6, <2>7, <2>8 DEF TInv, LocalsAgree
  <2>. QED
    BY <2>1, <2>9
<1>5. CASE Register(c)
  <2>1. TypeOK'
    BY <1>a, <1>5 DEF TInv, TypeOK, Register, RegistryTypes
  <2>2. room[c] # None
    BY <1>5 DEF Register, TInv, RInv, RegistryInv, AdmissionsAgree
  <2>. QED
    BY <1>5, <1>b, <1>c, <2>1, <2>2, ConnMoves DEF Register
<1>. QED
  BY <1>1, <1>2, <1>3, <1>4, <1>5

\* admit after the registration, up to the replay of the buffered frames.
LEMMA AdmittedTypes ==
    ASSUME TInv, RInv', NEW c \in Conn,
           CheckOpen(c) \/ DecideGrant(c) \/ Announce(c) \/ OpenPhase(c)
    PROVE  TypeOK' /\ LocalsAgree'
<1>. USE DEF connVars, socketVars, placeVars, inputVars, roomVars, memberVars, docVars,
             localVars, sendVars, flushVars, history
<1>a. RegistryTypes'
  BY DEF RInv
<1>b. Admit(c) \in ConnThread /\ Admit(c) \in Thread /\ Admit(c)[2] = c
  BY Distinct, ThreadFacts
<1>c. {"grant", "remove", "announce", "open", "replay", "done"} \subseteq PcValue
  BY DEF PcValue
<1>d. pc[Admit(c)] \in {"check", "grant", "announce", "open"} => room[c] # None /\ target[c] \in Conn
  BY <1>b DEF TInv, LocalsAgree, InRoom, TypeOK, RInv, RegistryInv, NamesAgree
<1>1. CASE CheckOpen(c)
  <2>1. TypeOK'
    BY <1>a, <1>1 DEF TInv, TypeOK, CheckOpen, RegistryTypes
  <2>2. PICK l \in {"grant", "remove"} : Goto(Admit(c), l)
    BY <1>1 DEF CheckOpen, AfterCheck
  <2>. QED
    BY <1>1, <1>b, <1>c, <1>d, <2>1, <2>2, ConnMoves DEF CheckOpen
<1>2. CASE DecideGrant(c)
  <2>1. doc[target[c]] \in SUBSET Edit
    BY <1>2, <1>d DEF DecideGrant, TInv, TypeOK
  <2>2. snap' \in [Thread -> SUBSET Edit]
    BY <1>2, <2>1 DEF DecideGrant, TInv, TypeOK
  <2>3. seeder' \in [Conn -> Conn \cup {None}] /\ grantee' \in [Thread -> Conn \cup {None}]
    BY <1>2 DEF DecideGrant, TInv, TypeOK
  <2>4. TypeOK'
    BY <1>a, <1>2, <2>2, <2>3 DEF TInv, TypeOK, DecideGrant, RegistryTypes
  <2>5. \A u \in ConnThread : u # Admit(c) => grantee'[u] = grantee[u]
    BY <1>2, ThreadFacts DEF DecideGrant, TInv, TypeOK
  <2>. QED
    BY <1>2, <1>b, <1>c, <1>d, <2>4, <2>5, ConnMoves DEF DecideGrant
<1>3. CASE Announce(c)
  <2>1. snap' \in [Thread -> SUBSET Edit] /\ grantee' \in [Thread -> Conn \cup {None}]
    BY <1>3 DEF Announce, TInv, TypeOK
  <2>2. snap[Admit(c)] \in SUBSET Edit /\ grantee[Admit(c)] \in Conn \cup {None}
    BY <1>b DEF TInv, TypeOK
  <2>3. granted' \subseteq Conn
    BY <1>3, <2>2 DEF Announce, TInv, TypeOK
  <2>4. inbox' \in [Conn -> SUBSET Edit]
    <3>1. inbox' = inbox \/ inbox' = [inbox EXCEPT ![c] = @ \cup snap[Admit(c)]]
      BY <1>3 DEF Announce
    <3>2. inbox \in [Conn -> SUBSET Edit] /\ inbox[c] \cup snap[Admit(c)] \in SUBSET Edit
      BY <2>2 DEF TInv, TypeOK
    <3>. QED
      BY <3>1, <3>2
  <2>5. TypeOK'
    BY <1>a, <1>3, <2>1, <2>3, <2>4 DEF TInv, TypeOK, Announce, RegistryTypes
  <2>6. \A u \in ConnThread : u # Admit(c) => grantee'[u] = grantee[u]
    BY <1>3, ThreadFacts DEF Announce, TInv, TypeOK
  <2>. QED
    BY <1>3, <1>b, <1>c, <1>d, <2>5, <2>6, ConnMoves DEF Announce
<1>4. CASE OpenPhase(c)
  <2>1. TypeOK'
    BY <1>a, <1>4 DEF TInv, TypeOK, OpenPhase, RegistryTypes
  <2>2. PICK l \in {"replay", "done"} : Goto(Admit(c), l)
    BY <1>4 DEF OpenPhase
  <2>. QED
    BY <1>4, <1>b, <1>c, <1>d, <2>1, <2>2, ConnMoves DEF OpenPhase
<1>. QED
  BY <1>1, <1>2, <1>3, <1>4

------------------------------------------------------------------------------
(* Frames: the OnMessage listener and the replay of the buffer               *)

\* What handing a frame to a thread does to it.
LEMMA DispatchFacts ==
    ASSUME TInv, NEW t \in ConnThread, NEW f \in Frame, Dispatch(t, f)
    PROVE  /\ isOpen' \in [Conn -> BOOLEAN]
           /\ frame' \in [Thread -> Frame \cup {None}]
           /\ \A u \in Thread : u # t => frame'[u] = frame[u]
           /\ frame'[t] = frame[t] \/ frame'[t] = f
           /\ \E l \in {"replay", "read", "peers", "apply"} : Goto(t, l)
<1>1. t \in Thread /\ t[2] \in Conn
  BY ThreadFacts
<1>2. isOpen' \in [Conn -> BOOLEAN]
  BY DEF Dispatch, Refuse, TInv, TypeOK, socketVars
<1>3. frame' = frame \/ frame' = [frame EXCEPT ![t] = f]
  BY DEF Dispatch
<1>4. \E l \in {"replay", "read", "peers", "apply"} : Goto(t, l)
  BY DEF Dispatch, Home
<1>5. frame \in [Thread -> Frame \cup {None}]
  BY DEF TInv, TypeOK
<1>. QED
  BY <1>1, <1>2, <1>3, <1>4, <1>5

\* A step that hands a frame of a connection, or none, to one of its threads.
LEMMA HandMoves ==
    ASSUME TInv, TypeOK', NEW t \in ConnThread, NEW l \in PcValue, Goto(t, l),
           l \notin {"arm", "regrant"}, room[t[2]] # None,
           UNCHANGED <<room, work, grantee>>,
           \A e \in Edit : sender[e] # None => sender'[e] = sender[e],
           \A u \in ConnThread : u # t => frame'[u] = frame[u],
           frame'[t] \in Edit => sender'[frame'[t]] = t[2],
           \A c \in Conn : \A k \in DOMAIN buffer'[c] :
              buffer'[c][k] \in Edit => sender'[buffer'[c][k]] = c
    PROVE  LocalsAgree'
<1>1. /\ pc'[t] = l
      /\ \A u \in ConnThread : u # t => pc'[u] = pc[u]
      /\ \A u \in FlushThread : pc'[u] = pc[u]
      /\ \A e \in Edit : pc'[Timer(e)] = pc[Timer(e)]
  BY Moves, Distinct, ThreadFacts
<1>2. \A u \in ConnThread : u[2] \in Conn /\ u[2] # None
  BY ThreadFacts, ConnAssumption
<1>3. \A u \in ConnThread :
         /\ pc'[u] \in InRoom => room'[u[2]] # None
         /\ frame'[u] \in Edit => sender'[frame'[u]] = u[2]
         /\ pc'[u] = "arm" => frame'[u] \in Edit
         /\ pc'[u] = "regrant" => grantee'[u] # None
  <2>. TAKE u \in ConnThread
  <2>1. CASE u = t
    BY <1>1, <2>1
  <2>2. CASE u # t
    BY <1>1, <1>2, <2>2 DEF TInv, LocalsAgree
  <2>. QED
    BY <2>1, <2>2
<1>4. \A e \in Edit : pc'[Timer(e)] \notin {"idle", "done"} =>
         sender'[e] # None /\ room'[sender'[e]] # None
  BY <1>1 DEF TInv, LocalsAgree
<1>5. \A u \in FlushThread : pc'[u] \in {"stop", "encode", "save"} => work'[u] # None
  BY <1>1 DEF TInv, LocalsAgree
<1>. QED
  BY <1>3, <1>4, <1>5 DEF LocalsAgree

LEMMA ReplayTypes ==
    ASSUME TInv, RInv', NEW c \in Conn, Replay(c)
    PROVE  TypeOK' /\ LocalsAgree'
<1>. USE DEF connVars, socketVars, placeVars, inputVars, roomVars, memberVars, docVars,
             localVars, sendVars, flushVars, history
<1>a. RegistryTypes'
  BY DEF RInv
<1>b. Admit(c) \in ConnThread /\ Admit(c) \in Thread /\ Admit(c)[2] = c
  BY Distinct, ThreadFacts
<1>c. room[c] # None
  BY <1>b DEF Replay, TInv, LocalsAgree, InRoom
<1>1. CASE buffer[c] = <<>>
  <2>1. TypeOK'
    BY <1>a, <1>1 DEF TInv, TypeOK, Replay, RegistryTypes
  <2>2. "done" \in PcValue /\ "done" \notin InRoom
    BY DEF PcValue, InRoom
  <2>. QED
    BY <1>1, <1>b, <2>1, <2>2, ConnMoves DEF Replay
<1>2. CASE buffer[c] # <<>>
  <2>1. buffer[c] \in Seq(Frame) /\ Len(buffer[c]) > 0 /\ Head(buffer[c]) = buffer[c][1]
    BY <1>2 DEF TInv, TypeOK
  <2>2. Head(buffer[c]) \in Frame /\ Tail(buffer[c]) \in Seq(Frame)
    BY <1>2, <2>1
  <2>3. Dispatch(Admit(c), Head(buffer[c])) /\ buffer' = [buffer EXCEPT ![c] = Tail(@)]
    BY <1>2 DEF Replay
  <2>4. /\ isOpen' \in [Conn -> BOOLEAN]
        /\ frame' \in [Thread -> Frame \cup {None}]
        /\ \A u \in Thread : u # Admit(c) => frame'[u] = frame[u]
        /\ frame'[Admit(c)] = frame[Admit(c)] \/ frame'[Admit(c)] = Head(buffer[c])
    BY <1>b, <2>2, <2>3, DispatchFacts
  <2>5. buffer' \in [Conn -> Seq(Frame)]
    BY <2>2, <2>3 DEF TInv, TypeOK
  <2>6. TypeOK'
    BY <1>a, <2>4, <2>5 DEF TInv, TypeOK, Replay, RegistryTypes
  <2>7. PICK l \in {"replay", "read", "peers", "apply"} : Goto(Admit(c), l)
    BY <1>b, <2>2, <2>3, DispatchFacts
  <2>8. l \in PcValue /\ l \notin {"arm", "regrant"}
    BY DEF PcValue
  <2>9. \A d \in Conn : \A k \in DOMAIN buffer'[d] :
           buffer'[d][k] \in Edit => sender[buffer'[d][k]] = d
    <3>1. \A k \in DOMAIN Tail(buffer[c]) :
             k + 1 \in DOMAIN buffer[c] /\ Tail(buffer[c])[k] = buffer[c][k + 1]
      BY <2>1
    <3>2. buffer'[c] = Tail(buffer[c]) /\ \A d \in Conn : d # c => buffer'[d] = buffer[d]
      BY <2>3 DEF TInv, TypeOK
    <3>3. \A d \in Conn : \A k \in DOMAIN buffer[d] :
             buffer[d][k] \in Edit => sender[buffer[d][k]] = d
      BY DEF TInv, LocalsAgree
    <3>4. \A k \in DOMAIN buffer'[c] : buffer'[c][k] \in Edit => sender[buffer'[c][k]] = c
      BY <3>1, <3>2, <3>3
    <3>. QED
      BY <3>2, <3>3, <3>4
  <2>10. frame'[Admit(c)] \in Edit => sender[frame'[Admit(c)]] = c
    BY <1>b, <2>1, <2>4 DEF TInv, LocalsAgree
  <2>11. UNCHANGED <<room, work, grantee, sender>>
    BY DEF Replay
  <2>12. \A u \in ConnThread : u \in Thread
    BY ThreadFacts
  <2>. QED
    BY <1>b, <1>c, <2>4, <2>6, <2>7, <2>8, <2>9, <2>10, <2>11, <2>12, HandMoves
<1>. QED
  BY <1>1, <1>2

\* A frame that arrives is dispatched, buffered behind the others, or refused.
LEMMA OnMessageTypes ==
    ASSUME TInv, RInv', NEW c \in Conn, NEW f \in Frame, OnMessage(c, f)
    PROVE  TypeOK' /\ LocalsAgree'
<1>. USE DEF connVars, socketVars, placeVars, inputVars, roomVars, memberVars, docVars,
             localVars, sendVars, flushVars, history
<1>a. RegistryTypes'
  BY DEF RInv
<1>b. Read(c) \in ConnThread /\ Read(c) \in Thread /\ Read(c)[2] = c
  BY Distinct, ThreadFacts
<1>1. /\ sender' \in [Edit -> Conn \cup {None}]
      /\ \A e \in Edit : sender[e] # None => sender'[e] = sender[e]
      /\ f \in Edit => sender'[f] = c
  <2>1. sender \in [Edit -> Conn \cup {None}]
    BY DEF TInv, TypeOK
  <2>2. /\ f \in Edit => sender[f] = None
        /\ sender' = IF f \in Edit THEN [sender EXCEPT ![f] = c] ELSE sender
    BY DEF OnMessage
  <2>. QED
    BY <2>1, <2>2
<1>2. UNCHANGED <<room, work, grantee>>
  BY DEF OnMessage
<1>3. \A u \in ConnThread : u[2] \in Conn /\ u[2] # None /\ u \in Thread
  BY ThreadFacts, ConnAssumption
<1>4. /\ \A u \in ConnThread : frame[u] \in Edit => sender'[frame[u]] = u[2]
      /\ \A d \in Conn : \A k \in DOMAIN buffer[d] :
            buffer[d][k] \in Edit => sender'[buffer[d][k]] = d
      /\ \A e \in Edit : pc[Timer(e)] \notin {"idle", "done"} =>
            sender'[e] # None /\ room[sender'[e]] # None
  BY <1>1, <1>3, ConnAssumption DEF TInv, LocalsAgree
<1>5. CASE phase[c] = "open" /\ Dispatch(Read(c), f) /\ UNCHANGED buffer
  <2>1. /\ isOpen' \in [Conn -> BOOLEAN]
        /\ frame' \in [Thread -> Frame \cup {None}]
        /\ \A u \in Thread : u # Read(c) => frame'[u] = frame[u]
        /\ frame'[Read(c)] = frame[Read(c)] \/ frame'[Read(c)] = f
    BY <1>b, <1>5, DispatchFacts
  <2>2. TypeOK'
    BY <1>a, <1>1, <1>5, <2>1 DEF TInv, TypeOK, OnMessage, RegistryTypes
  <2>3. PICK l \in {"replay", "read", "peers", "apply"} : Goto(Read(c), l)
    BY <1>b, <1>5, DispatchFacts
  <2>4. l \in PcValue /\ l \notin {"arm", "regrant"}
    BY DEF PcValue
  <2>5. room[c] # None
    BY <1>5 DEF TInv, RInv, RegistryInv, AdmissionsAgree
  <2>6. frame'[Read(c)] \in Edit => sender'[frame'[Read(c)]] = c
    BY <1>b, <1>1, <1>4, <2>1
  <2>. QED
    BY <1>b, <1>1, <1>2, <1>3, <1>4, <1>5, <2>1, <2>2, <2>3, <2>4, <2>5, <2>6, HandMoves
<1>6. CASE phase[c] = "pending" /\ Refuse(c) /\ UNCHANGED <<buffer, pc, frame>>
  <2>1. isOpen' \in [Conn -> BOOLEAN]
    BY <1>6 DEF Refuse, TInv, TypeOK
  <2>2. TypeOK'
    BY <1>a, <1>1, <1>6, <2>1 DEF TInv, TypeOK, OnMessage, RegistryTypes
  <2>3. LocalsAgree'
    BY <1>2, <1>4, <1>6 DEF TInv, LocalsAgree
  <2>. QED
    BY <2>2, <2>3
<1>7. CASE buffer' = [buffer EXCEPT ![c] = Buffered(c, f)] /\ UNCHANGED <<socketVars, pc, frame>>
  <2>1. buffer \in [Conn -> Seq(Frame)] /\ buffer[c] \in Seq(Frame)
    BY DEF TInv, TypeOK
  <2>2. buffer' \in [Conn -> Seq(Frame)]
    BY <1>7, <2>1 DEF Buffered
  <2>3. TypeOK'
    BY <1>a, <1>1, <1>7, <2>2 DEF TInv, TypeOK, OnMessage, RegistryTypes
  <2>4. \A k \in DOMAIN Append(buffer[c], f) :
           Append(buffer[c], f)[k] = f \/ (k \in DOMAIN buffer[c] /\ Append(buffer[c], f)[k] = buffer[c][k])
    BY <2>1
  <2>5. buffer'[c] = Append(buffer[c], f) /\ \A d \in Conn : d # c => buffer'[d] = buffer[d]
    BY <1>7, <2>1 DEF Buffered
  <2>6. \A k \in DOMAIN buffer'[c] : buffer'[c][k] \in Edit => sender'[buffer'[c][k]] = c
    BY <1>1, <1>4, <2>4, <2>5
  <2>7. \A d \in Conn : \A k \in DOMAIN buffer'[d] :
           buffer'[d][k] \in Edit => sender'[buffer'[d][k]] = d
    BY <1>4, <2>5, <2>6
  <2>8. LocalsAgree'
    BY <1>2, <1>4, <1>7, <2>7 DEF TInv, LocalsAgree
  <2>. QED
    BY <2>3, <2>8
<1>. QED
  BY <1>5, <1>6, <1>7 DEF OnMessage

------------------------------------------------------------------------------
(* handle and dropSocket                                                     *)

LEMMA ApplyTypes ==
    ASSUME TInv, RInv', NEW t \in ConnThread, Apply(t)
    PROVE  TypeOK' /\ LocalsAgree'
<1>. USE DEF connVars, socketVars, placeVars, inputVars, roomVars, memberVars, docVars,
             localVars, sendVars, flushVars, history
<1>a. RegistryTypes'
  BY DEF RInv
<1>b. t \in Thread
  BY ThreadFacts
<1>1. room[t[2]] # None
  BY DEF Apply, TInv, LocalsAgree, InRoom
<1>2. CASE frame[t] \in Edit
  <2>1. doc' \in [Conn -> SUBSET Edit]
    <3>1. doc \in [Conn -> SUBSET Edit] /\ doc' = [doc EXCEPT ![Inst(t)] = @ \cup {frame[t]}]
      BY <1>2 DEF Apply, TInv, TypeOK
    <3>2. Inst(t) \in Conn => doc[Inst(t)] \cup {frame[t]} \in SUBSET Edit
      BY <1>2, <3>1
    <3>. QED
      BY <3>1, <3>2
  <2>2. TypeOK'
    BY <1>a, <1>2, <2>1 DEF TInv, TypeOK, Apply, RegistryTypes
  <2>3. "arm" \in PcValue
    BY DEF PcValue
  <2>. QED
    BY <1>1, <1>2, <2>2, <2>3, ConnMoves DEF Apply
<1>3. CASE frame[t] \notin Edit
  <2>1. frame' = [frame EXCEPT ![t] = None] /\ frame \in [Thread -> Frame \cup {None}]
    BY <1>3 DEF Apply, TInv, TypeOK
  <2>2. frame' \in [Thread -> Frame \cup {None}]
    BY <2>1
  <2>3. TypeOK'
    BY <1>a, <1>3, <2>2 DEF TInv, TypeOK, Apply, RegistryTypes
  <2>4. PICK l \in {"replay", "read"} : Goto(t, l)
    BY <1>3 DEF Apply, Home
  <2>5. l \in PcValue /\ l \notin {"arm", "regrant"}
    BY DEF PcValue
  <2>6. /\ \A u \in ConnThread : u # t => frame'[u] = frame[u]
        /\ frame'[t] \notin Edit
    BY <1>b, <2>1, ThreadFacts, EditAssumption
  <2>7. /\ UNCHANGED <<room, work, grantee, sender, buffer>>
        /\ \A d \in Conn : \A k \in DOMAIN buffer'[d] :
              buffer'[d][k] \in Edit => sender'[buffer'[d][k]] = d
    BY DEF Apply, TInv, LocalsAgree
  <2>. QED
    BY <1>1, <2>3, <2>4, <2>5, <2>6, <2>7, HandMoves
<1>. QED
  BY <1>2, <1>3

\* The timer armed for an edit is that of a connection placed in a room.
LEMMA ArmSaveTypes ==
    ASSUME TInv, RInv', NEW t \in ConnThread, ArmSave(t)
    PROVE  TypeOK' /\ LocalsAgree'
<1>. USE DEF connVars, socketVars, placeVars, inputVars, roomVars, memberVars, docVars,
             localVars, sendVars, flushVars, history
<1>a. RegistryTypes'
  BY DEF RInv
<1>b. t \in Thread /\ t[2] \in Conn /\ t[2] # None
  BY ThreadFacts, ConnAssumption
<1>1. room[t[2]] # None /\ frame[t] \in Edit /\ sender[frame[t]] = t[2]
  BY DEF ArmSave, TInv, LocalsAgree, InRoom
<1>2. saveTimer' \in [Conn -> Edit \cup {None}]
  BY <1>1 DEF ArmSave, TInv, TypeOK
<1>3. TypeOK'
  BY <1>a, <1>2 DEF TInv, TypeOK, ArmSave, RegistryTypes
<1>4. /\ \A u \in ConnThread : u # t => pc'[u] = pc[u]
      /\ pc'[t] = "peers"
      /\ \A u \in FlushThread : pc'[u] = pc[u]
      /\ \A e \in Edit : e # frame[t] => pc'[Timer(e)] \in {pc[Timer(e)], "done"}
  <2>1. pc' = [StopTimer(Inst(t), pc) EXCEPT ![t] = "peers", ![Timer(frame[t])] = "armed"]
    BY DEF ArmSave, Armed
  <2>2. StopTimer(Inst(t), pc) \in [Thread -> PcValue]
    BY StopTimerFacts DEF TInv, RInv
  <2>3. \A u \in ConnThread : StopTimer(Inst(t), pc)[u] = pc[u] /\ u # Timer(frame[t]) /\ u \in Thread
    BY <1>1, StopTimerFacts, Distinct DEF TInv, RInv
  <2>4. \A u \in FlushThread : /\ u \in Thread /\ u # t /\ u # Timer(frame[t])
                               /\ StopTimer(Inst(t), pc)[u] = pc[u]
    BY <1>1, Distinct, ThreadFacts DEF StopTimer, FlushThread, Timer, Thread
  <2>5. \A e \in Edit : StopTimer(Inst(t), pc)[Timer(e)] \in {pc[Timer(e)], "done"}
    <3>. SUFFICES ASSUME NEW e \in Edit
                  PROVE  StopTimer(Inst(t), pc)[Timer(e)] \in {pc[Timer(e)], "done"}
      OBVIOUS
    <3>1. Timer(e) \in Thread
      BY DEF Timer, Thread
    <3>. QED
      BY <3>1 DEF StopTimer
  <2>6. \A e \in Edit : e # frame[t] => /\ Timer(e) # Timer(frame[t]) /\ Timer(e) # t
                                        /\ Timer(e) \in Thread
    BY <1>1, Distinct DEF Timer, Thread
  <2>. QED
    BY <1>b, <2>1, <2>2, <2>3, <2>4, <2>5, <2>6
<1>5. UNCHANGED <<room, frame, sender, buffer, work, grantee>>
  BY DEF ArmSave
<1>6. \A u \in ConnThread : u # t \/ pc[u] = "arm"
  BY DEF ArmSave
<1>. QED
  BY <1>1, <1>3, <1>4, <1>5, <1>6, <1>b, LocalsKept DEF InRoom

LEMMA BroadcastTypes ==
    ASSUME TInv, RInv', NEW t \in ConnThread, Snapshot(t) \/ SendPeer(t)
    PROVE  TypeOK' /\ LocalsAgree'
<1>. USE DEF connVars, socketVars, placeVars, inputVars, roomVars, memberVars, docVars,
             localVars, sendVars, flushVars, history
<1>a. RegistryTypes'
  BY DEF RInv
<1>b. t \in Thread
  BY ThreadFacts
<1>1. room[t[2]] # None /\ Inst(t) \in Conn
  <2>1. pc[t] \in InRoom
    BY DEF Snapshot, SendPeer, InRoom
  <2>. QED
    BY <2>1, InstFacts DEF TInv, LocalsAgree
<1>2. CASE Snapshot(t)
  <2>1. peers' \in [Thread -> SUBSET Conn]
    <3>1. sockets \in [Conn -> SUBSET Conn] /\ peers \in [Thread -> SUBSET Conn]
      BY DEF TInv, TypeOK
    <3>2. Peers(t) \in SUBSET Conn
      BY <1>1, <3>1 DEF Peers
    <3>. QED
      BY <1>2, <3>1, <3>2 DEF Snapshot
  <2>2. TypeOK'
    BY <1>a, <1>2, <2>1 DEF TInv, TypeOK, Snapshot, RegistryTypes
  <2>3. "send" \in PcValue
    BY DEF PcValue
  <2>. QED
    BY <1>1, <1>2, <2>2, <2>3, ConnMoves DEF Snapshot
<1>3. CASE SendPeer(t) /\ peers[t] = {}
  <2>1. frame' = [frame EXCEPT ![t] = None] /\ frame \in [Thread -> Frame \cup {None}]
    BY <1>3 DEF SendPeer, TInv, TypeOK
  <2>2. frame' \in [Thread -> Frame \cup {None}]
    BY <2>1
  <2>3. TypeOK'
    BY <1>a, <1>3, <2>2 DEF TInv, TypeOK, SendPeer, RegistryTypes
  <2>4. PICK l \in {"replay", "read"} : Goto(t, l)
    BY <1>3 DEF SendPeer, Home
  <2>5. l \in PcValue /\ l \notin {"arm", "regrant"}
    BY DEF PcValue
  <2>6. /\ \A u \in ConnThread : u # t => frame'[u] = frame[u]
        /\ frame'[t] \notin Edit
    BY <1>b, <2>1, ThreadFacts, EditAssumption
  <2>7. /\ UNCHANGED <<room, work, grantee, sender, buffer>>
        /\ \A d \in Conn : \A k \in DOMAIN buffer'[d] :
              buffer'[d][k] \in Edit => sender'[buffer'[d][k]] = d
    BY <1>3 DEF SendPeer, TInv, LocalsAgree
  <2>. QED
    BY <1>1, <2>3, <2>4, <2>5, <2>6, <2>7, HandMoves
<1>4. CASE SendPeer(t) /\ peers[t] # {}
  <2>1. PICK p \in peers[t] :
           /\ peers' = [peers EXCEPT ![t] = @ \ {p}]
           /\ inbox' = IF isOpen[p] /\ frame[t] \in Edit
                       THEN [inbox EXCEPT ![p] = @ \cup {frame[t]}] ELSE inbox
    BY <1>4 DEF SendPeer
  <2>2. peers \in [Thread -> SUBSET Conn] /\ inbox \in [Conn -> SUBSET Edit]
    BY DEF TInv, TypeOK
  <2>3. p \in Conn /\ peers[t] \ {p} \in SUBSET Conn
    BY <1>b, <2>2
  <2>4. peers' \in [Thread -> SUBSET Conn]
    BY <2>1, <2>2, <2>3
  <2>5. inbox' \in [Conn -> SUBSET Edit]
    <3>1. CASE frame[t] \in Edit
      <4>1. inbox[p] \cup {frame[t]} \in SUBSET Edit
        BY <2>2, <2>3, <3>1
      <4>. QED
        BY <2>1, <2>2, <4>1
    <3>2. CASE frame[t] \notin Edit
      BY <2>1, <2>2, <3>2
    <3>. QED
      BY <3>1, <3>2
  <2>6. TypeOK'
    BY <1>4, <2>4, <2>5 DEF TInv, TypeOK, SendPeer
  <2>7. UNCHANGED <<pc, room, frame, sender, buffer, work, grantee>>
    BY <1>4 DEF SendPeer
  <2>. QED
    BY <2>6, <2>7, LocalsKept
<1>. QED
  BY <1>2, <1>3, <1>4

LEMMA RemoveTypes ==
    ASSUME TInv, RInv', NEW t \in ConnThread, Remove(t) \/ Regrant(t) \/ Forget(t)
    PROVE  TypeOK' /\ LocalsAgree'
<1>. USE DEF connVars, socketVars, placeVars, inputVars, roomVars, memberVars, docVars,
             localVars, sendVars, flushVars, history
<1>a. RegistryTypes'
  BY DEF RInv
<1>b. t \in Thread /\ t[2] \in Conn
  BY ThreadFacts
<1>c. room[t[2]] # None /\ Inst(t) \in Conn
  <2>1. pc[t] \in InRoom
    BY DEF Remove, Regrant, Forget, InRoom
  <2>. QED
    BY <2>1, InstFacts DEF TInv, LocalsAgree
<1>d. {"regrant", "stop", "done"} \subseteq PcValue
  BY DEF PcValue
<1>1. CASE Remove(t)
  <2>1. PICK h \in Heirs(Inst(t), t[2]) :
           /\ seeder' = [seeder EXCEPT ![Inst(t)] = h]
           /\ IF seeder[Inst(t)] = t[2] /\ h # None
              THEN grantee' = [grantee EXCEPT ![t] = h] /\ Goto(t, "regrant")
              ELSE /\ Goto(t, IF Vacant(Inst(t), sockets[Inst(t)] \ {t[2]}) THEN "stop" ELSE "done")
                   /\ UNCHANGED grantee
    BY <1>1 DEF Remove
  <2>2. h \in Conn \cup {None}
    <3>1. seeder[Inst(t)] \in Conn \cup {None} /\ sockets[Inst(t)] \subseteq Conn
      BY <1>c DEF TInv, TypeOK
    <3>. QED
      BY <3>1 DEF Heirs
  <2>3. /\ seeder' \in [Conn -> Conn \cup {None}]
        /\ grantee' \in [Thread -> Conn \cup {None}]
    BY <2>1, <2>2 DEF TInv, TypeOK
  <2>4. granted' \subseteq Conn
    BY <1>1 DEF Remove, TInv, TypeOK
  <2>5. TypeOK'
    BY <1>a, <1>1, <2>3, <2>4 DEF TInv, TypeOK, Remove, RegistryTypes
  <2>6. PICK l \in {"regrant", "stop", "done"} :
           Goto(t, l) /\ (l = "regrant" => h # None /\ grantee' = [grantee EXCEPT ![t] = h])
    BY <2>1
  <2>7. /\ l = "regrant" => grantee'[t] # None
        /\ \A u \in ConnThread : u # t => grantee'[u] = grantee[u]
    <3>1. grantee \in [Thread -> Conn \cup {None}]
      BY DEF TInv, TypeOK
    <3>. QED
      BY <1>b, <2>1, <2>6, <3>1, ThreadFacts
  <2>8. UNCHANGED <<room, frame, sender, buffer, work>> /\ l \in PcValue
    BY <1>1, <1>d DEF Remove
  <2>. QED
    BY <1>c, <2>5, <2>6, <2>7, <2>8, ConnMoves
<1>2. CASE Regrant(t)
  <2>1. grantee \in [Thread -> Conn \cup {None}]
    BY DEF TInv, TypeOK
  <2>2. /\ grantee' \in [Thread -> Conn \cup {None}]
        /\ \A u \in ConnThread : u # t => grantee'[u] = grantee[u]
    BY <1>2, <2>1, ThreadFacts DEF Regrant
  <2>3. grantee[t] \in Conn
    BY <1>2, <1>b, <2>1 DEF Regrant, TInv, LocalsAgree
  <2>4. granted' \subseteq Conn
    BY <1>2, <2>3 DEF Regrant, TInv, TypeOK
  <2>5. TypeOK'
    BY <1>a, <1>2, <2>2, <2>4 DEF TInv, TypeOK, Regrant, RegistryTypes
  <2>. QED
    BY <1>2, <1>c, <1>d, <2>2, <2>5, ConnMoves DEF Regrant
<1>3. CASE Forget(t)
  <2>1. TypeOK'
    BY <1>a, <1>3 DEF TInv, TypeOK, Forget, RegistryTypes
  <2>. QED
    BY <1>3, <1>c, <1>d, <2>1, ConnMoves DEF Forget
<1>. QED
  BY <1>1, <1>2, <1>3

------------------------------------------------------------------------------
(* flush and safeSave, on whichever thread; the timers and FlushAll          *)

\* Whatever thread saves works on a room that exists.
LEMMA SaverFacts ==
    ASSUME TInv, NEW t \in Thread, pc[t] \in {"stop", "encode", "save"}
    PROVE  /\ Inst(t) \in Conn
           /\ t \in ConnThread => room[t[2]] # None
<1>1. CASE t \in ConnThread
  BY <1>1, InstFacts DEF TInv, LocalsAgree, InRoom
<1>2. CASE t \in FlushThread
  BY <1>2, InstFacts, Distinct
<1>3. CASE \E e \in Edit : t = Timer(e)
  BY <1>3, InstFacts, Distinct
<1>. QED
  BY <1>1, <1>2, <1>3, Distinct

LEMMA SaveStepTypes ==
    ASSUME TInv, RInv', NEW t \in Thread, SaveStep(t)
    PROVE  TypeOK' /\ LocalsAgree'
<1>. USE DEF connVars, socketVars, placeVars, inputVars, roomVars, memberVars, docVars,
             localVars, sendVars, flushVars, history
<1>a. RegistryTypes'
  BY DEF RInv
<1>b. pc[t] \in {"stop", "encode", "save"}
  BY DEF SaveStep, FlushStop, Encode, Save
<1>c. Inst(t) \in Conn /\ (t \in ConnThread => room[t[2]] # None)
  BY <1>b, SaverFacts
<1>d. UNCHANGED <<room, frame, sender, buffer, work, grantee>>
  BY DEF SaveStep, FlushStop, Encode, Save
<1>1. TypeOK'
  <2>1. CASE FlushStop(t)
    <3>1. saveTimer' \in [Conn -> Edit \cup {None}]
      BY <2>1 DEF FlushStop, TInv, TypeOK
    <3>. QED
      BY <1>a, <2>1, <3>1 DEF TInv, TypeOK, FlushStop, RegistryTypes
  <2>2. CASE Encode(t)
    <3>1. snap \in [Thread -> SUBSET Edit] /\ doc[Inst(t)] \in SUBSET Edit
      BY <1>c DEF TInv, TypeOK
    <3>2. snap' \in [Thread -> SUBSET Edit]
      BY <2>2, <3>1 DEF Encode
    <3>. QED
      BY <1>a, <2>2, <3>2 DEF TInv, TypeOK, Encode, RegistryTypes
  <2>3. CASE Save(t)
    <3>1. /\ snap \in [Thread -> SUBSET Edit] /\ snap[t] \in SUBSET Edit
          /\ store \in [Name -> SUBSET Edit] /\ offered \in [Name -> SUBSET Edit]
      BY DEF TInv, TypeOK
    <3>2. snap' \in [Thread -> SUBSET Edit]
      BY <2>3, <3>1 DEF Save
    <3>3. /\ store' = store \/ store' = [store EXCEPT ![name[Inst(t)]] = snap[t]]
          /\ offered' = [offered EXCEPT ![name[Inst(t)]] = @ \cup snap[t]]
      BY <2>3 DEF Save
    <3>4. store' \in [Name -> SUBSET Edit]
      BY <3>1, <3>3
    <3>5. name[Inst(t)] \in Name => offered[name[Inst(t)]] \cup snap[t] \in SUBSET Edit
      BY <3>1
    <3>6. offered' \in [Name -> SUBSET Edit]
      BY <3>1, <3>3, <3>5
    <3>. QED
      BY <1>a, <2>3, <3>2, <3>4, <3>6 DEF TInv, TypeOK, Save, RegistryTypes
  <2>. QED
    BY <2>1, <2>2, <2>3 DEF SaveStep
<1>2. /\ pc'[t] \in {"encode", "save", "done", "next", "forget"}
      /\ \A u \in Thread : u # t => pc'[u] \in {pc[u], "done"}
  <2>1. pc \in [Thread -> PcValue] /\ StopTimer(Inst(t), pc) \in [Thread -> PcValue]
    BY StopTimerFacts DEF TInv, RInv, RegistryTypes
  <2>2. CASE FlushStop(t)
    <3>1. \A u \in Thread : StopTimer(Inst(t), pc)[u] \in {pc[u], "done"}
      BY DEF StopTimer
    <3>2. pc' = [StopTimer(Inst(t), pc) EXCEPT ![t] = "encode"]
      BY <2>2 DEF FlushStop
    <3>. QED
      BY <2>1, <3>1, <3>2
  <2>3. CASE Encode(t) \/ Save(t)
    <3>1. PICK l \in {"save", "done", "next", "forget"} : Goto(t, l)
      BY <2>3 DEF Encode, Save
    <3>. QED
      BY <2>1, <3>1 DEF Goto
  <2>. QED
    BY <2>2, <2>3 DEF SaveStep
<1>3. /\ \A u \in ConnThread : /\ pc'[u] \in InRoom => room[u[2]] # None
                               /\ pc'[u] \in {"arm", "regrant"} => pc'[u] = pc[u]
      /\ \A e \in Edit : pc'[Timer(e)] \notin {"idle", "done"} => pc[Timer(e)] \notin {"idle", "done"}
      /\ \A u \in FlushThread : pc'[u] \in {"stop", "encode", "save"} =>
            pc[u] \in {"stop", "encode", "save"}
  <2>1. \A u \in ConnThread : u \in Thread /\ (pc[u] \in InRoom => room[u[2]] # None)
    BY ThreadFacts DEF TInv, LocalsAgree
  <2>2. \A e \in Edit : Timer(e) \in Thread
    BY DEF Timer, Thread
  <2>3. \A u \in FlushThread : u \in Thread
    BY DEF FlushThread, Thread
  <2>. QED
    BY <1>b, <1>c, <1>2, <2>1, <2>2, <2>3 DEF InRoom
<1>. QED
  BY <1>1, <1>3, <1>d, LocalsKept

LEMMA TimerTypes ==
    ASSUME TInv, RInv', NEW e \in Edit, TimerFires(e) \/ TimerClears(e)
    PROVE  TypeOK' /\ LocalsAgree'
<1>. USE DEF connVars, socketVars, placeVars, inputVars, roomVars, memberVars, docVars,
             localVars, sendVars, flushVars, history
<1>a. RegistryTypes'
  BY DEF RInv
<1>b. Timer(e) \in Thread
  BY DEF Timer, Thread
<1>1. saveTimer' \in [Conn -> Edit \cup {None}]
  BY DEF TimerFires, TimerClears, TInv, TypeOK
<1>2. TypeOK'
  BY <1>a, <1>1 DEF TInv, TypeOK, TimerFires, TimerClears, RegistryTypes
<1>3. PICK l \in {"clear", "encode"} : Goto(Timer(e), l)
  BY DEF TimerFires, TimerClears
<1>4. l \in PcValue
  BY DEF PcValue
<1>5. /\ \A u \in ConnThread : pc'[u] = pc[u]
      /\ \A u \in FlushThread : pc'[u] = pc[u]
      /\ \A d \in Edit : d # e => pc'[Timer(d)] = pc[Timer(d)]
  BY <1>b, <1>3, <1>4, Moves, Distinct
<1>6. pc[Timer(e)] \notin {"idle", "done"}
  BY DEF TimerFires, TimerClears
<1>7. UNCHANGED <<room, frame, sender, buffer, work, grantee>>
  BY DEF TimerFires, TimerClears
<1>. QED
  BY <1>2, <1>5, <1>6, <1>7, LocalsKept

LEMMA FlushAllTypes ==
    ASSUME TInv, RInv', NEW t \in FlushThread, FlushAllStart(t) \/ FlushAllNext(t)
    PROVE  TypeOK' /\ LocalsAgree'
<1>. USE DEF connVars, socketVars, placeVars, inputVars, roomVars, memberVars, docVars,
             localVars, sendVars, flushVars, history
<1>a. RegistryTypes'
  BY DEF RInv
<1>b. t \in Thread
  BY DEF FlushThread, Thread
<1>c. todo \in [FlushThread -> SUBSET Conn] /\ work \in [FlushThread -> Conn \cup {None}]
  BY DEF TInv, TypeOK
<1>1. todo' \in [FlushThread -> SUBSET Conn]
  <2>1. {rooms[n] : n \in RegisteredRooms} \subseteq Conn
    BY DEF RegisteredRooms, TInv, TypeOK
  <2>. QED
    BY <1>c, <2>1 DEF FlushAllStart, FlushAllNext
<1>2. PICK l \in {"next", "done", "stop"} :
         /\ Goto(t, l)
         /\ work' \in [FlushThread -> Conn \cup {None}]
         /\ \A u \in FlushThread : u # t => work'[u] = work[u]
         /\ l = "stop" => work'[t] \in Conn
  <2>1. CASE FlushAllStart(t)
    BY <1>c, <2>1 DEF FlushAllStart
  <2>2. CASE FlushAllNext(t) /\ todo[t] = {}
    BY <1>c, <2>2 DEF FlushAllNext
  <2>3. CASE FlushAllNext(t) /\ todo[t] # {}
    <3>1. PICK r \in todo[t] : work' = [work EXCEPT ![t] = r] /\ Goto(t, "stop")
      BY <2>3 DEF FlushAllNext
    <3>2. r \in Conn
      BY <1>c
    <3>. QED
      BY <1>c, <3>1, <3>2
  <2>. QED
    BY <2>1, <2>2, <2>3
<1>3. TypeOK'
  BY <1>a, <1>1, <1>2 DEF TInv, TypeOK, FlushAllStart, FlushAllNext, RegistryTypes
<1>4. l \in PcValue
  BY DEF PcValue
<1>5. /\ pc'[t] = l
      /\ \A u \in ConnThread : pc'[u] = pc[u]
      /\ \A u \in FlushThread : u # t => pc'[u] = pc[u]
      /\ \A e \in Edit : pc'[Timer(e)] = pc[Timer(e)]
  BY <1>b, <1>2, <1>4, Moves, Distinct
<1>6. UNCHANGED <<room, frame, sender, buffer, grantee>>
  BY DEF FlushAllStart, FlushAllNext
<1>7. \A u \in FlushThread : pc'[u] \in {"stop", "encode", "save"} => work'[u] # None
  <2>. TAKE u \in FlushThread
  <2>1. CASE u = t
    BY <1>2, <1>5, <2>1, ConnAssumption
  <2>2. CASE u # t
    BY <1>2, <1>5, <2>2 DEF TInv, LocalsAgree
  <2>. QED
    BY <2>1, <2>2
<1>8. LocalsAgree'
  BY <1>5, <1>6, <1>7 DEF TInv, LocalsAgree
<1>. QED
  BY <1>3, <1>8

------------------------------------------------------------------------------
(* The type invariant                                                        *)

LEMMA TInvInit == Init => TInv
<1>. SUFFICES ASSUME Init PROVE TypeOK /\ LocalsAgree
  BY RInvInit DEF TInv
<1>1. TypeOK
  <2>1. buffer \in [Conn -> Seq(Frame)]
    BY DEF Init
  <2>. QED
    BY <2>1 DEF Init, TypeOK, PcValue
<1>2. LocalsAgree
  <2>1. \A t \in Thread : pc[t] = "idle" /\ frame[t] = None
    BY DEF Init
  <2>2. /\ \A t \in ConnThread : t \in Thread
        /\ \A t \in FlushThread : t \in Thread
        /\ \A e \in Edit : Timer(e) \in Thread
    BY ThreadFacts DEF FlushThread, Thread, Timer
  <2>3. \A c \in Conn : DOMAIN buffer[c] = {}
    BY DEF Init
  <2>. QED
    BY <2>1, <2>2, <2>3, EditAssumption DEF LocalsAgree, InRoom
<1>. QED
  BY <1>1, <1>2

LEMMA TInvStep == TInv /\ [Next]_vars => TInv'
<1>. SUFFICES ASSUME TInv, [Next]_vars PROVE TypeOK' /\ LocalsAgree'
  BY RInvStep DEF TInv
<1>0. RInv'
  BY RInvStep DEF TInv
<1>1. CASE \E c \in Conn : \/ \E n \in Name : Connect(c, n)
                          \/ SocketFails(c) \/ OnAuthFrame(c) \/ OnClose(c)
                          \/ ReaperFires(c) \/ ReaperRejects(c)
  BY <1>0, <1>1, ListenerTypes
<1>2. CASE \E c \in Conn : AdmitStep(c)
  BY <1>0, <1>2, AuthorizeTypes, LoadTypes, AdmittedTypes, ReplayTypes DEF AdmitStep
<1>3. CASE \E c \in Conn : \E f \in Frame : OnMessage(c, f)
  BY <1>0, <1>3, OnMessageTypes
<1>4. CASE \E t \in ConnThread : ConnStep(t)
  BY <1>0, <1>4, ApplyTypes, ArmSaveTypes, BroadcastTypes, RemoveTypes DEF ConnStep
<1>5. CASE \E t \in Thread : SaveStep(t)
  BY <1>0, <1>5, SaveStepTypes
<1>6. CASE \E e \in Edit : TimerFires(e) \/ TimerClears(e)
  BY <1>0, <1>6, TimerTypes
<1>7. CASE \E t \in FlushThread : FlushAllStart(t) \/ FlushAllNext(t)
  BY <1>0, <1>7, FlushAllTypes
<1>8. CASE UNCHANGED vars
  BY <1>8 DEF vars, connVars, socketVars, placeVars, inputVars, roomVars, memberVars,
              docVars, localVars, sendVars, flushVars, history, TInv, TypeOK, LocalsAgree
<1>. QED
  BY <1>1, <1>2, <1>3, <1>4, <1>5, <1>6, <1>7, <1>8 DEF Next

\* Every variable keeps its type in every state, for any instance: no thread
\* reaches a step that uses a room, an edit or a seed grant without one.
THEOREM TypeCorrect == Spec => []TypeOK
<1>1. TInv => TypeOK
  BY DEF TInv
<1>. QED
  BY <1>1, TInvInit, TInvStep, PTL DEF Spec

------------------------------------------------------------------------------
(* What a step may do to the two threads of a connection                     *)

\* handle after its first lock, and dropSocket with the flush after it.
BodyEdge(t) ==
    \/ pc[t] = "apply"   /\ pc'[t] \in {"arm", Home(t)}
    \/ pc[t] = "arm"     /\ pc'[t] = "peers"
    \/ pc[t] = "peers"   /\ pc'[t] = "send"
    \/ pc[t] = "send"    /\ pc'[t] = Home(t)
    \/ pc[t] = "remove"  /\ pc'[t] \in {"regrant", "stop", "done"} /\ Remove(t)
    \/ pc[t] = "regrant" /\ pc'[t] = "done"
    \/ pc[t] = "stop"    /\ pc'[t] = "encode"
    \/ pc[t] = "encode"  /\ pc'[t] = "save"
    \/ pc[t] = "save"    /\ pc'[t] = "forget"
    \/ pc[t] = "forget"  /\ pc'[t] = "done"

AdmitEdge(c) ==
    \/ pc'[Admit(c)] = pc[Admit(c)]
    \/ pc[Admit(c)] = "idle" /\ pc'[Admit(c)] = "authorize" /\ pc'[Read(c)] = "read"
    \/ pc[Admit(c)] = "authorize" /\ pc'[Admit(c)] \in {"lookup", "done"}
    \/ pc[Admit(c)] = "lookup"    /\ pc'[Admit(c)] \in {"load", "assign", "done"}
    \/ pc[Admit(c)] = "load"      /\ pc'[Admit(c)] \in {"install", "done"}
    \/ pc[Admit(c)] = "install"   /\ pc'[Admit(c)] \in {"assign", "done"}
    \/ pc[Admit(c)] = "assign"    /\ pc'[Admit(c)] = "register"
    \/ pc[Admit(c)] = "register"  /\ pc'[Admit(c)] = "check" /\ Register(c)
    \/ pc[Admit(c)] = "check"     /\ pc'[Admit(c)] = IF isOpen[c] THEN "grant" ELSE "remove"
    \/ pc[Admit(c)] = "grant"     /\ pc'[Admit(c)] = "announce" /\ DecideGrant(c)
    \/ pc[Admit(c)] = "announce"  /\ pc'[Admit(c)] = "open"
    \/ pc[Admit(c)] = "open"      /\ pc'[Admit(c)] \in {"replay", "done"}
    \/ pc[Admit(c)] = "replay"    /\ pc'[Admit(c)] \in {"apply", "peers", "done"}
    \/ BodyEdge(Admit(c))

ReadEdge(c) ==
    \/ pc'[Read(c)] = pc[Read(c)]
    \/ pc[Read(c)] = "idle" /\ pc'[Read(c)] = "read"
    \/ /\ pc[Read(c)] = "read"
       /\ AuthRequired => pc'[Admit(c)] \in {"idle", "done"}
       /\ \/ pc'[Read(c)] \in {"apply", "peers"}
          \/ ~isOpen[c] /\ pc'[Read(c)] = IF room[c] = None THEN "done" ELSE "remove"
    \/ BodyEdge(Read(c))

Edges == \A c \in Conn : AdmitEdge(c) /\ ReadEdge(c)

\* A step moves one thread of a connection at most.
LEMMA OneMoves ==
    ASSUME NEW t, \A u \in ConnThread : u # t => pc'[u] = pc[u],
           \A c \in Conn : (t = Admit(c) => AdmitEdge(c)) /\ (t = Read(c) => ReadEdge(c))
    PROVE  Edges
BY Distinct DEF Edges, AdmitEdge, ReadEdge

LEMMA ListenerEdges ==
    ASSUME TInv, NEW c \in Conn,
           \/ \E n \in Name : Connect(c, n)
           \/ SocketFails(c) \/ OnAuthFrame(c) \/ OnClose(c)
           \/ ReaperFires(c) \/ ReaperRejects(c)
    PROVE  Edges
<1>a. /\ Admit(c) \in Thread /\ Read(c) \in Thread /\ Admit(c) # Read(c)
      /\ \A d \in Conn : (Admit(d) = Admit(c) => d = c) /\ (Read(d) = Read(c) => d = c)
      /\ \A d \in Conn : Admit(d) # Read(c) /\ Admit(c) # Read(d)
  BY ThreadFacts
<1>b. pc \in [Thread -> PcValue]
  BY DEF TInv, TypeOK
<1>1. CASE \E n \in Name : Connect(c, n)
  <2>1. /\ pc[Admit(c)] = "idle" /\ pc[Read(c)] = "idle"
        /\ pc'[Admit(c)] \in {"idle", "authorize"} /\ pc'[Read(c)] = "read"
        /\ \A d \in Conn : d # c => pc'[Admit(d)] = pc[Admit(d)] /\ pc'[Read(d)] = pc[Read(d)]
    BY <1>1, <1>a, <1>b, ThreadFacts DEF Connect, TInv, RInv, RegistryInv, AdmissionsAgree
  <2>. QED
    BY <2>1 DEF Edges, AdmitEdge, ReadEdge
<1>2. CASE SocketFails(c) \/ ReaperFires(c) \/ ReaperRejects(c)
  BY <1>2 DEF SocketFails, ReaperFires, ReaperRejects, Edges, AdmitEdge, ReadEdge
<1>3. CASE OnAuthFrame(c)
  <2>1. /\ pc[Admit(c)] = "idle" /\ pc[Read(c)] = "read"
        /\ pc' = [pc EXCEPT ![Admit(c)] = "authorize"]
    BY <1>3 DEF OnAuthFrame, Goto, Reading, TInv, RInv, RegistryInv, AdmissionsAgree, Unplaced
  <2>2. AdmitEdge(c)
    BY <2>1, <1>a, <1>b DEF AdmitEdge
  <2>3. \A u \in ConnThread : u # Admit(c) => pc'[u] = pc[u]
    BY <2>1, <1>b, ThreadFacts
  <2>. QED
    BY <2>2, <2>3, <1>a, OneMoves
<1>4. CASE OnClose(c)
  <2>1. /\ pc[Read(c)] = "read" /\ ~isOpen[c]
        /\ AuthRequired => pc[Admit(c)] \in {"idle", "done"}
        /\ pc' = [pc EXCEPT ![Read(c)] = IF room[c] = None THEN "done" ELSE "remove"]
    BY <1>4 DEF OnClose, Goto, Reading
  <2>2. ReadEdge(c)
    BY <2>1, <1>a, <1>b DEF ReadEdge
  <2>3. \A u \in ConnThread : u # Read(c) => pc'[u] = pc[u]
    BY <2>1, <1>b, ThreadFacts
  <2>. QED
    BY <2>2, <2>3, <1>a, OneMoves
<1>. QED
  BY <1>1, <1>2, <1>3, <1>4

LEMMA AdmitEdges ==
    ASSUME TInv, NEW c \in Conn, AdmitStep(c)
    PROVE  Edges
<1>a. /\ Admit(c) \in Thread
      /\ \A d \in Conn : (Admit(d) = Admit(c) => d = c) /\ Admit(c) # Read(d)
      /\ Home(Admit(c)) = "replay"
  BY ThreadFacts DEF Home, Admit
<1>b. pc \in [Thread -> PcValue]
  BY DEF TInv, TypeOK
<1>1. CASE Authorize(c)
  <2>1. PICK l \in {"lookup", "done"} : pc[Admit(c)] = "authorize" /\ Goto(Admit(c), l)
    BY <1>1 DEF Authorize
  <2>. QED
    BY <2>1, <1>a, <1>b, ThreadFacts, OneMoves DEF AdmitEdge, Goto
<1>2. CASE LoadRoomLookup(c)
  <2>1. PICK l \in {"load", "assign", "done"} : pc[Admit(c)] = "lookup" /\ Goto(Admit(c), l)
    BY <1>2 DEF LoadRoomLookup, JoinRegistered, ServerFull
  <2>. QED
    BY <2>1, <1>a, <1>b, ThreadFacts, OneMoves DEF AdmitEdge, Goto
<1>3. CASE LoadRoomLoad(c)
  <2>1. PICK l \in {"install", "done"} : pc[Admit(c)] = "load" /\ Goto(Admit(c), l)
    BY <1>3 DEF LoadRoomLoad
  <2>. QED
    BY <2>1, <1>a, <1>b, ThreadFacts, OneMoves DEF AdmitEdge, Goto
<1>4. CASE LoadRoomInstall(c)
  <2>1. PICK l \in {"assign", "done"} : pc[Admit(c)] = "install" /\ Goto(Admit(c), l)
    BY <1>4 DEF LoadRoomInstall, JoinRegistered, ServerFull
  <2>. QED
    BY <2>1, <1>a, <1>b, ThreadFacts, OneMoves DEF AdmitEdge, Goto
<1>5. CASE AssignRoom(c) \/ Register(c) \/ CheckOpen(c) \/ DecideGrant(c) \/ Announce(c)
  <2>1. AdmitEdge(c)
    <3>1. CASE AssignRoom(c)
      BY <3>1, <1>a, <1>b DEF AdmitEdge, AssignRoom, Goto
    <3>2. CASE Register(c)
      <4>1. pc[Admit(c)] = "register" /\ pc'[Admit(c)] = "check"
        BY <3>2, <1>a, <1>b DEF Register, Goto
      <4>. QED
        BY <3>2, <4>1 DEF AdmitEdge
    <3>3. CASE CheckOpen(c)
      BY <3>3, <1>a, <1>b DEF AdmitEdge, CheckOpen, AfterCheck, Goto
    <3>4. CASE DecideGrant(c)
      <4>1. pc[Admit(c)] = "grant" /\ pc'[Admit(c)] = "announce"
        BY <3>4, <1>a, <1>b DEF DecideGrant, Goto
      <4>. QED
        BY <3>4, <4>1 DEF AdmitEdge
    <3>5. CASE Announce(c)
      BY <3>5, <1>a, <1>b DEF AdmitEdge, Announce, Goto
    <3>. QED
      BY <1>5, <3>1, <3>2, <3>3, <3>4, <3>5
  <2>2. PICK l : Goto(Admit(c), l)
    BY <1>5 DEF AssignRoom, Register, CheckOpen, DecideGrant, Announce
  <2>. QED
    BY <2>1, <2>2, <1>a, <1>b, ThreadFacts, OneMoves DEF Goto
<1>6. CASE OpenPhase(c)
  <2>1. PICK l \in {"replay", "done"} : pc[Admit(c)] = "open" /\ Goto(Admit(c), l)
    BY <1>6 DEF OpenPhase
  <2>. QED
    BY <2>1, <1>a, <1>b, ThreadFacts, OneMoves DEF AdmitEdge, Goto
<1>7. CASE Replay(c)
  <2>1. PICK l \in {"replay", "apply", "peers", "done"} :
           pc[Admit(c)] = "replay" /\ Goto(Admit(c), l)
    BY <1>7, <1>a DEF Replay, Dispatch
  <2>2. AdmitEdge(c)
    BY <2>1, <1>a, <1>b DEF AdmitEdge, Goto
  <2>. QED
    BY <2>1, <2>2, <1>a, <1>b, ThreadFacts, OneMoves DEF Goto
<1>. QED
  BY <1>1, <1>2, <1>3, <1>4, <1>5, <1>6, <1>7 DEF AdmitStep

LEMMA OnMessageEdges ==
    ASSUME TInv, NEW c \in Conn, NEW f \in Frame, OnMessage(c, f)
    PROVE  Edges
<1>a. /\ Read(c) \in Thread
      /\ \A d \in Conn : (Read(d) = Read(c) => d = c) /\ Admit(d) # Read(c)
      /\ Home(Read(c)) = "read"
  BY ThreadFacts DEF Home, Read
<1>b. pc \in [Thread -> PcValue]
  BY DEF TInv, TypeOK
<1>1. CASE UNCHANGED pc
  BY <1>1 DEF Edges, AdmitEdge, ReadEdge
<1>2. CASE Dispatch(Read(c), f)
  <2>1. PICK l \in {"read", "apply", "peers"} : Goto(Read(c), l)
    BY <1>2, <1>a DEF Dispatch
  <2>2. pc[Read(c)] = "read" /\ (AuthRequired => pc[Admit(c)] \in {"idle", "done"})
    BY DEF OnMessage, Reading
  <2>3. ReadEdge(c)
    BY <2>1, <2>2, <1>a, <1>b DEF ReadEdge, Goto
  <2>. QED
    BY <2>1, <2>3, <1>a, <1>b, ThreadFacts, OneMoves DEF Goto
<1>. QED
  BY <1>1, <1>2 DEF OnMessage

\* A step of handle, dropSocket or flush on a connection's thread.
LEMMA BodyEdges ==
    ASSUME TInv, NEW t \in Thread, \A u \in ConnThread : u # t => pc'[u] = pc[u],
           t \in ConnThread => pc'[t] = pc[t] \/ BodyEdge(t)
    PROVE  Edges
BY Distinct, OneMoves DEF AdmitEdge, ReadEdge

LEMMA ConnStepEdges ==
    ASSUME TInv, NEW t \in ConnThread, ConnStep(t)
    PROVE  Edges
<1>a. t \in Thread /\ pc \in [Thread -> PcValue] /\ \A u \in ConnThread : u \in Thread
  BY ThreadFacts DEF TInv, TypeOK
<1>1. CASE Apply(t)
  <2>1. PICK l \in {"arm", Home(t)} : pc[t] = "apply" /\ Goto(t, l)
    BY <1>1 DEF Apply
  <2>. QED
    BY <2>1, <1>a, BodyEdges DEF BodyEdge, Goto
<1>2. CASE ArmSave(t)
  <2>1. /\ pc[t] = "arm"
        /\ pc' = [StopTimer(Inst(t), pc) EXCEPT ![t] = "peers", ![Timer(frame[t])] = "armed"]
    BY <1>2 DEF ArmSave, Armed
  <2>2. \A u \in ConnThread : u # Timer(frame[t])
    BY DEF ConnThread, Timer
  <2>3. /\ pc'[t] = "peers"
        /\ \A u \in ConnThread : u # t => pc'[u] = pc[u]
    BY <1>a, <2>1, <2>2, StopTimerFacts DEF TInv, RInv
  <2>. QED
    BY <2>1, <2>3, <1>a, BodyEdges DEF BodyEdge
<1>3. CASE Snapshot(t)
  BY <1>3, <1>a, BodyEdges DEF Snapshot, BodyEdge, Goto
<1>4. CASE SendPeer(t)
  <2>1. pc[t] = "send" /\ (UNCHANGED pc \/ Goto(t, Home(t)))
    BY <1>4 DEF SendPeer
  <2>. QED
    BY <2>1, <1>a, BodyEdges DEF BodyEdge, Goto
<1>5. CASE Remove(t)
  <2>1. PICK l \in {"regrant", "stop", "done"} : pc[t] = "remove" /\ Goto(t, l)
    BY <1>5 DEF Remove
  <2>. QED
    BY <1>5, <2>1, <1>a, BodyEdges DEF BodyEdge, Goto
<1>6. CASE Regrant(t) \/ Forget(t)
  <2>1. pc[t] \in {"regrant", "forget"} /\ Goto(t, "done")
    BY <1>6 DEF Regrant, Forget
  <2>. QED
    BY <2>1, <1>a, BodyEdges DEF BodyEdge, Goto
<1>. QED
  BY <1>1, <1>2, <1>3, <1>4, <1>5, <1>6 DEF ConnStep

LEMMA SaveStepEdges ==
    ASSUME TInv, NEW t \in Thread, SaveStep(t)
    PROVE  Edges
<1>a. pc \in [Thread -> PcValue] /\ \A u \in ConnThread : u \in Thread
  BY ThreadFacts DEF TInv, TypeOK
<1>1. CASE FlushStop(t)
  <2>1. pc[t] = "stop" /\ pc' = [StopTimer(Inst(t), pc) EXCEPT ![t] = "encode"]
    BY <1>1 DEF FlushStop
  <2>2. /\ pc'[t] = "encode"
        /\ \A u \in ConnThread : u # t => pc'[u] = pc[u]
    BY <1>a, <2>1, StopTimerFacts DEF TInv, RInv
  <2>. QED
    BY <2>1, <2>2, BodyEdges DEF BodyEdge
<1>2. CASE Encode(t)
  BY <1>2, <1>a, BodyEdges DEF Encode, BodyEdge, Goto
<1>3. CASE Save(t)
  <2>1. PICK l : pc[t] = "save" /\ Goto(t, l) /\ (t \in ConnThread => l = "forget")
    BY <1>3 DEF Save, ConnThread
  <2>. QED
    BY <2>1, <1>a, BodyEdges DEF BodyEdge, Goto
<1>. QED
  BY <1>1, <1>2, <1>3 DEF SaveStep

\* Every step moves the threads of the connections along these edges.
LEMMA StepEdges ==
    ASSUME TInv, [Next]_vars
    PROVE  Edges
<1>1. CASE \E c \in Conn : \/ \E n \in Name : Connect(c, n)
                          \/ SocketFails(c) \/ OnAuthFrame(c) \/ OnClose(c)
                          \/ ReaperFires(c) \/ ReaperRejects(c)
  BY <1>1, ListenerEdges
<1>2. CASE \E c \in Conn : AdmitStep(c)
  BY <1>2, AdmitEdges
<1>3. CASE \E c \in Conn : \E f \in Frame : OnMessage(c, f)
  BY <1>3, OnMessageEdges
<1>4. CASE \E t \in ConnThread : ConnStep(t)
  BY <1>4, ConnStepEdges
<1>5. CASE \E t \in Thread : SaveStep(t)
  BY <1>5, SaveStepEdges
<1>6. CASE \E e \in Edit : TimerFires(e) \/ TimerClears(e)
  <2>1. \A u \in ConnThread : pc'[u] = pc[u]
    BY <1>6, Distinct, ThreadFacts DEF TimerFires, TimerClears, Goto, TInv, TypeOK
  <2>. QED
    BY <2>1, Distinct DEF Edges, AdmitEdge, ReadEdge
<1>7. CASE \E t \in FlushThread : FlushAllStart(t) \/ FlushAllNext(t)
  <2>1. \A u \in ConnThread : pc'[u] = pc[u]
    BY <1>7, Distinct, ThreadFacts DEF FlushAllStart, FlushAllNext, Goto, TInv, TypeOK
  <2>. QED
    BY <2>1, Distinct DEF Edges, AdmitEdge, ReadEdge
<1>8. CASE UNCHANGED vars
  BY <1>8 DEF vars, Edges, AdmitEdge, ReadEdge
<1>. QED
  BY <1>1, <1>2, <1>3, <1>4, <1>5, <1>6, <1>7, <1>8 DEF Next

------------------------------------------------------------------------------
(* What a step may do to what the threads share                              *)

\* A socket that has died never opens again.
LEMMA OpenShrinks ==
    ASSUME TInv, [Next]_vars, NEW c \in Conn, isOpen'[c]
    PROVE  isOpen[c] \/ phase[c] = "absent"
<1>. USE DEF connVars, socketVars
<1>0. isOpen \in [Conn -> BOOLEAN]
  BY DEF TInv, TypeOK
<1>1. CASE UNCHANGED isOpen
  BY <1>1
<1>2. CASE \E d \in Conn, n \in Name : Connect(d, n)
  BY <1>0, <1>2 DEF Connect
<1>3. CASE \E d \in Conn : SocketFails(d) \/ ReaperRejects(d) \/ Authorize(d) \/ LoadRoomLookup(d)
                           \/ LoadRoomLoad(d) \/ LoadRoomInstall(d)
  BY <1>0, <1>3 DEF SocketFails, ReaperRejects, Refuse, Authorize, LoadRoomLookup, LoadRoomLoad,
                   LoadRoomInstall, JoinRegistered, ServerFull
<1>4. CASE \E d \in Conn : Replay(d) \/ \E f \in Frame : OnMessage(d, f)
  BY <1>0, <1>4 DEF Replay, OnMessage, Dispatch, Refuse
<1>5. CASE \E d \in Conn : \/ OnAuthFrame(d) \/ OnClose(d) \/ ReaperFires(d)
                          \/ AssignRoom(d) \/ Register(d) \/ CheckOpen(d) \/ DecideGrant(d)
                          \/ Announce(d) \/ OpenPhase(d)
  BY <1>5, <1>1 DEF OnAuthFrame, OnClose, ReaperFires, AssignRoom, Register, CheckOpen,
              DecideGrant, Announce, OpenPhase
<1>6. CASE \E t \in Thread : ConnStep(t) \/ SaveStep(t)
  BY <1>6, <1>1 DEF ConnStep, SaveStep, Apply, ArmSave, Snapshot, SendPeer, Remove, Regrant, Forget,
              FlushStop, Encode, Save
<1>7. CASE \/ \E e \in Edit : TimerFires(e) \/ TimerClears(e)
           \/ \E t \in FlushThread : FlushAllStart(t) \/ FlushAllNext(t)
  BY <1>7, <1>1 DEF TimerFires, TimerClears, FlushAllStart, FlushAllNext
<1>8. CASE UNCHANGED vars
  BY <1>8, <1>1 DEF vars
<1>9. \A t \in ConnThread : t \in Thread
  BY ThreadFacts
<1>. QED
  BY <1>2, <1>3, <1>4, <1>5, <1>6, <1>7, <1>8, <1>9 DEF Next, AdmitStep

\* A connection is given its room once, by its own admission.
LEMMA RoomMoves ==
    ASSUME TInv, [Next]_vars, NEW c \in Conn
    PROVE  room'[c] = room[c] \/ (pc[Admit(c)] = "assign" /\ room[c] = None)
<1>. USE DEF connVars, placeVars
<1>1. CASE UNCHANGED room
  BY <1>1
<1>2. CASE \E d \in Conn : AssignRoom(d)
  BY <1>2 DEF AssignRoom, TInv, RInv, RegistryInv, AdmissionsAgree, TypeOK
<1>3. CASE \E d \in Conn : \/ \E n \in Name : Connect(d, n)
                          \/ SocketFails(d) \/ OnAuthFrame(d) \/ OnClose(d) \/ ReaperFires(d)
                          \/ ReaperRejects(d) \/ \E f \in Frame : OnMessage(d, f)
  BY <1>3, <1>1 DEF Connect, SocketFails, OnAuthFrame, OnClose, ReaperFires, ReaperRejects, OnMessage
<1>4. CASE \E d \in Conn : AdmitStep(d) /\ ~AssignRoom(d)
  BY <1>4, <1>1 DEF AdmitStep, Authorize, LoadRoomLookup, LoadRoomLoad, LoadRoomInstall, Register,
              CheckOpen, DecideGrant, Announce, OpenPhase, Replay
<1>5. CASE \E t \in Thread : ConnStep(t) \/ SaveStep(t)
  BY <1>5, <1>1 DEF ConnStep, SaveStep, Apply, ArmSave, Snapshot, SendPeer, Remove, Regrant, Forget,
              FlushStop, Encode, Save
<1>6. CASE \/ \E e \in Edit : TimerFires(e) \/ TimerClears(e)
           \/ \E t \in FlushThread : FlushAllStart(t) \/ FlushAllNext(t)
  BY <1>6, <1>1 DEF TimerFires, TimerClears, FlushAllStart, FlushAllNext
<1>7. CASE UNCHANGED vars
  BY <1>7, <1>1 DEF vars
<1>8. \A t \in ConnThread : t \in Thread
  BY ThreadFacts
<1>. QED
  BY <1>2, <1>3, <1>4, <1>5, <1>6, <1>7, <1>8 DEF Next

\* Register puts its connection in the room; dropSocket takes its out of it.
LEMMA SocketsMove ==
    ASSUME TInv, [Next]_vars
    PROVE  \/ UNCHANGED sockets
           \/ \E c \in Conn : /\ pc[Admit(c)] = "register" /\ pc'[Admit(c)] = "check"
                              /\ room[c] \in Conn
                              /\ sockets' = [sockets EXCEPT ![room[c]] = @ \cup {c}]
           \/ \E t \in ConnThread : /\ Remove(t) /\ room[t[2]] \in Conn
                                    /\ sockets' = [sockets EXCEPT ![room[t[2]]] = @ \ {t[2]}]
<1>. USE DEF connVars, roomVars, memberVars
<1>1. CASE \E c \in Conn : Register(c)
  <2>1. PICK c \in Conn : Register(c)
    BY <1>1
  <2>2. target[c] = room[c] /\ room[c] \in Conn /\ pc'[Admit(c)] = "check"
    BY <2>1, ThreadFacts DEF Register, Goto, TInv, RInv, RegistryInv, AdmissionsAgree, TypeOK
  <2>. QED
    BY <2>1, <2>2 DEF Register
<1>2. CASE \E t \in ConnThread : Remove(t)
  <2>1. PICK t \in ConnThread : Remove(t)
    BY <1>2
  <2>2. Inst(t) = room[t[2]] /\ room[t[2]] \in Conn
    BY <2>1, InstFacts DEF Remove, InRoom
  <2>. QED
    BY <2>1, <2>2 DEF Remove
<1>3. CASE \E d \in Conn : \/ \E n \in Name : Connect(d, n)
                          \/ SocketFails(d) \/ OnAuthFrame(d) \/ OnClose(d) \/ ReaperFires(d)
                          \/ ReaperRejects(d) \/ \E f \in Frame : OnMessage(d, f)
  BY <1>3 DEF Connect, SocketFails, OnAuthFrame, OnClose, ReaperFires, ReaperRejects, OnMessage
<1>4. CASE \E d \in Conn : AdmitStep(d) /\ ~Register(d)
  BY <1>4 DEF AdmitStep, Authorize, LoadRoomLookup, LoadRoomLoad, LoadRoomInstall, AssignRoom,
              CheckOpen, DecideGrant, Announce, OpenPhase, Replay
<1>5. CASE \E t \in Thread : (ConnStep(t) /\ ~Remove(t)) \/ SaveStep(t)
  BY <1>5 DEF ConnStep, SaveStep, Apply, ArmSave, Snapshot, SendPeer, Regrant, Forget,
              FlushStop, Encode, Save
<1>6. CASE \/ \E e \in Edit : TimerFires(e) \/ TimerClears(e)
           \/ \E t \in FlushThread : FlushAllStart(t) \/ FlushAllNext(t)
  BY <1>6 DEF TimerFires, TimerClears, FlushAllStart, FlushAllNext
<1>7. CASE UNCHANGED vars
  BY <1>7 DEF vars
<1>8. \A t \in ConnThread : t \in Thread
  BY ThreadFacts
<1>. QED
  BY <1>1, <1>2, <1>3, <1>4, <1>5, <1>6, <1>7, <1>8 DEF Next

\* A connection becomes a member of its room by registering in it.
LEMMA NewMember ==
    ASSUME TInv, [Next]_vars, NEW c \in Conn, NEW r \in Conn, c \in sockets'[r], c \notin sockets[r]
    PROVE  pc[Admit(c)] = "register" /\ pc'[Admit(c)] = "check" /\ room[c] = r
<1>1. sockets \in [Conn -> SUBSET Conn]
  BY DEF TInv, TypeOK
<1>2. CASE UNCHANGED sockets
  BY <1>2
<1>3. CASE \E t \in ConnThread : sockets' = [sockets EXCEPT ![room[t[2]]] = @ \ {t[2]}]
  BY <1>1, <1>3
<1>4. CASE \E d \in Conn : /\ pc[Admit(d)] = "register" /\ pc'[Admit(d)] = "check"
                            /\ sockets' = [sockets EXCEPT ![room[d]] = @ \cup {d}]
  BY <1>1, <1>4
<1>. QED
  BY <1>2, <1>3, <1>4, SocketsMove

\* A document with members only grows, so a room that is empty has been so.
LEMMA EmptyStays ==
    ASSUME TInv, [Next]_vars, NEW r \in Conn, ~Unplaced(r), docIsEmpty(r)'
    PROVE  docIsEmpty(r)
<1>. USE DEF connVars, roomVars, docVars
<1>1. CASE UNCHANGED doc
  BY <1>1 DEF docIsEmpty
<1>2. CASE \E c \in Conn : LoadRoomInstall(c)
  BY <1>2 DEF LoadRoomInstall, JoinRegistered, ServerFull, Unplaced, docIsEmpty, TInv, TypeOK
<1>3. CASE \E t \in ConnThread : Apply(t)
  <2>1. PICK t \in ConnThread : Apply(t)
    BY <1>3
  <2>2. doc[r] \subseteq doc'[r]
    <3>1. doc \in [Conn -> SUBSET Edit]
      BY DEF TInv, TypeOK
    <3>2. doc' = doc \/ doc' = [doc EXCEPT ![Inst(t)] = @ \cup {frame[t]}]
      BY <2>1 DEF Apply
    <3>. QED
      BY <3>1, <3>2
  <2>. QED
    BY <2>2 DEF docIsEmpty
<1>4. CASE \E d \in Conn : \/ \E n \in Name : Connect(d, n)
                          \/ SocketFails(d) \/ OnAuthFrame(d) \/ OnClose(d) \/ ReaperFires(d)
                          \/ ReaperRejects(d) \/ \E f \in Frame : OnMessage(d, f)
  BY <1>4, <1>1 DEF Connect, SocketFails, OnAuthFrame, OnClose, ReaperFires, ReaperRejects, OnMessage
<1>5. CASE \E d \in Conn : AdmitStep(d) /\ ~LoadRoomInstall(d)
  BY <1>5, <1>1 DEF AdmitStep, Authorize, LoadRoomLookup, JoinRegistered, ServerFull, LoadRoomLoad,
              AssignRoom, Register, CheckOpen, DecideGrant, Announce, OpenPhase, Replay
<1>6. CASE \E t \in Thread : (ConnStep(t) /\ ~Apply(t)) \/ SaveStep(t)
  BY <1>6, <1>1 DEF ConnStep, SaveStep, ArmSave, Snapshot, SendPeer, Remove, Regrant, Forget,
              FlushStop, Encode, Save
<1>7. CASE \/ \E e \in Edit : TimerFires(e) \/ TimerClears(e)
           \/ \E t \in FlushThread : FlushAllStart(t) \/ FlushAllNext(t)
  BY <1>7, <1>1 DEF TimerFires, TimerClears, FlushAllStart, FlushAllNext
<1>8. CASE UNCHANGED vars
  BY <1>8, <1>1 DEF vars
<1>9. \A t \in ConnThread : t \in Thread
  BY ThreadFacts
<1>. QED
  BY <1>2, <1>3, <1>4, <1>5, <1>6, <1>7, <1>8, <1>9 DEF Next

------------------------------------------------------------------------------
(* The invariant                                                             *)

MInv == TInv /\ MemberInv

LEMMA MInvInit == Init => MInv
<1>. SUFFICES ASSUME Init PROVE MemberInv
  BY TInvInit DEF MInv
<1>1. /\ \A c \in Conn : pc[Admit(c)] = "idle" /\ pc[Read(c)] = "idle"
      /\ \A t \in ConnThread : pc[t] = "idle"
      /\ granted = {} /\ \A r \in Conn : sockets[r] = {} /\ seeder[r] = None
  BY ThreadFacts DEF Init
<1>. QED
  BY <1>1 DEF MemberInv, TurnsTaken, MembersPlaced, LeaversGone, GrantsAgree, SeedersAreMembers,
              Leaving

LEMMA TurnsStep ==
    ASSUME MInv, [Next]_vars
    PROVE  TurnsTaken'
<1>1. Edges
  BY StepEdges DEF MInv
<1>. QED
  BY <1>1 DEF MInv, MemberInv, TurnsTaken, Edges, AdmitEdge, ReadEdge, BodyEdge, Home, Admit, Read

\* Nothing takes a connection back before its registration.
LEMMA EarlyPasses ==
    ASSUME MInv, [Next]_vars, NEW c \in Conn, ~Early(c)
    PROVE  ~Early(c)' /\ room'[c] = room[c]
<1>1. AdmitEdge(c)
  BY StepEdges DEF MInv, Edges
<1>2. ~Early(c)'
  BY <1>1 DEF Early, Unplaced, AdmitEdge, BodyEdge, Home, Admit
<1>. QED
  BY <1>2, RoomMoves DEF Early, MInv

LEMMA PlacedStep ==
    ASSUME MInv, [Next]_vars
    PROVE  MembersPlaced'
<1>. SUFFICES ASSUME NEW c \in Conn, NEW r \in Conn, c \in sockets'[r]
              PROVE  room'[c] = r /\ ~Early(c)'
  BY DEF MembersPlaced
<1>1. CASE c \in sockets[r]
  BY <1>1, EarlyPasses DEF MInv, MemberInv, MembersPlaced
<1>2. CASE c \notin sockets[r]
  <2>1. pc[Admit(c)] = "register" /\ pc'[Admit(c)] = "check" /\ room[c] = r
    BY <1>2, NewMember DEF MInv
  <2>2. room'[c] = room[c]
    BY <2>1, RoomMoves DEF MInv
  <2>. QED
    BY <2>1, <2>2 DEF Early, Unplaced
<1>. QED
  BY <1>1, <1>2

LEMMA LeaversStep ==
    ASSUME MInv, [Next]_vars
    PROVE  LeaversGone'
<1>. SUFFICES ASSUME NEW c \in Conn
              PROVE  /\ pc'[Read(c)] \in Leaving \cup {"done"} \/ pc'[Admit(c)] \in Leaving => ~isOpen'[c]
                     /\ pc'[Read(c)] \in (Leaving \ {"remove"}) \cup {"done"} =>
                           \A r \in Conn : c \in sockets'[r] => pc'[Admit(c)] \in {"check", "remove"}
  BY DEF LeaversGone
<1>0. AdmitEdge(c) /\ ReadEdge(c) /\ isOpen[c] \in BOOLEAN /\ isOpen'[c] \in BOOLEAN
  BY StepEdges, TInvStep DEF MInv, Edges, TInv, TypeOK
<1>1. phase[c] = "absent" => /\ pc[Read(c)] = "idle" /\ pc[Admit(c)] = "idle"
  BY DEF MInv, TInv, RInv, RegistryInv, AdmissionsAgree
<1>2. pc'[Read(c)] \in Leaving \cup {"done"} => ~isOpen[c] /\ phase[c] # "absent"
  BY <1>0, <1>1 DEF ReadEdge, BodyEdge, Home, Read, Leaving, MInv, MemberInv, LeaversGone
<1>3. pc'[Admit(c)] \in Leaving => ~isOpen[c] /\ phase[c] # "absent"
  BY <1>0, <1>1 DEF AdmitEdge, BodyEdge, Home, Admit, Leaving, MInv, MemberInv, LeaversGone
<1>4. ASSUME pc'[Read(c)] \in (Leaving \ {"remove"}) \cup {"done"}, NEW r \in Conn, c \in sockets'[r]
      PROVE  pc'[Admit(c)] \in {"check", "remove"}
  <2>1. CASE c \notin sockets[r]
    BY <2>1, <1>4, NewMember DEF MInv
  <2>2. CASE c \in sockets[r]
    <3>1. room[c] = r /\ r # None
      BY <2>2, ConnAssumption DEF MInv, MemberInv, MembersPlaced
    <3>2. ~isOpen[c]
      BY <1>4, <1>2 DEF Leaving
    <3>3. \A t \in {Admit(c), Read(c)} : Remove(t) => c \notin sockets'[r]
      <4>1. \A t \in {Admit(c), Read(c)} : t[2] = c /\ Inst(t) = room[c]
        BY DEF Inst, Admit, Read
      <4>. QED
        BY <3>1, <4>1 DEF Remove, MInv, TInv, TypeOK
    <3>4. pc[Read(c)] \in (Leaving \ {"remove"}) \cup {"done"}
      BY <1>0, <1>4, <3>1, <3>3 DEF ReadEdge, BodyEdge, Home, Read, Leaving
    <3>5. pc[Admit(c)] \in {"check", "remove"}
      BY <2>2, <3>4 DEF MInv, MemberInv, LeaversGone
    <3>. QED
      BY <1>0, <1>4, <3>2, <3>3, <3>5 DEF AdmitEdge, BodyEdge
  <2>. QED
    BY <2>1, <2>2
<1>. QED
  BY <1>2, <1>3, <1>4, OpenShrinks DEF MInv

------------------------------------------------------------------------------
(* The seed grant                                                            *)

\* The seeder of a room changes when a grant is decided or its holder leaves.
LEMMA SeederMoves ==
    ASSUME MInv, [Next]_vars
    PROVE  \/ UNCHANGED seeder
           \/ \E c \in Conn : DecideGrant(c) /\ target[c] = room[c] /\ room[c] \in Conn
           \/ \E t \in ConnThread : Remove(t)
<1>. USE DEF connVars, roomVars, docVars
<1>1. CASE \E c \in Conn : DecideGrant(c)
  <2>1. \A c \in Conn : DecideGrant(c) => room[c] # None
    BY Distinct DEF DecideGrant, MInv, TInv, LocalsAgree, InRoom
  <2>. QED
    BY <1>1, <2>1 DEF MInv, TInv, TypeOK, RInv, RegistryInv, NamesAgree
<1>2. CASE \E t \in ConnThread : Remove(t)
  BY <1>2
<1>3. CASE \E d \in Conn : \/ \E n \in Name : Connect(d, n)
                          \/ SocketFails(d) \/ OnAuthFrame(d) \/ OnClose(d) \/ ReaperFires(d)
                          \/ ReaperRejects(d) \/ \E f \in Frame : OnMessage(d, f)
  BY <1>3 DEF Connect, SocketFails, OnAuthFrame, OnClose, ReaperFires, ReaperRejects, OnMessage
<1>4. CASE \E d \in Conn : AdmitStep(d) /\ ~DecideGrant(d)
  BY <1>4 DEF AdmitStep, Authorize, LoadRoomLookup, LoadRoomLoad, LoadRoomInstall, AssignRoom,
              Register, CheckOpen, Announce, OpenPhase, Replay
<1>5. CASE \E t \in Thread : (ConnStep(t) /\ ~Remove(t)) \/ SaveStep(t)
  BY <1>5 DEF ConnStep, SaveStep, Apply, ArmSave, Snapshot, SendPeer, Regrant, Forget,
              FlushStop, Encode, Save
<1>6. CASE \/ \E e \in Edit : TimerFires(e) \/ TimerClears(e)
           \/ \E t \in FlushThread : FlushAllStart(t) \/ FlushAllNext(t)
  BY <1>6 DEF TimerFires, TimerClears, FlushAllStart, FlushAllNext
<1>7. CASE UNCHANGED vars
  BY <1>7 DEF vars
<1>8. \A t \in ConnThread : t \in Thread
  BY ThreadFacts
<1>. QED
  BY <1>1, <1>2, <1>3, <1>4, <1>5, <1>6, <1>7, <1>8 DEF Next

\* What dropSocket does to the seed grant of the room it works on.
LEMMA RemoveGrant ==
    ASSUME MInv, NEW t \in ConnThread, Remove(t)
    PROVE  /\ t[2] \in Conn /\ room[t[2]] \in Conn
           /\ sockets' = [sockets EXCEPT ![room[t[2]]] = @ \ {t[2]}]
           /\ \A r \in Conn : r # room[t[2]] => seeder'[r] = seeder[r]
           /\ seeder[room[t[2]]] # t[2] => seeder'[room[t[2]]] = seeder[room[t[2]]]
           /\ seeder[room[t[2]]] = t[2] =>
                 \/ seeder'[room[t[2]]] = None
                 \/ seeder'[room[t[2]]] \in sockets[room[t[2]]] \ {t[2]}
           /\ pc'[t] = "regrant" =>
                 /\ grantee'[t] = seeder'[room[t[2]]]
                 /\ grantee'[t] \in sockets[room[t[2]]] \ {t[2]}
<1>. DEFINE c == t[2]
            r == room[t[2]]
<1>1. c \in Conn /\ r \in Conn /\ Inst(t) = r
  BY ThreadFacts, InstFacts DEF Remove, InRoom, MInv
<1>2. /\ seeder \in [Conn -> Conn \cup {None}] /\ sockets \in [Conn -> SUBSET Conn]
      /\ grantee \in [Thread -> Conn \cup {None}] /\ pc \in [Thread -> PcValue] /\ t \in Thread
  BY ThreadFacts DEF MInv, TInv, TypeOK
<1>3. PICK h \in Heirs(r, c) :
         /\ seeder' = [seeder EXCEPT ![r] = h]
         /\ IF seeder[r] = c /\ h # None
            THEN grantee' = [grantee EXCEPT ![t] = h] /\ Goto(t, "regrant")
            ELSE /\ Goto(t, IF Vacant(r, sockets[r] \ {c}) THEN "stop" ELSE "done")
                 /\ UNCHANGED grantee
  BY <1>1 DEF Remove
<1>4. /\ seeder[r] # c => h = seeder[r]
      /\ seeder[r] = c => h = None \/ h \in sockets[r] \ {c}
  BY <1>3 DEF Heirs
<1>5. sockets' = [sockets EXCEPT ![r] = @ \ {c}]
  BY <1>1 DEF Remove
<1>6. /\ seeder'[r] = h
      /\ \A q \in Conn : q # r => seeder'[q] = seeder[q]
  BY <1>1, <1>2, <1>3
<1>7. pc'[t] = "regrant" => seeder[r] = c /\ h # None /\ grantee'[t] = h
  BY <1>2, <1>3 DEF Goto
<1>. QED
  BY <1>1, <1>4, <1>5, <1>6, <1>7

\* What the decision to grant the seed does.
LEMMA DecideFacts ==
    ASSUME MInv, NEW c \in Conn, DecideGrant(c), target[c] = room[c], room[c] \in Conn
    PROVE  /\ \A r \in Conn : r # room[c] => seeder'[r] = seeder[r]
           /\ seeder'[room[c]] = IF GrantDue(room[c]) THEN c ELSE seeder[room[c]]
           /\ grantee'[Admit(c)] = IF GrantDue(room[c]) THEN c ELSE None
           /\ UNCHANGED sockets
<1>1. /\ seeder \in [Conn -> Conn \cup {None}]
      /\ grantee \in [Thread -> Conn \cup {None}] /\ Admit(c) \in Thread
  BY ThreadFacts DEF MInv, TInv, TypeOK
<1>2. /\ seeder' = [seeder EXCEPT ![room[c]] = IF GrantDue(room[c]) THEN c ELSE @]
      /\ grantee' = [grantee EXCEPT ![Admit(c)] = IF GrantDue(room[c]) THEN c ELSE None]
      /\ UNCHANGED sockets
  BY DEF DecideGrant, memberVars
<1>. QED
  BY <1>1, <1>2

\* A grant stays with its holder while that holder is in the room.
LEMMA SeederKept ==
    ASSUME MInv, [Next]_vars, NEW h \in Conn, NEW r \in Conn, seeder[r] = h, h \in sockets'[r]
    PROVE  seeder'[r] = h
<1>1. CASE UNCHANGED seeder
  BY <1>1
<1>2. CASE \E c \in Conn : DecideGrant(c) /\ target[c] = room[c] /\ room[c] \in Conn
  BY <1>2, DecideFacts, ConnAssumption DEF GrantDue
<1>3. CASE \E t \in ConnThread : Remove(t)
  <2>1. PICK t \in ConnThread : Remove(t)
    BY <1>3
  <2>. DEFINE q == room[t[2]]
  <2>2. /\ q \in Conn /\ sockets' = [sockets EXCEPT ![q] = @ \ {t[2]}]
        /\ r # q => seeder'[r] = seeder[r]
        /\ seeder[q] # t[2] => seeder'[q] = seeder[q]
    BY <2>1, RemoveGrant
  <2>3. r = q => h # t[2]
    BY <2>2 DEF MInv, TInv, TypeOK
  <2>. QED
    BY <2>2, <2>3
<1>. QED
  BY <1>1, <1>2, <1>3, SeederMoves

LEMMA HoldsGrantStays ==
    ASSUME MInv, [Next]_vars, NEW h \in Conn, ~Early(h), HoldsGrant(h)
    PROVE  ~Early(h)' /\ HoldsGrant(h)'
<1>1. ASSUME NEW r \in Conn, h \in sockets'[r], docIsEmpty(r)'
      PROVE  seeder'[r] = h
  <2>1. h \in sockets[r]
    BY <1>1, NewMember DEF MInv, Early
  <2>2. ~Unplaced(r)
    BY <2>1 DEF MInv, TInv, RInv, RegistryInv, NoEarlyRoom
  <2>3. seeder[r] = h
    BY <1>1, <2>1, <2>2, EmptyStays DEF HoldsGrant, MInv
  <2>. QED
    BY <1>1, <2>3, SeederKept
<1>. QED
  BY <1>1, EarlyPasses DEF HoldsGrant

\* Only those a thread was about to send the grant to are sent it.
LEMMA GrantedMoves ==
    ASSUME MInv, [Next]_vars, NEW h \in granted', h \notin granted
    PROVE  \/ \E c \in Conn : pc[Admit(c)] = "announce" /\ h = grantee[Admit(c)] /\ h # None
           \/ \E t \in ConnThread : pc[t] = "regrant" /\ h = grantee[t]
<1>. USE DEF history
<1>1. CASE \E c \in Conn : Announce(c)
  BY <1>1 DEF Announce
<1>2. CASE \E t \in ConnThread : Regrant(t)
  BY <1>2 DEF Regrant
<1>3. CASE \E t \in ConnThread : Remove(t)
  BY <1>3 DEF Remove
<1>4. CASE \E d \in Conn : \/ \E n \in Name : Connect(d, n)
                          \/ SocketFails(d) \/ OnAuthFrame(d) \/ OnClose(d) \/ ReaperFires(d)
                          \/ ReaperRejects(d) \/ \E f \in Frame : OnMessage(d, f)
  BY <1>4 DEF Connect, SocketFails, OnAuthFrame, OnClose, ReaperFires, ReaperRejects, OnMessage
<1>5. CASE \E d \in Conn : AdmitStep(d) /\ ~Announce(d)
  BY <1>5 DEF AdmitStep, Authorize, LoadRoomLookup, LoadRoomLoad, LoadRoomInstall, AssignRoom,
              Register, CheckOpen, DecideGrant, OpenPhase, Replay
<1>6. CASE \E t \in Thread : (ConnStep(t) /\ ~Remove(t) /\ ~Regrant(t)) \/ SaveStep(t)
  BY <1>6 DEF ConnStep, SaveStep, Apply, ArmSave, Snapshot, SendPeer, Forget, FlushStop, Encode, Save
<1>7. CASE \/ \E e \in Edit : TimerFires(e) \/ TimerClears(e)
           \/ \E t \in FlushThread : FlushAllStart(t) \/ FlushAllNext(t)
  BY <1>7 DEF TimerFires, TimerClears, FlushAllStart, FlushAllNext
<1>8. CASE UNCHANGED vars
  BY <1>8 DEF vars
<1>9. \A t \in ConnThread : t \in Thread
  BY ThreadFacts
<1>. QED
  BY <1>1, <1>2, <1>3, <1>4, <1>5, <1>6, <1>7, <1>8, <1>9 DEF Next

\* A thread that does not move keeps the connection it is to send the grant to.
LEMMA GranteeStays ==
    ASSUME MInv, [Next]_vars, NEW t \in ConnThread, pc'[t] = pc[t], pc[t] \in {"announce", "regrant"}
    PROVE  grantee'[t] = grantee[t]
<1>. USE DEF sendVars, localVars
<1>0. /\ grantee \in [Thread -> Conn \cup {None}] /\ pc \in [Thread -> PcValue]
      /\ \A u \in ConnThread : u \in Thread
      /\ \A c \in Conn : Admit(c) \in Thread
  BY ThreadFacts DEF MInv, TInv, TypeOK
<1>1. CASE UNCHANGED grantee
  BY <1>1
<1>2. CASE \E c \in Conn : DecideGrant(c) \/ Announce(c)
  <2>1. PICK c \in Conn : DecideGrant(c) \/ Announce(c)
    BY <1>2
  <2>2. t # Admit(c)
    BY <2>1, <1>0 DEF DecideGrant, Announce, Goto
  <2>. QED
    BY <2>1, <2>2, <1>0 DEF DecideGrant, Announce
<1>3. CASE \E u \in ConnThread : Remove(u) \/ Regrant(u)
  <2>1. PICK u \in ConnThread : Remove(u) \/ Regrant(u)
    BY <1>3
  <2>2. pc'[u] # pc[u]
    <3>1. PICK l \in {"regrant", "stop", "done"} : Goto(u, l) /\ pc[u] # l
      BY <2>1 DEF Remove, Regrant
    <3>. QED
      BY <3>1, <1>0 DEF Goto
  <2>3. PICK h : grantee' = grantee \/ grantee' = [grantee EXCEPT ![u] = h]
    BY <2>1 DEF Remove, Regrant
  <2>. QED
    BY <2>2, <2>3, <1>0
<1>4. CASE \E d \in Conn : \/ \E n \in Name : Connect(d, n)
                          \/ SocketFails(d) \/ OnAuthFrame(d) \/ OnClose(d) \/ ReaperFires(d)
                          \/ ReaperRejects(d) \/ \E f \in Frame : OnMessage(d, f)
  BY <1>4, <1>1 DEF Connect, SocketFails, OnAuthFrame, OnClose, ReaperFires, ReaperRejects, OnMessage
<1>5. CASE \E d \in Conn : AdmitStep(d) /\ ~DecideGrant(d) /\ ~Announce(d)
  BY <1>5, <1>1 DEF AdmitStep, Authorize, LoadRoomLookup, LoadRoomLoad, LoadRoomInstall, AssignRoom,
              Register, CheckOpen, OpenPhase, Replay
<1>6. CASE \E u \in Thread : (ConnStep(u) /\ ~Remove(u) /\ ~Regrant(u)) \/ SaveStep(u)
  BY <1>6, <1>1 DEF ConnStep, SaveStep, Apply, ArmSave, Snapshot, SendPeer, Forget, FlushStop, Encode,
              Save
<1>7. CASE \/ \E e \in Edit : TimerFires(e) \/ TimerClears(e)
           \/ \E u \in FlushThread : FlushAllStart(u) \/ FlushAllNext(u)
  BY <1>7, <1>1 DEF TimerFires, TimerClears, FlushAllStart, FlushAllNext
<1>8. CASE UNCHANGED vars
  BY <1>8, <1>1 DEF vars
<1>. QED
  BY <1>0, <1>2, <1>3, <1>4, <1>5, <1>6, <1>7, <1>8 DEF Next

LEMMA GrantsStep ==
    ASSUME MInv, [Next]_vars
    PROVE  GrantsAgree'
<1>0. granted \subseteq Conn /\ granted' \subseteq Conn /\ Edges
  BY TInvStep, StepEdges DEF MInv, TInv, TypeOK
<1>1. ASSUME NEW h \in granted' PROVE ~Early(h)' /\ HoldsGrant(h)'
  <2>1. h \in Conn /\ ~Early(h) /\ HoldsGrant(h)
    <3>1. CASE h \in granted
      BY <1>0, <3>1 DEF MInv, MemberInv, GrantsAgree
    <3>2. CASE \E c \in Conn : pc[Admit(c)] = "announce" /\ h = grantee[Admit(c)] /\ h # None
      BY <3>2 DEF MInv, MemberInv, GrantsAgree, Early, Unplaced
    <3>3. CASE \E t \in ConnThread : pc[t] = "regrant" /\ h = grantee[t]
      BY <1>0, <1>1, <3>3 DEF MInv, MemberInv, GrantsAgree
    <3>. QED
      BY <1>1, <3>1, <3>2, <3>3, GrantedMoves
  <2>. QED
    BY <2>1, HoldsGrantStays
<1>2. ASSUME NEW c \in Conn, pc'[Admit(c)] = "announce", grantee'[Admit(c)] # None
      PROVE  grantee'[Admit(c)] = c /\ HoldsGrant(c)'
  <2>0. pc'[Admit(c)] = pc[Admit(c)] \/ (pc[Admit(c)] = "grant" /\ DecideGrant(c))
    BY <1>0, <1>2 DEF Edges, AdmitEdge, BodyEdge, Home, Admit
  <2>1. CASE pc[Admit(c)] = "announce"
    <3>1. grantee'[Admit(c)] = grantee[Admit(c)]
      BY <1>2, <2>1, GranteeStays, Distinct
    <3>2. grantee[Admit(c)] = c /\ HoldsGrant(c) /\ ~Early(c)
      BY <1>2, <2>1, <3>1 DEF MInv, MemberInv, GrantsAgree, Early, Unplaced
    <3>. QED
      BY <3>1, <3>2, HoldsGrantStays
  <2>2. CASE pc[Admit(c)] = "grant" /\ DecideGrant(c)
    <3>1. target[c] = room[c] /\ room[c] \in Conn
      <4>1. room[c] # None
        BY <2>2, Distinct DEF MInv, TInv, LocalsAgree, InRoom
      <4>. QED
        BY <4>1 DEF MInv, TInv, TypeOK, RInv, RegistryInv, NamesAgree
    <3>2. GrantDue(room[c]) /\ grantee'[Admit(c)] = c /\ seeder'[room[c]] = c /\ UNCHANGED sockets
      BY <1>2, <2>2, <3>1, DecideFacts
    <3>3. \A r \in Conn : c \in sockets[r] => r = room[c]
      BY DEF MInv, MemberInv, MembersPlaced
    <3>. QED
      BY <3>2, <3>3 DEF HoldsGrant
  <2>. QED
    BY <1>2, <2>0, <2>1, <2>2
<1>3. ASSUME NEW t \in ConnThread, pc'[t] = "regrant"
      PROVE  \E h \in Conn : grantee'[t] = h /\ ~Early(h)' /\ HoldsGrant(h)'
  <2>0. pc'[t] = pc[t] \/ Remove(t)
    <3>1. t[2] \in Conn /\ (t = Admit(t[2]) \/ t = Read(t[2]))
      BY ThreadFacts
    <3>. QED
      BY <1>0, <1>3, <3>1 DEF Edges, AdmitEdge, ReadEdge, BodyEdge, Home, Admit, Read
  <2>1. CASE pc[t] = "regrant"
    <3>1. grantee'[t] = grantee[t]
      BY <1>3, <2>1, GranteeStays
    <3>2. grantee[t] \in Conn /\ ~Early(grantee[t]) /\ HoldsGrant(grantee[t])
      BY <2>1, ThreadFacts DEF MInv, TInv, TypeOK, LocalsAgree, MemberInv, GrantsAgree
    <3>3. PICK h \in Conn : h = grantee[t]
      BY <3>2
    <3>4. ~Early(h) /\ HoldsGrant(h)
      BY <3>2, <3>3
    <3>. QED
      BY <3>1, <3>3, <3>4, HoldsGrantStays
  <2>2. CASE Remove(t)
    <3>. DEFINE q == room[t[2]]
    <3>0. /\ q \in Conn /\ grantee'[t] \in sockets[q] \ {t[2]} /\ seeder'[q] = grantee'[t]
          /\ sockets' = [sockets EXCEPT ![q] = @ \ {t[2]}]
      BY <1>3, <2>2, RemoveGrant
    <3>1. PICK h \in Conn : h = grantee'[t]
      BY <3>0 DEF MInv, TInv, TypeOK
    <3>2. h \in sockets[q] /\ seeder'[q] = h
      BY <3>0, <3>1
    <3>3. ~Early(h)' /\ \A r \in Conn : h \in sockets[r] => r = q
      BY <3>0, <3>2, EarlyPasses DEF MInv, MemberInv, MembersPlaced
    <3>4. \A r \in Conn : h \in sockets'[r] => h \in sockets[r]
      BY <3>0 DEF MInv, TInv, TypeOK
    <3>5. HoldsGrant(h)'
      BY <3>2, <3>3, <3>4 DEF HoldsGrant
    <3>. QED
      BY <3>1, <3>3, <3>5
  <2>. QED
    BY <1>3, <2>0, <2>1, <2>2
<1>4. ASSUME NEW t \in ConnThread, pc'[t] = "regrant"
      PROVE  (~Early(grantee[t]) /\ HoldsGrant(grantee[t]))'
  BY <1>3, <1>4 DEF Early, Unplaced, HoldsGrant
<1>. QED
  BY <1>1, <1>2, <1>4 DEF GrantsAgree

\* With AUTH a seeder is a member: it leaves the room and loses the grant at once.
LEMMA SeedersStep ==
    ASSUME MInv, [Next]_vars
    PROVE  SeedersAreMembers'
<1>. SUFFICES ASSUME AuthRequired
              PROVE  /\ \A r \in Conn : seeder'[r] # None => seeder'[r] \in sockets'[r]
                     /\ \A c \in Conn : pc'[Admit(c)] \in {"check", "grant"} => c \in sockets'[room'[c]]
  BY DEF SeedersAreMembers
<1>0. /\ sockets \in [Conn -> SUBSET Conn] /\ seeder \in [Conn -> Conn \cup {None}]
      /\ room \in [Conn -> Conn \cup {None}] /\ Edges
  BY StepEdges DEF MInv, TInv, TypeOK
<1>1. ASSUME NEW c \in Conn, pc[Admit(c)] \in {"check", "grant"}, NEW t \in ConnThread, Remove(t)
      PROVE  t[2] # c
  BY <1>1, ThreadFacts DEF Remove, MInv, MemberInv, TurnsTaken
<1>2. ASSUME NEW c \in Conn, pc'[Admit(c)] \in {"check", "grant"}
      PROVE  c \in sockets'[room'[c]]
  <2>1. CASE pc[Admit(c)] \in {"check", "grant"}
    <3>1. c \in sockets[room[c]] /\ room[c] \in Conn /\ room'[c] = room[c]
      <4>1. c \in sockets[room[c]]
        BY <2>1 DEF MInv, MemberInv, SeedersAreMembers
      <4>2. room[c] # None
        BY <2>1, Distinct DEF MInv, TInv, LocalsAgree, InRoom
      <4>. QED
        BY <1>0, <2>1, <4>1, <4>2, RoomMoves DEF MInv
    <3>. QED
      BY <1>0, <1>1, <2>1, <3>1, SocketsMove DEF MInv
  <2>2. CASE pc[Admit(c)] = "register" /\ Register(c)
    <3>1. target[c] = room[c] /\ room[c] \in Conn /\ room'[c] = room[c]
      <4>1. target[c] = room[c] /\ target[c] # None
        BY <2>2 DEF MInv, TInv, RInv, RegistryInv, AdmissionsAgree
      <4>. QED
        BY <1>0, <2>2, <4>1, RoomMoves DEF MInv
    <3>. QED
      BY <1>0, <2>2, <3>1 DEF Register
  <2>3. pc[Admit(c)] \in {"check", "grant"} \/ (pc[Admit(c)] = "register" /\ Register(c))
    BY <1>0, <1>2 DEF Edges, AdmitEdge, BodyEdge, Home, Admit
  <2>. QED
    BY <2>1, <2>2, <2>3
<1>3. ASSUME NEW r \in Conn, seeder'[r] # None
      PROVE  seeder'[r] \in sockets'[r]
  <2>1. CASE \E t \in ConnThread : Remove(t)
    <3>1. PICK t \in ConnThread : Remove(t)
      BY <2>1
    <3>. DEFINE q == room[t[2]]
    <3>2. /\ t[2] \in Conn /\ q \in Conn
          /\ sockets' = [sockets EXCEPT ![q] = @ \ {t[2]}]
          /\ r # q => seeder'[r] = seeder[r]
          /\ seeder[q] # t[2] => seeder'[q] = seeder[q]
          /\ seeder[q] = t[2] => seeder'[q] = None \/ seeder'[q] \in sockets[q] \ {t[2]}
      BY <3>1, RemoveGrant
    <3>3. seeder[r] # None => seeder[r] \in sockets[r]
      BY DEF MInv, MemberInv, SeedersAreMembers
    <3>4. CASE r = q
      BY <1>0, <1>3, <3>2, <3>3, <3>4
    <3>5. CASE r # q
      BY <1>0, <1>3, <3>2, <3>3, <3>5
    <3>. QED
      BY <3>4, <3>5
  <2>2. CASE ~\E t \in ConnThread : Remove(t)
    <3>1. \A d \in sockets[r] : d \in sockets'[r]
      BY <1>0, <2>2, SocketsMove DEF MInv
    <3>2. CASE seeder'[r] = seeder[r]
      BY <1>3, <3>1, <3>2 DEF MInv, MemberInv, SeedersAreMembers
    <3>3. CASE \E c \in Conn : DecideGrant(c) /\ target[c] = room[c] /\ room[c] \in Conn
      <4>1. PICK c \in Conn : DecideGrant(c) /\ target[c] = room[c] /\ room[c] \in Conn
        BY <3>3
      <4>2. c \in sockets[room[c]]
        BY <4>1 DEF DecideGrant, MInv, MemberInv, SeedersAreMembers
      <4>3. seeder'[r] = seeder[r] \/ (r = room[c] /\ seeder'[r] = c)
        BY <4>1, DecideFacts
      <4>. QED
        BY <3>1, <3>2, <4>2, <4>3
    <3>. QED
      BY <2>2, <3>2, <3>3, SeederMoves
  <2>. QED
    BY <2>1, <2>2
<1>. QED
  BY <1>2, <1>3

LEMMA MInvStep == MInv /\ [Next]_vars => MInv'
BY TInvStep, TurnsStep, PlacedStep, LeaversStep, GrantsStep, SeedersStep DEF MInv, MemberInv

\* The inductive invariant: memberships, departures and grants agree.
THEOREM MemberInvariant == Spec => []MemberInv
<1>1. MInv => MemberInv
  BY DEF MInv
<1>. QED
  BY <1>1, MInvInit, MInvStep, PTL DEF Spec

\* Whichever of OnClose and admit comes first, a connection whose threads have
\* ended is in no room's member set.
THEOREM NoDeadMemberHolds == Spec => []NoDeadMember
<1>1. MemberInv => NoDeadMember
  BY DEF MemberInv, LeaversGone, NoDeadMember, Gone, Leaving
<1>. QED
  BY <1>1, MemberInvariant, PTL

\* Two members of a room whose document is empty have never both been told to
\* seed it: those that were told so hold its one grant.
THEOREM OneSeederHolds == Spec => []OneSeeder
<1>1. TypeOK /\ MemberInv => OneSeeder
  <2>. SUFFICES ASSUME TypeOK, MemberInv, NEW r \in Conn, docIsEmpty(r)
                PROVE  Cardinality(granted \cap sockets[r]) <= 1
    BY DEF OneSeeder
  <2>1. granted \cap sockets[r] \subseteq {seeder[r]}
    BY DEF TypeOK, MemberInv, GrantsAgree, HoldsGrant
  <2>2. IsFiniteSet({seeder[r]}) /\ Cardinality({seeder[r]}) = 1
    BY FS_Singleton
  <2>3. Cardinality(granted \cap sockets[r]) <= Cardinality({seeder[r]})
    BY <2>1, <2>2, FS_Subset
  <2>. QED
    BY <2>2, <2>3
<1>. QED
  BY <1>1, TypeCorrect, MemberInvariant, PTL

\* With AUTH, where admit and OnClose of a connection take turns, the grant of a
\* room is never left with a connection that has been torn down.
THEOREM NoDeadSeederHolds ==
    ASSUME AuthRequired
    PROVE  Spec => []NoDeadSeeder
<1>1. TypeOK /\ MemberInv => NoDeadSeeder
  <2>. SUFFICES ASSUME TypeOK, MemberInv, NEW r \in Conn, seeder[r] # None
                PROVE  ~Gone(seeder[r])
    BY DEF NoDeadSeeder
  <2>1. seeder[r] \in Conn /\ seeder[r] \in sockets[r]
    BY DEF TypeOK, MemberInv, SeedersAreMembers
  <2>. QED
    BY <2>1 DEF MemberInv, LeaversGone, Gone, Leaving
<1>. QED
  BY <1>1, TypeCorrect, MemberInvariant, PTL

================================================================================
