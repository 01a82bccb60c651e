--------------------------- MODULE RelayProperties ---------------------------
(***************************************************************************)
(* What RelayCore promises: its type invariant, safety invariants, action  *)
(* properties and liveness properties, and the inductive invariant that    *)
(* RelayCoreProofs proves.                                                 *)
(***************************************************************************)
EXTENDS RelayCore

PcValue == {"idle", "authorize", "lookup", "load", "install", "assign",
            "register", "check", "grant", "announce", "open", "replay", "read",
            "apply", "arm", "peers", "send", "remove", "regrant", "stop",
            "encode", "save", "forget", "armed", "clear", "next", "done"}

\* Type invariant.  pending is a natural number: every reservation made in
\* loadRoom is released once, by the connection that made it.
TypeOK ==
    /\ phase \in [Conn -> {"absent", "pending", "open", "closed"}]
    /\ isOpen \in [Conn -> BOOLEAN]
    /\ name \in [Conn -> Name \cup {None}]
    /\ role \in [Conn -> Role \cup {None}]
    /\ target \in [Conn -> Conn \cup {None}]
    /\ room \in [Conn -> Conn \cup {None}]
    /\ buffer \in [Conn -> Seq(Frame)]
    /\ reaper \in [Conn -> {"off", "set", "reject"}]
    /\ rooms \in [Name -> Conn \cup {None}]
    /\ doc \in [Conn -> SUBSET Edit]
    /\ sockets \in [Conn -> SUBSET Conn]
    /\ pending \in [Conn -> Nat]
    /\ seeder \in [Conn -> Conn \cup {None}]
    /\ saveTimer \in [Conn -> Edit \cup {None}]
    /\ store \in [Name -> SUBSET Edit]
    /\ pc \in [Thread -> PcValue]
    /\ frame \in [Thread -> Frame \cup {None}]
    /\ snap \in [Thread -> SUBSET Edit]
    /\ peers \in [Thread -> SUBSET Conn]
    /\ grantee \in [Thread -> Conn \cup {None}]
    /\ todo \in [FlushThread -> SUBSET Conn]
    /\ work \in [FlushThread -> Conn \cup {None}]
    /\ sender \in [Edit -> Conn \cup {None}]
    /\ inbox \in [Conn -> SUBSET Edit]
    /\ granted \subseteq Conn
    /\ offered \in [Name -> SUBSET Edit]

\* The admissions that hold a pending slot on r.
Reserved(r) == {c \in Conn : pc[Admit(c)] \in {"assign", "register"} /\ target[c] = r}

\* room.pending counts exactly the admissions between loadRoom and Register.
PendingExact == \A r \in Conn : pending[r] = Cardinality(Reserved(r))

\* A room with a member or a reserved slot is the registered one, so nobody is
\* left on a room that the next joiner of the name cannot find.
NoGhostRoom ==
    \A r \in Conn : sockets[r] # {} \/ pending[r] > 0 => rooms[name[r]] = r

\* A connection whose admission has not yet registered or joined a room.
Unplaced(c) == pc[Admit(c)] \in {"idle", "authorize", "lookup", "load", "install"}

\* A connection whose admission has registered its socket and gone on.
Placed(c) == pc[Admit(c)] \in {"check", "grant", "announce", "open", "replay",
                               "apply", "arm", "peers", "send"}

\* Nothing refers to the room a connection would create before it creates it.
NoEarlyRoom ==
    \A c \in Conn : Unplaced(c) =>
        /\ target[c] = None /\ room[c] = None
        /\ sockets[c] = {}
        /\ \A d \in Conn : target[d] # c
        /\ \A n \in Name : rooms[n] # c

\* Every reference to a room goes by the name the room was loaded for.
NamesAgree ==
    /\ \A n \in Name : rooms[n] # None => name[rooms[n]] = n
    /\ \A c \in Conn : target[c] # None => name[target[c]] = name[c]
    /\ \A c \in Conn : room[c] # None => room[c] = target[c]

\* Where an admission stands, and whether its connection is a member.
AdmissionsAgree ==
    \A c \in Conn :
        /\ phase[c] = "absent" => /\ pc[Admit(c)] = "idle" /\ pc[Read(c)] = "idle"
                                 /\ reaper[c] = "off"
        /\ phase[c] = "pending" =>
              \/ Unplaced(c)
              \/ pc[Admit(c)] \in {"assign", "register", "check", "grant", "announce", "open"}
        /\ phase[c] # "absent" => name[c] # None
        /\ pc[Admit(c)] \in {"assign", "register"} => target[c] # None
        /\ pc[Admit(c)] = "assign" => room[c] = None
        /\ pc[Admit(c)] = "register" => room[c] = target[c]
        /\ (Placed(c) /\ phase[c] # "closed") \/ phase[c] = "open" =>
              room[c] # None /\ c \in sockets[room[c]]
        /\ pc[Admit(c)] = "remove" \/ pc[Read(c)] = "remove" => phase[c] = "closed"
        /\ pc[Admit(c)] \notin {"idle"} => phase[c] # "absent"

\* The inductive strengthening of NoGhostRoom and NoFork: the registry, the
\* reserved slots and the memberships of every connection agree.
RegistryInv == PendingExact /\ NoGhostRoom /\ NoEarlyRoom /\ NamesAgree /\ AdmissionsAgree

\* Where a thread's next step uses the room of its connection.
InRoom == {"check", "grant", "announce", "open", "replay", "apply", "arm", "peers",
           "send", "remove", "regrant", "stop", "encode", "save", "forget"}

\* What a thread holds when it gets to a step that uses it: a room, an edit of its
\* own connection, a member to grant the seed to, a room to flush.
LocalsAgree ==
    /\ \A t \in ConnThread :
          /\ pc[t] \in InRoom => room[t[2]] # None
          /\ frame[t] \in Edit => sender[frame[t]] = t[2]
          /\ pc[t] = "arm" => frame[t] \in Edit
          /\ pc[t] = "regrant" => grantee[t] # None
    /\ \A c \in Conn : \A k \in DOMAIN buffer[c] :
          buffer[c][k] \in Edit => sender[buffer[c][k]] = c
    /\ \A e \in Edit : pc[Timer(e)] \notin {"idle", "done"} =>
          sender[e] # None /\ room[sender[e]] # None
    /\ \A t \in FlushThread : pc[t] \in {"stop", "encode", "save"} => work[t] # None

\* Two admitted connections of one name share one document: concurrent loads,
\* joins during a flush and last-leave deletions never fork it.
NoFork ==
    \A c, d \in Conn :
        phase[c] = "open" /\ phase[d] = "open" /\ name[c] = name[d] => room[c] = room[d]

\* A handle of edit e that has yet to send e to connection c.
OnItsWay(e, c) ==
    \E t \in ConnThread : /\ frame[t] = e
                          /\ \/ pc[t] \in {"arm", "peers"}
                             \/ pc[t] = "send" /\ c \in peers[t]

Announced(c) == pc[Admit(c)] \in {"open", "replay", "apply", "arm", "peers", "send", "done"}

\* Every edit in a room's document is known to each of its live members, or a
\* handle will still send it: nothing falls between a joiner's registration,
\* the state it is sent and the peers a concurrent broadcast snapshots.
NoMissedEdit ==
    \A c \in Conn : room[c] # None /\ c \in sockets[room[c]] /\ isOpen[c] /\ Announced(c) =>
        \A e \in doc[room[c]] : sender[e] = c \/ e \in inbox[c] \/ OnItsWay(e, c)

\* A writable edit accepted from an open connection is buffered, being handled,
\* or merged: the hand-over from buffering to direct dispatch loses none.
NoDroppedEdit ==
    \A e \in Edit :
        LET c == sender[e] IN
        c # None => (phase[c] = "open" /\ CanWrite(role[c]) =>
            \/ \E k \in DOMAIN buffer[c] : buffer[c][k] = e
            \/ frame[Admit(c)] = e \/ frame[Read(c)] = e
            \/ e \in doc[room[c]])

\* At most one member of a still-empty room has been told to seed it.
OneSeeder ==
    \A r \in Conn : docIsEmpty(r) =>
        Cardinality(granted \cap sockets[r]) <= 1

Gone(c) == pc[Read(c)] = "done" /\ pc[Admit(c)] \in {"idle", "done"}

\* A connection that has been torn down is a member of no room, whichever of
\* OnClose and admit came first; a dead member would keep the room for ever.
NoDeadMember == \A c, r \in Conn : Gone(c) => c \notin sockets[r]

\* The seed grant of a still-empty room with members is not held by a
\* connection that has been torn down.
NoDeadSeeder ==
    \A r \in Conn : docIsEmpty(r) /\ sockets[r] # {} /\ seeder[r] # None => ~Gone(seeder[r])

\* A connection that has not yet registered in a room.
Early(c) == Unplaced(c) \/ pc[Admit(c)] \in {"assign", "register"}

\* Where dropSocket and the flush after it take a thread.
Leaving == {"remove", "regrant", "stop", "encode", "save", "forget"}

\* With AUTH, admit runs on the read loop: a connection's two threads take turns.
TurnsTaken ==
    AuthRequired => \A c \in Conn : pc[Read(c)] \in {"idle", "read"}
                                    \/ pc[Admit(c)] \in {"idle", "done"}

\* A member of a room has been registered in it and in no other.
MembersPlaced == \A c, r \in Conn : c \in sockets[r] => room[c] = r /\ ~Early(c)

\* dropSocket runs for a dead socket only.  Once the read loop has run it, only
\* admit's own check can still find the connection in the room.
LeaversGone ==
    \A c \in Conn :
        /\ pc[Read(c)] \in Leaving \cup {"done"} \/ pc[Admit(c)] \in Leaving => ~isOpen[c]
        /\ pc[Read(c)] \in (Leaving \ {"remove"}) \cup {"done"} =>
              \A r \in Conn : c \in sockets[r] => pc[Admit(c)] \in {"check", "remove"}

\* Whoever h is, h holds the grant of every empty room it is in.
HoldsGrant(h) == \A r \in Conn : h \in sockets[r] /\ docIsEmpty(r) => seeder[r] = h

\* The members that have been sent the grant, and those about to be, hold it.
GrantsAgree ==
    /\ \A h \in granted : ~Early(h) /\ HoldsGrant(h)
    /\ \A c \in Conn : pc[Admit(c)] = "announce" /\ grantee[Admit(c)] # None =>
          grantee[Admit(c)] = c /\ HoldsGrant(c)
    /\ \A t \in ConnThread : pc[t] = "regrant" =>
          ~Early(grantee[t]) /\ HoldsGrant(grantee[t])

\* With AUTH the grant of a room is held by a member of it.
SeedersAreMembers ==
    AuthRequired =>
        /\ \A r \in Conn : seeder[r] # None => seeder[r] \in sockets[r]
        /\ \A c \in Conn : pc[Admit(c)] \in {"check", "grant"} => c \in sockets[room[c]]

\* The inductive strengthening of NoDeadMember, OneSeeder and NoDeadSeeder.
MemberInv == TurnsTaken /\ MembersPlaced /\ LeaversGone /\ GrantsAgree /\ SeedersAreMembers

\* Threads of room r that will still encode its document and save it.
Saving(r, e) ==
    \E t \in Thread :
        \/ t[1] = "timer" /\ pc[t] \in {"armed", "clear"} /\ Inst(t) = r
        \/ t \in ConnThread /\ pc[t] = "arm" /\ frame[t] = e /\ Inst(t) = r
        \/ pc[t] = "encode" /\ Inst(t) = r
        \/ pc[t] = "save" /\ e \in snap[t] /\ Inst(t) = r

\* Every edit merged into a document was handed to Store.Save, or a timer, a
\* flush or a handle will still do it, however timers, flushes and fired
\* callbacks race for saveTimer.
NoUnsavedEdit ==
    \A r \in Conn : \A e \in doc[r] : e \in offered[name[r]] \/ Saving(r, e)

\* Every edit of c's document is known to c, or a handle in c's room will send it.
Reaches(e, c) ==
    \/ sender[e] = c \/ e \in inbox[c]
    \/ \E t \in ConnThread : /\ frame[t] = e /\ room[t[2]] = room[c]
                             /\ \/ pc[t] \in {"arm", "peers"}
                                \/ pc[t] = "send" /\ c \in peers[t]

\* The inductive strengthening of NoMissedEdit: a member about to be sent its
\* initial state lacks no edit that is neither in that state nor on its way.
DeliveryInv ==
    \A c \in Conn : room[c] # None /\ c \in sockets[room[c]] /\ isOpen[c] =>
        \A e \in doc[room[c]] :
            /\ Announced(c) => Reaches(e, c)
            /\ pc[Admit(c)] = "announce" => e \in snap[Admit(c)] \/ Reaches(e, c)

\* The inductive strengthening of NoUnsavedEdit: a timer that may be stopped is
\* one of the room, and a document loaded holds only what was saved.
SaveInv ==
    /\ NoUnsavedEdit
    /\ \A i \in Conn : saveTimer[i] # None =>
          sender[saveTimer[i]] # None /\ room[sender[saveTimer[i]]] = i
    /\ \A n \in Name : store[n] \subseteq offered[n]
    /\ \A c \in Conn : /\ pc[Admit(c)] = "install" => snap[Admit(c)] \subseteq offered[name[c]]
                       /\ Unplaced(c) => doc[c] = {}

\* The inductive strengthening of NoDroppedEdit: an edit of a pending connection
\* is buffered, and one that is being broadcast has been merged.
FrameInv ==
    /\ NoDroppedEdit
    /\ \A e \in Edit : sender[e] # None =>
          /\ phase[sender[e]] # "absent"
          /\ phase[sender[e]] = "pending" =>
                \E k \in DOMAIN buffer[sender[e]] : buffer[sender[e]][k] = e
    /\ \A t \in ConnThread :
          /\ frame[t] # None => pc[t] \in {"apply", "arm", "peers", "send"}
          /\ pc[t] \in {"arm", "peers", "send"} /\ frame[t] \in Edit =>
                frame[t] \in doc[room[t[2]]]

\* The edits that writers connected under name n have sent.
Sent(n) == {e \in Edit : sender[e] # None /\ name[sender[e]] = n /\ CanWrite(role[sender[e]])}

\* What is registered under each name: the document, its members, what was sent.
Text    == [n \in Name |-> IF rooms[n] = None THEN {} ELSE doc[rooms[n]]]
Members == [n \in Name |-> IF rooms[n] = None THEN {} ELSE sockets[rooms[n]]]
SentTo  == [n \in Name |-> Sent(n)]

Shared == INSTANCE SharedRooms
    WITH MaxOpen <- MaxRooms, open <- RegisteredRooms, text <- Text, members <- Members,
         sent <- SentTo, seen <- inbox, kept <- offered

\* The relay implements SharedRooms: under each name one document, which only
\* grows while it is open, by what writers connected under that name have sent;
\* its members are sent nothing else; it closes when nobody is in it, and no more
\* are open than the cap allows. Neither the unlocked load, nor a last leaver's
\* flush, nor a broadcast to peers who have left meanwhile breaks it.
ImplementsRooms == Shared!Spec

\* The inductive strengthening of ImplementsRooms: what a thread merges, saves
\* or sends was written in its room by a writer, and a live peer is still there.
OriginInv ==
    /\ \A r \in Conn : doc[r] \subseteq Sent(name[r])
    /\ \A n \in Name : offered[n] \subseteq Sent(n)
    /\ \A t \in ConnThread : frame[t] \in Edit => CanWrite(role[t[2]])
    /\ \A t \in Thread : pc[t] = "save" => snap[t] \subseteq doc[Inst(t)]
    /\ \A t \in ConnThread : pc[t] = "send" => \A p \in peers[t] :
          room[p] = room[t[2]] /\ (isOpen[p] => p \in sockets[room[p]])
    /\ \A c \in Conn :
          /\ pc[Admit(c)] \in {"idle", "authorize"} => role[c] = None
          /\ pc[Admit(c)] = "announce" => snap[Admit(c)] \subseteq doc[room[c]]
          /\ phase[c] = "closed" => ~isOpen[c]

\* The registry never holds more rooms than its cap, though the cap is checked
\* before and again after the unlocked load.
RoomCap == Cardinality(RegisteredRooms) <= MaxRooms

\* A connection once closed is never opened again by an admission in progress.
ClosedIsFinal == [][\A c \in Conn : phase[c] = "closed" => phase'[c] = "closed"]_vars

\* dropSocket forgets a room only when its document is in the store.
ForgottenIsSaved ==
    [][\A n \in Name : rooms[n] # None /\ rooms'[n] = None =>
          doc[rooms[n]] \subseteq store[n]]_vars

\* When every connection has been torn down, which is when the server goes on to
\* FlushAll an empty registry and exits, every edit merged is in the store.
TornDownIsStored ==
    (\A c \in Conn : phase[c] = "absent" \/ Gone(c))
        => \A r \in Conn : doc[r] \subseteq (IF name[r] = None THEN {} ELSE store[name[r]])

\* Every edit merged into a document is handed to Store.Save in the end.
EditsReachStore ==
    \A r \in Conn, e \in Edit :
        e \in doc[r] ~> \E n \in Name : name[r] = n /\ e \in offered[n]

Registered(r) == \E n \in Name : rooms[n] = r

\* All connections an admission has put, or is putting, on room r are torn down.
Abandoned(r) == \A c \in Conn : target[c] = r => Gone(c)

\* A registered room whose connections have all been torn down is forgotten: no
\* reserved slot and no membership outlives the connection it was taken for.
RoomsAreForgotten ==
    \A r \in Conn : Registered(r) /\ Abandoned(r) ~> ~Registered(r) \/ ~Abandoned(r)

\* Every admission ends: no connection stays pending, with or without AUTH.
AdmissionEnds == \A c \in Conn : phase[c] = "pending" ~> phase[c] \in {"open", "closed"}

\* A connection whose socket has died is torn down: its threads end.
DeadSocketsEnd ==
    \A c \in Conn : phase[c] # "absent" /\ ~isOpen[c] ~> Gone(c)
==============================================================================
