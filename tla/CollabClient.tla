---------------------------- MODULE CollabClient ----------------------------
(***************************************************************************)
(* The collaboration client: for each browser tab the reconnecting         *)
(* transport (transport.ts), the shared document with its overlay cache    *)
(* (session.ts) and the playground's seed gate (main.ts), composed with a  *)
(* coarse relay room.  RelayCore has the relay in detail.                  *)
(*                                                                         *)
(* A document is the set of writes merged into it.  A write gives one key  *)
(* a value; the latest write of a key wins, and two concurrent ones are    *)
(* ordered by their writers (Yjs, external).  The source text is the set   *)
(* of seeds inserted into it: it is only asked whether it is empty.        *)
(***************************************************************************)
EXTENDS Naturals, Sequences, FiniteSets

CONSTANTS Client,       \* tabs: positive numbers, Yjs orders writers by id
          Override,     \* node ids with a position override
          Style,        \* ids with an edge or node style
          Val,          \* values an entry may have
          Corrupt,      \* a value the overlay decoder rejects
          None,         \* the entry is absent
          Role,         \* roles the relay may grant
          MaxRetries,   \* transport.ts, maxRetries
          MaxDrops, MaxEdits, MaxForeign,  \* bounds of the instance
          MaxEvents                        \* and on all of these and the undos

Key == Override \cup Style
Absent == [k \in Key |-> None]

ASSUME ClientAssumption ==
    /\ Client \subseteq Nat \ {0} /\ IsFiniteSet(Client)
    /\ "text" \notin Key /\ Override \cap Style = {} /\ None \notin Client
    /\ Corrupt \notin Val /\ None \notin Val \cup {Corrupt}
    /\ MaxRetries \in Nat /\ Role \subseteq {"owner", "editor", "viewer"}

VARIABLES
    sock, attempt, stopped, reconnectedPending, timer,   \* the transport
    surfaced,            \* how often the consumer's onClose has run
    doc, cache, status, undoStack,                       \* the session
    transportConnected, seedGranted, seedTimerDone,      \* the seed gate
    viewerMode,
    up, down,            \* frames in flight, to and from the relay
    room, members, seeder,                               \* the relay
    stale,               \* tabs that lost the connection a grant came on
    drops, edits, foreign

transport == <<sock, attempt, stopped, reconnectedPending, timer, surfaced>>
session   == <<doc, cache, status, undoStack>>
gate      == <<transportConnected, seedGranted, seedTimerDone>>
relay     == <<room, members, seeder>>
bounds    == <<drops, edits, foreign>>
More == drops + edits + foreign < MaxEvents
vars == <<transport, session, gate, viewerMode, up, down, relay, stale, bounds>>

-----------------------------------------------------------------------------
(* The Yjs document.                                                       *)

Writes(D, k) == {w \in D : w.key = k}
Later(w, x) == w.at > x.at \/ (w.at = x.at /\ w.by >= x.by)
Winner(D, k) == CHOOSE w \in Writes(D, k) : \A x \in Writes(D, k) : Later(w, x)
Entry(D, k) == IF Writes(D, k) = {} THEN None ELSE Winner(D, k).val
HasText(D) == Writes(D, "text") # {}
Clock(D) == IF D = {} THEN 0 ELSE (CHOOSE w \in D : \A x \in D : w.at >= x.at).at
Write(D, c, k, v) == [key |-> k, val |-> v, at |-> Clock(D) + 1, by |-> c]

(* materialize: every entry, or a decode error.                            *)
Materialized(D) == [k \in Key |-> Entry(D, k)]
Decodes(D) == Corrupt \notin {Entry(D, k) : k \in Key}

(* The writes a transaction that should leave the keys K at `next` makes:  *)
(* entries already equal are not written, entries not in `next` are        *)
(* deleted.                                                                *)
Diff(D, c, K, next) ==
    {Write(D, c, k, next[k]) : k \in {j \in K : Entry(D, j) # next[j]}}

Init ==
    /\ sock = [c \in Client |-> "connecting"]
    /\ attempt = [c \in Client |-> 0]
    /\ stopped = [c \in Client |-> FALSE]
    /\ reconnectedPending = [c \in Client |-> FALSE]
    /\ timer = [c \in Client |-> FALSE]
    /\ surfaced = [c \in Client |-> 0]
    /\ doc = [c \in Client |-> {}]
    /\ cache = [c \in Client |-> Absent]
    /\ status = [c \in Client |-> "synced"]
    /\ undoStack = [c \in Client |-> << >>]
    /\ transportConnected = [c \in Client |-> TRUE]
    /\ seedGranted = [c \in Client |-> FALSE]
    /\ seedTimerDone = [c \in Client |-> FALSE]
    /\ viewerMode = [c \in Client |-> FALSE]
    /\ up = [c \in Client |-> << >>]
    /\ down = [c \in Client |-> << >>]
    /\ room = {} /\ members = {} /\ seeder = None
    /\ stale = {} /\ drops = 0 /\ edits = 0 /\ foreign = 0

-----------------------------------------------------------------------------
(* The session.                                                            *)

(* The frame of an update; an update without writes is not represented.    *)
DocFrame(W) == IF W = {} THEN << >> ELSE << [tag |-> "doc", writes |-> W] >>

(* onDocUpdate: an update that is not remote goes to the socket, if open.  *)
Forward(c, W) ==
    up' = IF sock[c] = "open" THEN [up EXCEPT ![c] = @ \o DocFrame(W)] ELSE up

(* onMapChange for an origin other than LOCAL.                             *)
Rematerialize(c, D) ==
    IF Decodes(D)
    THEN /\ cache' = [cache EXCEPT ![c] = Materialized(D)]
         /\ status' = [status EXCEPT ![c] = "synced"]
    ELSE /\ status' = [status EXCEPT ![c] = "overlay-rejected"]
         /\ UNCHANGED cache

(* Mutant: the styles are not observed.                                    *)
OverridesDiffer(D, E) == \E k \in Override : Entry(D, k) # Entry(E, k)
MapsDiffer(D, E) == Materialized(D) # Materialized(E)

(* applyUpdate with origin REMOTE.                                         *)
Integrate(c, W) ==
    LET D == doc[c] \cup W IN
    /\ doc' = [doc EXCEPT ![c] = D]
    /\ IF MapsDiffer(doc[c], D) THEN Rematerialize(c, D) ELSE UNCHANGED <<cache, status>>
    /\ UNCHANGED undoStack

(* A LOCAL transaction W, after which the cache is `next`.                 *)
UndoItem(D, W) == {[write |-> w, prev |-> Entry(D, w.key)] : w \in W}
Transact(c, W, next) ==
    /\ doc' = [doc EXCEPT ![c] = @ \cup W]
    /\ cache' = [cache EXCEPT ![c] = next]
    /\ undoStack' = IF W = {} THEN undoStack
                    ELSE [undoStack EXCEPT ![c] = Append(@, UndoItem(doc[c], W))]
    /\ Forward(c, W)
    /\ UNCHANGED status

(* Nothing is drawn, hence nothing can be edited, before there is text.    *)
Editable(c) == ~viewerMode[c] /\ HasText(doc[c])
MayEdit(c) == Editable(c) /\ edits < MaxEdits /\ More
Edited == edits' = edits + 1 /\ UNCHANGED <<drops, foreign>>

OnOverrides(next, old) == [k \in Key |-> IF k \in Override THEN next[k] ELSE old[k]]

WriteOverrides(c, next) ==
    Transact(c, Diff(doc[c], c, Override, next), OnOverrides(next, cache[c]))

(* moveNode, resizeNode: one override set in the cached overlay.           *)
MoveNode(c, k, v) ==
    /\ MayEdit(c) /\ WriteOverrides(c, [cache[c] EXCEPT ![k] = v]) /\ Edited
    /\ UNCHANGED <<transport, gate, viewerMode, down, relay, stale>>

(* clearOverrides.                                                         *)
ClearOverrides(c) ==
    /\ MayEdit(c) /\ WriteOverrides(c, Absent) /\ Edited
    /\ UNCHANGED <<transport, gate, viewerMode, down, relay, stale>>

(* setEdgeStyle, setNodeStyle: None removes the style.                     *)
SetStyle(c, k, v) ==
    LET next == [cache[c] EXCEPT ![k] = v] IN
    /\ MayEdit(c) /\ Transact(c, Diff(doc[c], c, {k}, next), next) /\ Edited
    /\ UNCHANGED <<transport, gate, viewerMode, down, relay, stale>>

(* replace: a whole overlay restored from storage or a share link.         *)
Replace(c, next) ==
    /\ MayEdit(c) /\ Transact(c, Diff(doc[c], c, Key, next), next) /\ Edited
    /\ UNCHANGED <<transport, gate, viewerMode, down, relay, stale>>

(* undo: the last local transaction is reverted where it still wins; its   *)
(* origin is the undo manager, so it is broadcast and materialized again.  *)
Undo(c) ==
    /\ Editable(c) /\ undoStack[c] # << >> /\ More
    /\ LET item == undoStack[c][Len(undoStack[c])]
           live == {u \in item : Winner(doc[c], u.write.key) = u.write}
           W == {Write(doc[c], c, u.write.key, u.prev) : u \in live}
           D == doc[c] \cup W
       IN /\ doc' = [doc EXCEPT ![c] = D]
          /\ undoStack' = [undoStack EXCEPT ![c] = SubSeq(@, 1, Len(@) - 1)]
          /\ IF W = {} THEN UNCHANGED <<cache, status>> ELSE Rematerialize(c, D)
          /\ Forward(c, W)
    /\ Edited
    /\ UNCHANGED <<transport, gate, viewerMode, down, relay, stale>>

-----------------------------------------------------------------------------
(* The seed gate.  Seeds(c, ...) is maybeSeed: seedSourceIfEmpty in one    *)
(* transaction, which the maps and their cache do not see.                 *)

(* Mutants: anybody seeds; only a granted tab ever does.                   *)
GateWithoutGrant(done, connected, granted) == done
GateOfGranted(done, connected, granted) == done /\ granted
GateOpen(done, connected, granted) == done /\ (connected => granted)

MaybeSeed(c, done, connected, granted) ==
    IF GateOpen(done, connected, granted) /\ ~HasText(doc[c])
    THEN LET W == {Write(doc[c], c, "text", c)} IN
         doc' = [doc EXCEPT ![c] = @ \cup W] /\ Forward(c, W)
    ELSE UNCHANGED <<doc, up>>

SeedTimer(c) ==
    /\ ~seedTimerDone[c]
    /\ seedTimerDone' = [seedTimerDone EXCEPT ![c] = TRUE]
    /\ MaybeSeed(c, TRUE, transportConnected[c], seedGranted[c])
    /\ UNCHANGED <<transport, cache, status, undoStack, transportConnected, seedGranted,
                   viewerMode, down, relay, stale, bounds>>

(* connectTransport's onMessage, with the playground's onControl.          *)
Receive(c) ==
    /\ down[c] # << >>
    /\ down' = [down EXCEPT ![c] = Tail(@)]
    /\ LET frame == Head(down[c]) IN
       \/ /\ frame.tag = "doc" /\ Integrate(c, frame.writes)
          /\ UNCHANGED <<gate, viewerMode, up, stale>>
       \/ /\ frame.tag = "seed"
          /\ seedGranted' = [seedGranted EXCEPT ![c] = TRUE]
          /\ MaybeSeed(c, seedTimerDone[c], transportConnected[c], TRUE)
          /\ UNCHANGED <<cache, status, undoStack, transportConnected, seedTimerDone, viewerMode, stale>>
       \/ /\ frame.tag = "role"
          /\ viewerMode' = [viewerMode EXCEPT ![c] = frame.role = "viewer"]
          /\ UNCHANGED <<session, gate, up, stale>>
    /\ UNCHANGED <<transport, relay, bounds>>

-----------------------------------------------------------------------------
(* The reconnecting transport.                                             *)

(* A fresh socket opens: the budget is whole again, and connectTransport   *)
(* sends the token and the whole document.                                 *)
(* Mutant: only the token is sent again.                                   *)
TokenOnly(c) == << [tag |-> "auth"] >>
StateFrames(c) == << [tag |-> "auth"] >> \o DocFrame(doc[c])

SocketOpens(c) ==
    /\ sock[c] = "connecting"
    /\ sock' = [sock EXCEPT ![c] = "open"]
    /\ attempt' = [attempt EXCEPT ![c] = 0]
    /\ reconnectedPending' = [reconnectedPending EXCEPT ![c] = FALSE]
    /\ up' = [up EXCEPT ![c] = StateFrames(c)]
    /\ UNCHANGED <<stopped, timer, surfaced, session, gate, viewerMode, down, relay, stale, bounds>>

(* The playground's onClose hook: editing goes on locally.                 *)
Surface(c) ==
    /\ surfaced' = [surfaced EXCEPT ![c] = @ + 1]
    /\ transportConnected' = [transportConnected EXCEPT ![c] = FALSE]
    /\ seedGranted' = [seedGranted EXCEPT ![c] = FALSE]
    /\ IF GateOpen(seedTimerDone[c], FALSE, FALSE) /\ ~HasText(doc[c])
       THEN doc' = [doc EXCEPT ![c] = @ \cup {Write(doc[c], c, "text", c)}]
       ELSE UNCHANGED doc

Stop(c) == stopped' = [stopped EXCEPT ![c] = TRUE]

Exhausted(c) == attempt[c] >= MaxRetries

(* reconnect.                                                              *)
Reconnect(c) ==
    \/ /\ Exhausted(c) /\ Stop(c) /\ Surface(c)
       /\ UNCHANGED <<attempt, reconnectedPending, timer>>
    \/ /\ ~Exhausted(c)
       /\ attempt' = [attempt EXCEPT ![c] = @ + 1]
       /\ reconnectedPending' = [reconnectedPending EXCEPT ![c] = TRUE]
       /\ timer' = [timer EXCEPT ![c] = TRUE]
       /\ UNCHANGED <<stopped, surfaced, doc, transportConnected, seedGranted>>

(* The relay's side of a lost connection (core.go, dropSocket): an heir to *)
(* the grant is told while the room is still empty.                        *)
Without(c) == {m \in members : m.client # c}
MayWrite(m) == m.role # "viewer"
Lost(c) ==
    LET rest == Without(c) IN
    /\ members' = rest
    /\ IF seeder # c THEN UNCHANGED seeder /\ down' = [down EXCEPT ![c] = << >>]
       ELSE IF room # {} \/ rest = {}
       THEN seeder' = None /\ down' = [down EXCEPT ![c] = << >>]
       ELSE \E m \in rest :
              /\ seeder' = m.client
              /\ down' = [down EXCEPT ![c] = << >>,
                                      ![m.client] = Append(@, [tag |-> "seed"])]
    /\ up' = [up EXCEPT ![c] = << >>]
    /\ stale' = stale \cup (IF seedGranted[c] THEN {c} ELSE {})
    /\ UNCHANGED room

(* An open connection breaks: everything in flight on it is lost.          *)
Drop(c) ==
    /\ sock[c] = "open" /\ ~stopped[c] /\ drops < MaxDrops /\ More
    /\ sock' = [sock EXCEPT ![c] = "closed"] /\ drops' = drops + 1
    /\ Lost(c) /\ Reconnect(c)
    /\ UNCHANGED <<cache, status, undoStack, seedTimerDone, viewerMode, edits, foreign>>

(* A connection attempt fails before it opens.                             *)
ConnectFails(c) ==
    /\ sock[c] = "connecting" /\ ~stopped[c]
    /\ sock' = [sock EXCEPT ![c] = "closed"]
    /\ Reconnect(c)
    /\ UNCHANGED <<cache, status, undoStack, seedTimerDone, viewerMode, up, down, relay,
                   stale, bounds>>

(* The relay closes with a policy code: never retried.                     *)
Rejected(c) ==
    /\ sock[c] = "open" /\ ~stopped[c] /\ drops < MaxDrops /\ More
    /\ sock' = [sock EXCEPT ![c] = "closed"] /\ drops' = drops + 1
    /\ Lost(c) /\ Stop(c) /\ Surface(c)
    /\ UNCHANGED <<attempt, reconnectedPending, timer, cache, status, undoStack, seedTimerDone,
                   viewerMode, edits, foreign>>

(* Mutants of the retry: it revives a stopped transport; it binds nothing. *)
RetriedIfStopped(c) == [sock EXCEPT ![c] = "connecting"]
RetryForgotten(c) == sock
Retried(c) == IF stopped[c] THEN sock ELSE [sock EXCEPT ![c] = "connecting"]

(* The scheduled retry: nothing after a stop, else a fresh bound socket.   *)
RetryFires(c) ==
    /\ timer[c]
    /\ timer' = [timer EXCEPT ![c] = FALSE]
    /\ sock' = Retried(c)
    /\ UNCHANGED <<attempt, stopped, reconnectedPending, surfaced, session, gate, viewerMode,
                   up, down, relay, stale, bounds>>

(* The disconnect function: close the socket, expect no event from it.     *)
Disconnect(c) ==
    /\ ~stopped[c] /\ drops < MaxDrops /\ More
    /\ Stop(c) /\ sock' = [sock EXCEPT ![c] = "closed"] /\ drops' = drops + 1
    /\ Lost(c)
    /\ UNCHANGED <<attempt, reconnectedPending, timer, surfaced, session, gate, viewerMode,
                   edits, foreign>>

-----------------------------------------------------------------------------
(* The relay room, coarsely.                                               *)

Member(c) == \E m \in members : m.client = c
CanWrite(c) == \E m \in members : m.client = c /\ MayWrite(m)
Broadcast(W, from) ==
    down' = [c \in Client |-> IF Member(c) /\ c # from THEN down[c] \o DocFrame(W) ELSE down[c]]

(* admit: role, state, and the grant if the room is empty and unpromised.  *)
Admit(c) ==
    /\ up[c] # << >> /\ Head(up[c]).tag = "auth"
    /\ \E r \in Role :
         LET grants == room = {} /\ seeder = None IN
         /\ members' = members \cup {[client |-> c, role |-> r]}
         /\ seeder' = IF grants THEN c ELSE seeder
         /\ down' = [down EXCEPT ![c] = << [tag |-> "role", role |-> r] >>
                                        \o (IF grants THEN << [tag |-> "seed"] >> ELSE << >>)
                                        \o DocFrame(room)]
    /\ up' = [up EXCEPT ![c] = Tail(@)]
    /\ UNCHANGED <<transport, session, gate, viewerMode, room, stale, bounds>>

(* handle: merge and broadcast, unless a viewer sent it.                   *)
Handle(c) ==
    /\ up[c] # << >> /\ Head(up[c]).tag = "doc"
    /\ up' = [up EXCEPT ![c] = Tail(@)]
    /\ LET W == Head(up[c]).writes IN
       IF CanWrite(c)
       THEN room' = room \cup W /\ Broadcast(W, c)
       ELSE UNCHANGED <<room, down>>
    /\ UNCHANGED <<transport, session, gate, viewerMode, members, seeder, stale, bounds>>

(* A peer outside the model writes an entry, a corrupt one perhaps.        *)
ForeignWrite(k, v) ==
    /\ foreign < MaxForeign /\ More /\ foreign' = foreign + 1 /\ HasText(room)
    /\ LET W == {Write(room, 0, k, v)} IN room' = room \cup W /\ Broadcast(W, 0)
    /\ UNCHANGED <<transport, session, gate, viewerMode, up, members, seeder, stale, drops, edits>>

-----------------------------------------------------------------------------
Edit(c) ==
    \/ \E k \in Override, v \in Val : MoveNode(c, k, v)
    \/ \E k \in Style, v \in Val \cup {None} : SetStyle(c, k, v)
    \/ \E v \in Val : Replace(c, [k \in Key |-> v])
    \/ ClearOverrides(c)
    \/ Undo(c)

Network(c) ==
    \/ SocketOpens(c) \/ ConnectFails(c) \/ Drop(c) \/ Rejected(c)
    \/ RetryFires(c) \/ Disconnect(c)

Next ==
    \/ \E c \in Client : Edit(c) \/ Network(c) \/ Receive(c) \/ SeedTimer(c)
                         \/ Admit(c) \/ Handle(c)
    \/ \E k \in Key, v \in Val \cup {Corrupt} : ForeignWrite(k, v)

Spec == Init /\ [][Next]_vars

(* Timers fire, a connection attempt ends one way or the other, and frames *)
(* on an open connection arrive.                                           *)
Fairness ==
    \A c \in Client :
        /\ WF_vars(RetryFires(c)) /\ WF_vars(SeedTimer(c))
        /\ WF_vars(SocketOpens(c) \/ ConnectFails(c))
        /\ WF_vars(Receive(c)) /\ WF_vars(Admit(c) \/ Handle(c))
FairSpec == Spec /\ Fairness

-----------------------------------------------------------------------------
(* Properties.                                                             *)

Entries == Val \cup {None, Corrupt}
MapWrite == [key : Key, val : Entries, at : Nat, by : Nat]
Stamped == MapWrite
           \cup [key : {"text"}, val : Client, at : Nat, by : Nat]
(* A document has a latest write, and a winning one for every key it has.  *)
Document == {D \in SUBSET Stamped :
    /\ D = {} \/ \E w \in D : \A x \in D : w.at >= x.at
    /\ \A k \in Key : \/ Writes(D, k) = {}
                      \/ \E w \in Writes(D, k) : \A x \in Writes(D, k) : Later(w, x)}
Frame == [tag : {"auth", "seed"}] \cup [tag : {"role"}, role : Role]
         \cup [tag : {"doc"}, writes : Document]
Item == [write : MapWrite, prev : Entries]

TransportOK ==
    /\ sock \in [Client -> {"connecting", "open", "closed"}]
    /\ attempt \in [Client -> 0..MaxRetries] /\ surfaced \in [Client -> Nat]
    /\ stopped \in [Client -> BOOLEAN] /\ timer \in [Client -> BOOLEAN]
    /\ reconnectedPending \in [Client -> BOOLEAN]
SessionOK ==
    /\ doc \in [Client -> Document]
    /\ cache \in [Client -> [Key -> Val \cup {None}]]
    /\ status \in [Client -> {"synced", "overlay-rejected"}]
    /\ undoStack \in [Client -> Seq(SUBSET Item)]
GateOK ==
    /\ transportConnected \in [Client -> BOOLEAN] /\ seedGranted \in [Client -> BOOLEAN]
    /\ seedTimerDone \in [Client -> BOOLEAN] /\ viewerMode \in [Client -> BOOLEAN]
WireOK == up \in [Client -> Seq(Frame)] /\ down \in [Client -> Seq(Frame)]
RelayOK ==
    /\ room \in Document /\ members \subseteq [client : Client, role : Role]
    /\ seeder \in Client \cup {None} /\ stale \subseteq Client

(* Every variable has its type (proved in CollabClientProofs).             *)
TypeOK ==
    /\ TransportOK /\ SessionOK /\ GateOK /\ WireOK /\ RelayOK
    /\ drops \in Nat /\ edits \in Nat /\ foreign \in Nat

(* While a session reports itself synced, the overlay it shows is the one  *)
(* in the shared maps, through local edits that do not rebuild the cache,  *)
(* remote ones that do, undo, and rejected updates in between              *)
(* (session.ts, onMapChange).                                              *)
SyncedShowsMaps ==
    \A c \in Client : status[c] = "synced" => cache[c] = Materialized(doc[c])

(* When nothing is in flight on an admitted writer's connection, its       *)
(* document is the room's: edits made while the connection was down reach  *)
(* the relay with the state exchange of the next one (transport.ts,        *)
(* sendState and onUpdate).                                                *)
QuietIsConverged ==
    \A c \in Client :
        sock[c] = "open" /\ CanWrite(c) /\ up[c] = << >> /\ down[c] = << >> => doc[c] = room

(* The writes in the frames of a connection.                               *)
Carried(q) == UNION {q[i].writes : i \in {j \in DOMAIN q : q[j].tag = "doc"}}

(* A tab is a member once the AUTH frame it sends first has been read, for *)
(* as long as its socket is open; without one nothing is in flight.        *)
ConnectionOK(c) ==
    /\ stopped[c] \/ timer[c] => sock[c] = "closed"
    /\ Member(c) => sock[c] = "open"
    /\ sock[c] # "open" => up[c] = << >>
    /\ ~Member(c) => down[c] = << >>
    /\ \A i \in DOMAIN up[c] : up[c][i].tag = "auth" => i = 1 /\ ~Member(c)
    /\ sock[c] = "open" /\ ~Member(c) => 1 \in DOMAIN up[c] /\ up[c][1].tag = "auth"

(* What a tab and the room lack of each other is in flight between them.   *)
InFlight(c) ==
    /\ Carried(up[c]) \subseteq doc[c]
    /\ Carried(down[c]) \subseteq room
    /\ sock[c] = "open" /\ (CanWrite(c) \/ ~Member(c)) =>
          doc[c] \subseteq room \cup Carried(up[c])
    /\ Member(c) => room \subseteq doc[c] \cup Carried(down[c])

(* The inductive strengthening of QuietIsConverged.                        *)
ConvergeInv == \A c \in Client : ConnectionOK(c) /\ InFlight(c)

(* Two tabs' seeds never meet in one room, unless one of the seeders lost  *)
(* a connection it had been granted the seed on (main.ts, maybeSeed).      *)
Seeders == {w.by : w \in Writes(room, "text")}
OneSeedUnlessStale == Cardinality(Seeders) > 1 => Seeders \cap stale # {}

(* The tabs that have been granted the seed; D has no seed but of T.       *)
Granted == stale \cup {c \in Client : seedGranted[c]}
SeededBy(D, T) == \A w \in Writes(D, "text") : w.by \in T

(* Who holds a grant on the connection it came on is the relay's seeder; a *)
(* tab that seeds without a grant has left the relay for good.             *)
GrantOK(c) ==
    /\ stopped[c] \/ transportConnected[c]
    /\ stopped[c] \/ SeededBy(doc[c], Granted)
    /\ seedGranted[c] /\ c \notin stale => seeder = c /\ sock[c] = "open"
    /\ \A i \in DOMAIN down[c] : down[c][i].tag = "seed" => seeder = c

(* The inductive strengthening of OneSeedUnlessStale, with ConvergeInv.    *)
SeedInv == SeededBy(room, Granted) /\ \A c \in Client : GrantOK(c)

(* A move deletes no other entry from the shared overlay, whatever a peer  *)
(* sent before: a rejected update degrades to a warning, not to a desync   *)
(* (session.ts, onMapChange).                                              *)
ShownBeforeRemoved ==
    [][\A c \in Client, k \in Override :
         (\E v \in Val : MoveNode(c, k, v)) =>
            \A j \in Override \ {k} : Entry(doc[c], j) \in Val => Entry(doc'[c], j) \in Val]_vars

(* Once a transport has stopped, whatever still fires - a late close, the  *)
(* retry it had scheduled - neither revives it nor surfaces a close again. *)
StopIsFinal ==
    [][\A c \in Client : stopped[c] =>
         /\ stopped'[c] /\ surfaced'[c] = surfaced[c]
         /\ sock[c] = "closed" => sock'[c] = "closed"]_vars

(* A transport that is not stopped is never left without a socket or a     *)
(* retry to come: in the end it is open or has given up.                   *)
Settles == <>[]\A c \in Client : sock[c] = "open" \/ stopped[c]

(* A tab that gives up on the relay does not keep a blank editor waiting   *)
(* for a grant (main.ts, onClose).  Neither side of the implication is     *)
(* ever undone, so this is surfaced[c] > 0 ~> HasText(doc[c]) for each c.  *)
GivesUpSeeded == <>[]\A c \in Client : surfaced[c] > 0 => HasText(doc[c])
=============================================================================
