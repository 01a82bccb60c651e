# mermollusc: models, checks and proofs

TLA+ models of mermollusc, TLC runs that check them on small instances, and
TLAPS proofs of what matters most for instances of any size. Paths are relative
to the root of the repository. Line numbers are those of the modelled commit
(`PROJECT.json` maps every definition to its lines).

## 1. Inventory

mermollusc draws Mermaid-like diagrams that several people may edit at once.
Text goes through `parser` (AST), `layout` (scene) and `renderer` (SVG, canvas);
`builder` edits the text and a layout overlay by direct manipulation; `collab`
shares both through a Yjs document; `relay` (Go) admits connections to rooms,
merges and broadcasts their updates and saves them; `app/playground` is the
application around all of it.

| Component | State it keeps | Operations | Talks to | Modules |
|---|---|---|---|---|
| relay core, `modules/relay/relay/core.go` | registry of rooms; per room the document, its sockets, slots reserved by admissions, the seed grant, the save timer; per connection the phase and the frames buffered before admission | Connect, OnMessage, OnClose, admit, loadRoom, handle, dropSocket, flush, FlushAll | `Socket`, `Store`, `Authorizer`, `RoomAuthorizer` callbacks | SharedRooms, RelayCore |
| auth, roles, limits, `relay/{auth,rbac,membership,ratelimit}.go` | token bucket, membership cache | Authorize, AuthorizeRoom, CanWrite, allow | called by admit and handle | outcomes only, in RelayCore |
| stores, `relay/default_store.go`, `store/store.go` | a snapshot per room | Load, Save | called by loadRoom and safeSave | outcomes only, in RelayCore |
| relay server, `cmd/relay-server` | a send queue and an open flag per WebSocket, the registry of live sockets, the draining flag | upgrade, readLoop, writeLoop, Send, shutdown, drain | implements `Socket`, drives Core | RelayServer |
| relay in the browser, `cmd/relay-wasm` | handles of in-page connections | relayConnect, relayReceive, relayClose | the same Core in the JavaScript event loop | none (section 10) |
| collaboration client, `modules/collab/src/shell` | the shared text and overlay, the last good overlay, connection status, retry budget | connect, send, apply, writeOverrides, reconnect, undo | relay frames, the playground's callbacks | CollabClient |
| playground, history and rendering, `app/playground/src/main.ts` | document, overlay, undo history, renders in progress, stored diagram | type, edit, move, undo, redo, share, load, save, reload | layout worker, local storage, address bar | UndoHistory, SourceHistory |
| playground, canvas | pointers, tool, gestures, nudge and resize runs | pointer and keyboard handlers | document, history | CanvasGestures |
| playground, manual layout, with `builder/src/core/{groups,overrides,arrange}.ts` | groups, overrides, pins, selection, drag | group, ungroup, lock, drag, nudge, align, pin, relax, reset, prune | document | OverlayGroups |
| playground, editing commands, with `builder/src/core/patch.ts` | the AST and source map of the last good render | delete, add, paste, connect, rename, colour, group ... | parser, source text | EditCommands, SourcePatch |
| parser, `modules/parser/src` | none | parseDiagramWithSource, print | | DiagramSource, GraphParsers, RecordParsers, DiagramParsers |
| layout, `modules/layout/src` | folded cloud groups (in the playground) | a layout per family | parser, playground | SceneGeometry, ParsedDiagrams, ContainerLayouts, LaneLayouts, FamilyLayouts |
| renderer, contracts, std, icons, site and tools | none | drawing, types, tables, build scripts | each other | none |

Hard behaviour is in goroutines, timers and callbacks that race; sockets that
die at any point; work done outside locks between a check and its use; renders
that end out of order; gestures cut short by a second finger, an undo or a late
render; source spans that were taken before an earlier edit; grants and caches
that outlive what they were based on. What makes each component correct:

* **relay core** - one document per name; nobody stranded on a forgotten room;
  no edit lost between buffer, document, members and store; one seeder; closed
  is final; every admission, dead socket and empty room is eventually dealt
  with; the room cap holds.
* **relay server** - a socket that closed is torn down whatever closed it, its
  peers never wait for it; after the drain nothing is merged, and the drain ends.
* **client** - what is shown is what is shared; a quiet connection has
  converged; a stopped transport stays stopped; a lost one is retried within its
  budget; a tab is never left blank and waiting.
* **history and rendering** - the last text wins over late layouts; nothing made
  by the user is lost from storage; undo and redo move along one history.
* **canvas** - one gesture is one undo entry; runs of nudges end with other input.
* **manual layout** - groups stay a forest, move rigidly, and pins hold.
* **editing commands** - an edit changes what it names and nothing else, and
  leaves a text that parses.
* **parser, layout** - spans cover what is shown; the printed form parses to the
  same diagram; siblings do not overlap, members are in their containers, text
  order and the calendar are kept.

`PROJECT.json` lists the hazards one by one, each with its line and the
properties that would notice it.

## 2. Plan

Every module is written before anything is proved about it, in the order of the
inventory; each model is checked first, then proved about.

| Part | Specification | Run as | Abstract specification | Proofs |
|---|---|---|---|---|
| relay core | RelayCore, RelayProperties | MCRelayCore | SharedRooms | RelayCoreProofs, RelayEditProofs |
| relay server | RelayServer | MCConnection | | RelayServerProofs |
| client | CollabClient | MCConnection, CollabClient | | CollabClientProofs |
| history, rendering | SourceHistory | MCSourceHistory | UndoHistory | SourceHistoryProofs |
| gestures | CanvasGestures | MCCanvas | | CanvasGesturesProofs |
| manual layout | OverlayGroups | MCCanvas, MCOverlayGroups | | OverlayGroupsProofs |
| layouts | SceneGeometry, ParsedDiagrams, ContainerLayouts, LaneLayouts, FamilyLayouts | SmallDiagrams, MCCanvas | the style rules | FamilyLayoutsProofs |
| parser, patches, commands | DiagramSource, GraphParsers, RecordParsers, DiagramParsers, SourcePatch, EditCommands, EditProperties | MCEditCommands | | |

Left, in this order:

1. Theorems about the operators of SourcePatch.
2. Presence and comments of the client.

## 3. The relay core

### Modules

* `RelayCore.tla` - state, actions, fairness. The operators marked *Mutant* are
  faulty variants of the definition beside them; they are used by no
  specification and are there to show that each property can fail.
* `SharedRooms.tla` - what the relay promises, without goroutines, slots or
  timers: a document per name that opens as a part of what was kept, grows by
  what writers sent under that name, is delivered to its members and to nobody
  else, closes when nobody is in it, and of which at most `MaxOpen` are open.
* `RelayProperties.tla` - everything stated about RelayCore, the refinement of
  SharedRooms among it.
* `MCRelayCore.tla` and the `.cfg` files - the instances TLC checks.
* `RelayCoreProofs.tla` - the proofs about the registry and the types, and about
  members, their sockets and the seed.
* `RelayEditProofs.tla` - the proofs about edits (delivered, saved, not dropped) and
  of the refinement.

### How it corresponds to core.go

A *thread* is a goroutine with a program counter `pc`. A connection `c` has two:
`Read(c)` is the socket's read loop (OnMessage, then OnClose and dropSocket) and
`Admit(c)` runs admit and the replay of the buffered frames. Without
AuthRequired, Connect calls admit while the read loop runs. With AuthRequired
the AUTH frame's listener calls admit, so the read loop waits: `Reading(c)` then
requires the admission to be over. `Timer(e)` is the debounce callback armed by
handling edit `e`; `<<"flush", f>>` is a caller of FlushAll.

An action is one critical section, or one call outside every lock:

| core.go | actions |
|---|---|
| Connect and its listeners, 331-397 | Connect, OnMessage, OnAuthFrame, OnClose, ReaperFires, ReaperRejects |
| the socket's failure | SocketFails |
| admit, 399-506 | Authorize, LoadRoomLookup, LoadRoomLoad, LoadRoomInstall, AssignRoom, Register, CheckOpen, DecideGrant, Announce, OpenPhase, Replay |
| handle, 567-630 | Dispatch (inside OnMessage and Replay), Apply, ArmSave, Snapshot, SendPeer |
| dropSocket, 511-546 | Remove, Regrant, FlushStop, Encode, Save, Forget |
| the debounce callback, 608-613 | TimerFires, TimerClears, Encode, Save |
| FlushAll, 285-295 | FlushAllStart, FlushAllNext, FlushStop, Encode, Save |

Core.mu, docMu and conn.mu are each held for one action at most, so they are not
variables. That is also why lock order is not checked here.

Data is abstract. A document is the set of updates merged into it (Yjs updates
commute and are idempotent), so a snapshot is such a set and two documents are
equal when their sets are. `Blank` holds the updates that insert nothing. A room
instance has the name of the connection whose loadRoom created it, which makes
two instances for one name distinguishable. The rate limiter and the bound on
buffered bytes may refuse any frame. Roles are what authorizeRoom returns.
`sender`, `inbox`, `granted` and `offered` are history: they record who sent an
edit, what a socket was sent while open, who was told to seed and what
Store.Save was given, and no action reads them except to send each edit once.

Coarser than the code: `conn.reject` sets the phase and closes the socket in one
step; authorize, roomName and authorizeRoom are one step; logging, close codes
and lastViewerDropLog are left out. Sending to a peer checks IsOpen and sends in
one step, since a send to a socket that has just died is dropped by the socket.

### Fairness

`FairSpec` assumes that goroutines run, timers fire and calls to the store
return: weak fairness of each thread's steps. Peers need not connect, send or
leave, and a connection that never sends AUTH is possible: nothing is assumed of
Connect, OnMessage, OnAuthFrame and SocketFails. OnClose is strongly fair: the
read loop of a dead socket may still deliver a frame read before the failure,
but the transport returns an error in the end (socket.go, readLoop). FlushAll
need not be called; once called it runs.

### Runs

Passing:

* **relay_edits** - two connections, a writer or a reader each, two names, one room
  slot and one edit, no AUTH. *NoMissedEdit*: every edit in a room's document has
  reached, or will be sent to, each live member whose admission has announced the
  state. The interesting order is register / encode / apply / peers, in every
  interleaving. *ImplementsRooms*: every step is one of SharedRooms, under the
  refinement mapping `Text` and `Members` (of the room registered under a name),
  `Sent` (by a writer whose connection has that name), `inbox` and `offered`.
  What could go wrong is in what a thread does with facts of an earlier step: a
  room installed over one that came during the load or beyond the cap, a
  broadcast to peers taken before they left, a snapshot saved under a name after
  the room has gone, a handle that merges into a room that is no longer there.
* **relay_churn** - three connections on one name, no AUTH. *NoFork* needs three: one
  leaves, one is between loadRoom and its registration, one arrives afterwards.
  *OneSeeder* and *NoDeadMember* are checked in the same state space.
* **relay_auth** - two connections, two names and one room slot, with AUTH, denials, the
  handshake reaper, failing loads and saves. Safety (*NoGhostRoom*,
  *NoDeadSeeder*, *ClosedIsFinal*) and, under FairSpec, liveness
  (*AdmissionEnds*, *RoomsAreForgotten*, *DeadSocketsEnd*).
* **relay_saves** - one connection, two edits, a buffer of two frames, all roles and an
  authorizer that may fail, and one FlushAll. *NoUnsavedEdit* and, under fairness,
  *EditsReachStore*: with two edits a timer is re-armed, stopped, or has fired
  and waits for the lock while the other is armed. *NoDroppedEdit* covers the
  hand-over from buffering to direct handling.

Each run has CHECK_DEADLOCK FALSE: connections are used once, so the system
stops when all of them are gone.

Refuted (PROJECT.json quotes the comment each contradicts):

* **relay_forgotten** - a joiner that edits and leaves during the last leaver's flush: the
  room is forgotten while the store still has the older snapshot. Malformed updates
  are among the frames.
* **relay_torn_down** - everyone is gone and the registry is empty, but a debounce
  callback that had fired still holds, or has just overwritten, the last
  snapshot; FlushAll waits for no such callback.

Seen in the model, without a run of their own: without AUTH a connection torn
down between admit's IsOpen check and the grant decision becomes the seeder
after its own dropSocket, and the empty room grants the seed to nobody else
(with AUTH *NoDeadSeeder* passes, because OnClose then runs after admit on the
same goroutine); a viewer may be granted the seed it cannot use; and a load that
began before a room of that name came, was edited, saved and went installs the
older snapshot.

### Bounds

Connections, edits and FlushAll callers are used once each, which bounds every
counter. Two connections are enough for each race between one leaver and one
joiner, three for a fork. `MaxRooms` is 1, so that the cap is reached with two
names, and `MaxPendingFrames` 1 or 2, so that the buffer overflows. Frames with
an unknown tag and awareness frames are modelled but not in these instances: the
first take the path of a viewer's edit, the second only Snapshot and SendPeer.
Malformed updates are in the instance of relay_forgotten only: they end in Apply.
Symmetry, of connections, names and edits, is used in the runs without liveness
properties.

### Proofs

`RelayCoreProofs` proves, for any finite set of connections and any sets of
names, edits and FlushAll callers:

* `RegistryInvariant`: `Spec => []RegistryInv`
* `NoGhostRoomHolds`: `Spec => []NoGhostRoom`
* `NoForkHolds`: `Spec => []NoFork`
* `ClosedIsFinalHolds`: `Spec => ClosedIsFinal`
* `RoomCapHolds`: `Spec => []RoomCap` (in no run of its own: the cap is the guard
  of SharedRooms' Open, which relay_edits checks)
* `TypeCorrect`: `Spec => []TypeOK`

NoGhostRoom is not inductive: Forget deletes a room on the strength of its
`pending` counter, so the counter must be exact (*PendingExact*: it is the
number of admissions between loadRoom and their registration); Register must
then find the room it was given still registered; a new room must not have been
referred to before it is created (*NoEarlyRoom*); the name under which a room is
registered, loaded and dropped must be the same (*NamesAgree*); and a member
must not be removed before its admission has ended or closed
(*AdmissionsAgree*). RegistryInv is their conjunction. NoFork follows: an open
connection is a member of its room, a room with a member is the registered one
of its name, and a name has one registered room.

The steps fall in two groups. `NeutralStep` covers every step that leaves the
registry, memberships and slots alone, whatever else it does; `BodyStep`,
`OneThreadMoves` and `AdmitMoves` specialise it. Connect, Join, Install, Assign,
Register, Remove and Forget have a lemma each. ClosedIsFinal and RoomCap rest on
the same invariant: the first on the phases it allows in an admission, the
second on a step adding at most one name, which only LoadRoomInstall does, below
the cap.

TypeOK needs more. That a thread's `Inst` is a room, that the edit it arms a
timer for is an edit of its own connection, that the member it grants the seed
to and the room FlushAll flushes exist, holds because an earlier step of the
thread saw to it. *LocalsAgree* says so; RegistryInv, TypeOK and LocalsAgree
together are inductive (`TInvStep`, one lemma per group of actions; `ConnMoves`,
`HandMoves` and `LocalsKept` say what a step may do without disturbing
LocalsAgree).

On top of those it proves:

* `MemberInvariant`: `Spec => []MemberInv`
* `NoDeadMemberHolds`: `Spec => []NoDeadMember`
* `OneSeederHolds`: `Spec => []OneSeeder`
* `NoDeadSeederHolds`: `AuthRequired => (Spec => []NoDeadSeeder)`

A room's seeder is whoever its `seedGranted` names, but a connection is told of
its grant later, outside the lock, and both may have changed by then. MemberInv
has what connects them: whose turn it is between the read loop and the admission
(*TurnsTaken*: with AUTH, OnClose finds the admission over), where an admitted
connection is registered (*MembersPlaced*), what a dropSocket that has begun has
already removed (*LeaversGone*), that the grant a thread carries is the room's
(*GrantsAgree*), and that a room grants only to its members (*SeedersAreMembers*).
Without AUTH the last of the four theorems is false, for the reason given under
Runs, and TLC shows it; hence its hypothesis.

`RelayEditProofs` proves:

* `DeliveryInvariant`, `NoMissedEditHolds`: `Spec => []NoMissedEdit`
* `SaveInvariant`, `NoUnsavedEditHolds`: `Spec => []NoUnsavedEdit`
* `FrameInvariant`, `NoDroppedEditHolds`: `Spec => []NoDroppedEdit`
* `OriginInvariant`, `RoomsRefined`: `Spec => ImplementsRooms`

*DeliveryInv* follows an edit of a room's document to each member: it is in the
member's inbox, or in the snapshot a joiner has taken and not yet been sent, or
the thread that merged it is still before it in its list of peers. The argument
is the order of admit, which registers the member first and encodes the document
afterwards, so that an edit misses the snapshot only when its sender already sees
the member. *SaveInv* follows an edit to the store: it was offered to Save, or
a timer of the room is armed or has fired, or a handle is about to arm one, or a
flush to encode. It says that a room's `saveTimer` is a timer of that room, so that
ArmSave, which stops it, replaces it by its own, and FlushStop, which stops it,
encodes instead; and that a document that is loaded was once saved. *FrameInv*
follows an edit from the socket through the buffer and the replay to handle: that
of a pending connection is in its buffer, one that is being broadcast is in the
document.

`RoomsRefined` is the relay's contract. *OriginInv* is what it needs besides the
earlier invariants: what a thread merges, saves or sends was sent by a writer under
the name of its room; a snapshot is a part of the document it was taken of; a peer
a broadcast has still to reach is a member of the sender's room or its socket has
died; a closed connection's socket has. Then LoadRoomInstall is an Open, Register a
Join, Remove a Leave, Apply a Merge, Announce and SendPeer a Deliver, Save a Keep,
Forget a Close, each with a lemma that also covers the case in which nothing
abstract happens (a joiner that finds the room installed, a room that was kept, a
dead peer). Every other step is a Send or a stutter (`QuietRooms`): an edit counts as sent when it
has reached the relay and its connection's role is known, hence Send also covers
Authorize. A replay that outlives its connection may merge into a room that has
been forgotten; that too is a stutter, no document being open for it.

The invariants about edits are proved along the same lines: `Edges` and `StepEdges` list the pairs
of program counters a thread may move between, `OwnSteps` what a step changes
besides its own thread, `BackgroundMoves` and `DocMoves` the steps that leave
documents alone or only add to them. Each invariant was first checked with TLC on
the instances of the runs.

Assumptions: the named ASSUMEs of RelayCore on its constants (finite sets of
connections and names, None in none of them, an edit is none of the other
frames); TLC evaluates them in every run. The inductive invariants are proved
and in no run.

Checked with TLC only: liveness, which is out of the prover's reach, and the two
properties that are refuted.

## 4. The relay server

`RelayServer.tla` has the process around the core: for each WebSocket the
goroutine of its request (`Accept`, `Add`, `Register`, `Admit`,
`HandlerReturns`), its read loop (`Read`, `ReadFails`, `OnClose`) and its write
loop over a bounded queue (`WriteStarts`, `WriteEnds`, `WriterStops`); the
registry of live sockets; and the process's main goroutine from the signal over
`DrainCloses`, the wait for the handlers and `FlushAll` to `Exit`. A socket's
`open` flag is what `shutdown` clears once; `up` is the connection itself, cut
at once by CloseNow, later by Close (`ConnCloses`), which waits for the closing
handshake. Peers read, stall or go away as they like (`PeerChanges`).

The core is one room without AUTH and an edit is a frame: what the module asks
is what the shutdown of sockets does to the core's calls, in whatever order the
goroutines run. A read loop that has taken a frame from its connection goes on
to merge it although the socket was closed meanwhile; a request in the middle of
its upgrade is not in the list that drain closes.

Fairness: goroutines that can run do; a write ends or times out (socket.go,
writeTimeout); a closing handshake is bounded; admission answers. Nothing is
assumed of peers, of new connections or of the signal.

* *NoEditAfterDrain* - after drain has returned no edit is merged and nobody is
  in the room, so FlushAll sees everything there is.
* *SocketsEnd* - each socket that closes, by whatever cause, is torn down and
  its handler returns; a drain therefore ends.

Proved in `RelayServerProofs`, for any connections, queue and number of edits:
*RegistryExact* (the registry holds exactly the sockets whose handlers are
between add and remove, and main is past its wait only when it is empty) and
*NoEditAfterDrainHolds*. The invariant is `TypeOK`, `ConnOK` (what the three
goroutines of a connection may be doing together) and `MainOK` (after the drain
the registry is empty and stays so, because add refuses).

The run is `connection`: MCConnection takes a behaviour either of RelayServer or
of CollabClient. They share no state here - each has a coarse copy of the other
side - so a product would add nothing but states. Two connections and a queue of
one frame are enough for a full queue while a broadcast is sent, for a socket
added around the drain, and for one closed twice.

## 5. The collaboration client

`CollabClient.tla` has, for each tab, the reconnecting transport (transport.ts),
the session (session.ts) and the seed gate of main.ts, and one relay room whose
frames travel in order per connection and are lost with it.

| code | actions |
|---|---|
| transport.ts: open, close, retry, disconnect | SocketOpens, ConnectFails, Drop, Rejected, RetryFires, Disconnect |
| session.ts: moveNode, resizeNode, clearOverrides, setEdgeStyle, setNodeStyle, replace, undo | MoveNode, ClearOverrides, SetStyle, Replace, Undo |
| session.ts: applyUpdate, onMapChange, materialize | Receive with Integrate, Rematerialize |
| main.ts: maybeSeed, onControl, onClose | SeedTimer, Receive, Surface |
| the relay: admit, handle, dropSocket | Admit, Handle, Lost |
| a peer outside the model | ForeignWrite |

A document is a set of writes with Lamport stamps; an entry's value is that of
its latest write and concurrent ones are ordered by writer. That is what the Yjs
map, which is not in this repository, is used for. Text is only seeded: the
session is asked whether it is empty. An update without writes is not sent,
though the code does send an empty diff. Presence, awareness, comments and the
IndexedDB copy are left out.

Fairness: timers fire, a connection attempt opens or fails, and frames on an open
connection arrive. Users, drops, rejections and peers owe nothing.

In the run `connection` (bounds: two tabs, one override and one style, one drop,
one edit and one foreign write, three of these together with undos; one retry):

* *SyncedShowsMaps* - a synced session shows what is in its maps;
* *QuietIsConverged* - an admitted writer with nothing in flight has the room's
  document, also after edits made while the connection was down;
* *OneSeedUnlessStale* - two seeds meet only if a seeder had lost the connection
  its grant came on; that exception is real: the tab keeps `seedGranted` over a
  drop while the relay passes the grant on;
* *StopIsFinal*, *Settles*, *GivesUpSeeded* - a stopped transport stays stopped,
  one that is not is never left without socket or timer, and a tab that gives
  up is not left blank.

`Settles` and `GivesUpSeeded` are `<>[]` formulas: each speaks of facts that no
later step undoes, so they say what a leads-to would.

**collab_removes** refutes a comment of session.ts (quoted in PROJECT.json): after
a corrupt remote entry the cache is frozen, and the next local move deletes what
the frozen cache lacks.

`CollabClientProofs` proves, for any finite set of tabs and any keys, values and
retry budget, `TypeOK`, `SyncedShowsMaps` and `StopIsFinal`. The first two are
inductive together: that a local edit leaves the cache equal to the maps needs
every document to have a winning write per key and a local write to be later
than all of them (`ClockFacts`, `LocalEntries`, `DiffFacts`), and an undo needs
only that its writes are one document (`StampDocument`), the cache being rebuilt
from it. It proves besides:

* `ConvergeInvariant`, `QuietIsConvergedHolds`: what a tab and the room lack of
  each other is in flight on the tab's connection, in one direction or the other
  (*ConvergeInv*); with nothing in flight they are equal. The invariant has to
  follow edits made before the admission, which its first exchange carries, and
  what a lost connection takes with it.
* `SeedInvariant`, `OneSeedUnlessStaleHolds`: a seed in the room was written by a
  tab that had a grant, and a tab whose grant is of its present connection is the
  relay's seeder (*SeedInv*); so of two seeds one was written on a stale grant.

The liveness properties are checked with TLC only.

## 6. The playground: history and rendering

`SourceHistory.tla` models main.ts outside a shared room: the editor with its
typing bursts, the overlay commands, undo and redo, the asynchronous renders
(`seq` is renderSeq; a layout that ends is published or dropped, then icons are
loaded and the picture drawn again), the prune of dead overrides, the cooldown
with its trailing render, what is saved and what a reload finds. A text is a
model value with its set of nodes, or broken, or blank, or without a layout.

What takes more than one step in the code takes more than one here:

* a drag (`DragStart`, `DragMove`, `DragEnd`, `Pinch`) keeps the ids it had at
  pointerdown (main.ts:4228) and writes them with each move (4418-4420), whatever
  was rendered meanwhile; it is saved by pointerup alone, and dropped unsaved by a
  second finger;
* a node that is placed, duplicated or pasted (`PlaceNode`) is moved when the
  render its command awaits is over, overtaken or not (3958-3963): `place` of a
  render in flight;
* a canvas edit of the source (`EditSource`) works from the last scene on the text
  of the moment. No command asks whether the two belong together. `enabled` is what
  applyKind sets: the layout buttons are off while a text that does not parse is in
  the editor, and no longer; Reset has a way in that is never off.

`UndoHistory.tla` is what an undo promises: past, present and future; a change
remembers the present, undo and redo move along, the past is capped. The present
changes without being remembered only in what its constants allow: the rest of a
burst of typing that has been remembered (`OnlyTypes`), the rest of a recorded
drag or placement, which may only pin (`OnlyPins`), and `Forgets`, the losses of
this code by name: the overrides Regenerate drops and the groups a render prunes.
Section 9 says which comments those two contradict. The refinement *IsHistory*
(`INSTANCE UndoHistory WITH past <- undoStack, present <- Now, future <- redoStack,
typing <- typing, placing <- Placing`) is checked and proved.

Fairness: the layout worker and the icon loader answer, timers fire.

Run **source_history**: two texts with different nodes and one that does not
parse, three operations, one reload, a history of two entries, so that it
overflows. Three operations are an edit during a render during another, a drag or
a placement around an edit of the text, or a change, an undo and a change.

* *LastTextShown* - with nothing under way, the canvas shows the editor's text;
* *OwnTextSaved* - what the user has typed is stored with the keystroke, through
  queued renders, undo, restores and reloads;
* *Settles* - the last keystroke of a burst is drawn in the end;
* *IsHistory* - every step is one of UndoHistory.

Nothing is said of overrides of nodes that are gone: a drag or a placement that a
render overtakes writes them (section 9).

`SourceHistoryProofs` proves all of these but *Settles*, for any texts, nodes and
cap (`LastTextHolds`, `OwnTextHolds`, `HistoryRefined`; `TypesHold` for the types
and the cap on the two stacks together). The invariant is TypeOK with three parts:
*RenderInv* (which of the renders in flight is the newest and what it was started
for), *OwnTextSaved* and *SnapInv* (outside a burst of typing the text the next one
would remember is the editor's). `HistoryRefined` goes action by action:
a change, an undo, a redo, a restart, or an amendment of the kinds above.

## 7. The canvas

Three specifications that share no state in the model are one run,
**canvas** (MCCanvas), a behaviour being of one of them: the other two stay as
they were at the start.

`CanvasGestures.tla`: which gesture a pointer starts, what it changes and when it
ends, under a second finger, a cancelled pointer, undo and redo by keyboard,
late renders and the debounced runs of nudges and keyboard resizes. Layout and
source are version numbers. A gesture the browser cancels is not told
(main.ts:4000-4006) and goes on with the next moves, so two may be under way.

*OneUndoPerGesture*: a gesture that changed the layout leaves, when it is over, one
entry more than there was when it began, and that entry is the layout from before;
it may be over because the pointer went up, a second finger made it a pinch, or
the next press took its place after a pointercancel. `began` remembers
entries and layout of the start, and is forgotten when another input changes the
document meanwhile. A gantt bar is the exception the code makes: when its dates
are written, or refused, a second entry may be on top. *NudgesUndoable*: a run of
nudges ends with an undo. Bounds: two changes, two pointer presses, a flowchart
(layout gestures) and a gantt chart (gestures that write the source, by a click on
a corner, a drag by a day or more, or not at all), editor and viewer.

`CanvasGesturesProofs` proves both for any families, roles and bounds
(`OneUndoHolds`, `NudgesUndoableHolds`). The invariant, *GestureInv*
(`GestureInvariant`), says besides types that until its first move a gesture has
changed nothing and from then on the entry above those it began with is the layout
from before (*EntryTaken*, over each handler's Recorded flag), and that there is
nothing to redo during a run of nudges (*RunHasNoRedo*).

`OverlayGroups.tla`: the builder's group forest, overrides with pins, and the
commands over them: select, drag, nudge, align, group, ungroup, lock, pin, relax,
regenerate, reset, and an edit of the text that makes nodes come and go, also
while a drag is under way: the render that lands prunes groups and overrides, and
the drag keeps its ids. The commands of the keyboard and of the buttons are not
modelled during a drag. Coordinates are one-dimensional and small (`MaxAt`), four
nodes of which one is a container and one is in it, and saved groups that are
nested and locked.

*Forest*: the groups stay a forest over the drawn nodes. *GroupsMoveRigidly*: a
drag, a nudge or an alignment moves the leaves of a top group that are under no
lock by the same distance; nothing is said of those under a lock, which the code
moves along and its comments call not movable (section 9). *PinsHold*: what is
pinned and stands alone is moved by direct moves and resets only.

`OverlayGroupsProofs` proves the three for any nodes, container, saved groups and
bounds (`ForestHolds`, `GroupsMoveRigidlyHolds`, `PinsHoldHolds`), from one
inductive invariant, *LayoutInv* (`LayoutInvariant`; TLC has checked it too).
*WellFormed* is stronger than Forest: a group is older than the groups it is in,
since it must exist to be grouped. That is
what makes the two recursions of groups.ts provable. The groups above a node
(`ChainFacts`) are the least set closed under parents: what round k adds is newer
than k groups, so nothing is left to add after MaxGroups rounds. A prune
(`PruneFacts`) has settled when it ends: a group that goes in round k + 1 lists one
that went in round k and is newer than it. Both need induction up to a bound and a
function that iterates a step; `UpTo` and `Iteration` get them from the fact that
a set of numbers has a least element (`LeastNat`, by WFMin of the library).
`OneTop` says that a node has one top group, and `UnitIsGroup` that a unit with one
leaf of a top group is that group: hence what a drag, a nudge or an alignment takes
of a group is all of it (`TakenWhole`). *DragOK* says that a drag holds all of a
top group or none of it (*HoldsGroups*) and that all it holds of groups has come
equally far (*Together*), which is why a pointer may move in several steps
although the text loses nodes and groups between them. The assumption `Saved` is what this program saves: members that are nodes or older
groups, in one group each, none empty; ids may be missing.

### Layouts

`FamilyLayouts.tla` with `ContainerLayouts` (block, network, cloud, C4) and
`LaneLayouts` (sequence, timeline, git graph, gantt): the layouts computed with
integers, as functions from a diagram to a scene of boxes, laid out again on each
edit and each folding of a cloud group. The loops of the code are functions over
the number of rounds done, its recursion over the nesting a function of the
element, which places a box relative to its container; `Boxes` then adds the
places up from the outside. *SceneSound* states the style rules of
`layout/src/core/invariants.ts` and more, as a definition of what a good scene
is, independent of how it is computed: siblings do not overlap, members are
inside their container, edges end on drawn boxes, no two boxes have one id, the
extent covers everything, the order of the text is kept, and there is a scene
exactly when everything the text refers to is declared and no group the layout
goes into is nested deeper than `MaxNestDepth` (`EndsDeclared`; 64 in the code, 2
in the run, any number in the proof; C4 has no such cap). *ScheduleSound* states
each bar by the calendar.

A day has `TicksPerDay` ticks, 2 in the run and any positive number in the proof:
a duration is a number of ticks, as `12h` and `1.5d` are fractions of a day in the
code. Fractions that are binary are exact there too; one like `8h` is rounded to a
double, and that rounding is not modelled. The comment at gantt.ts:67-69, that
no work is done on a day off, holds for whole days; with fractions a walk that is
not at midnight asks about that time of day only, so it may work into a day off or
pass it by. ScheduleSound says what holds with both: a bar starts at the first
moment that works at the time of day of what it waits for, and spends as many
working moments a day apart as its duration begins.

`ParsedDiagrams` says what a parser yields (`WellFormed`, the assumption on
`Diagrams`): parents are groups and nesting has a depth, spans are positive,
commits follow their parents, labels have a width, durations are numbers of
ticks. Every condition is one the `*-parse.ts` of the family establishes; what a parser lets
pass - unknown references, ids declared twice - is left in. Three exceptions are
stated where SceneSound is, each being what the code does:

* `Heads`: the lanes of a vertical git graph are as far apart as its widest
  commit asks for, whatever the width of a branch name. Two heads may then overlap
  (unless `HeadsApart`), and the first may stick out to the left (unless
  `HeadsInside`): in the default style they nearly always do. All other boxes of
  such a graph, and everything else said of it, are as in any other diagram;
* `DeclaredOnce`: the parsers of the cloud and of a chart let a text declare an id
  twice, and an actor may be called as a note is (`note0`); both are then drawn,
  as two boxes of one id;
* not in the model at all: a commit whose explicit id is `branch:` and the name of
  a branch.

`SmallDiagrams` has the inputs of the run: up to four elements, nested, with
narrow, wide and wrapping labels, spans and columns, groups deeper than the cap,
forks and merges in all directions and styles, weekends, half days and
dependencies, and diagrams that meet each exception and each error.

`FamilyLayoutsProofs` proves, for any set of diagrams parsers may yield:

* `ScheduleHolds`: `LayoutsSpec => []ScheduleSound`
* `SceneHolds`: `LayoutsSpec => []SceneSound`, all eight families.

The lemma `LayoutShown` (the scene is the layout of the diagram and of what is
folded) reduces both properties to facts about the layouts as functions. None of
them is by induction over a data type, which the prover lacks; what takes its place:

* *Loops.* `UpTo` (a set of numbers has a least element) and `Loop` turn a
  function over rounds into facts about each round: `Cursor` and `CursorPasses`
  (a cursor that takes steps), `ThoseHolds` (what a filter keeps), `Schedule`,
  `SlotsPlaced` and `ShelvesPacked`.
* *The calendar.* nextWorking has no bound in the code. `WorkSoon` gives one: with n
  dates off, one of any 3n + 3 moments a day apart is a working one, for of three
  days in a row one is a weekday, and n + 1 such threes cannot each hold a date of
  their own (the pigeonhole theorem of the library). Hence `NextWorkingFirst`;
  `DaysTaken` splits a duration into its days and the rest, and
  `WorkingEndSpends` counts the working moments before an end.
* *Flat scenes.* `FlatScene` reduces the style rules of the lanes to boxes that are
  clear of one another; each family shows why its boxes are (`RowsOrdered` for
  notes between messages, `RunsApart` for the bands of a timeline, `GitCoordinates`
  for every assignment of lanes that tidying may choose).
* *Nesting.* A diagram has a depth, so an induction over ranks (`RankInduct`) takes
  the place of one over trees: upwards for sizes (`KidsRecursion`), downwards for
  places and anchors (`ParentsRecursion`). It also shows that the recursive
  functions of the model are well defined.
* *Packings.* `GridPacked`, `BlockPacked` and `ShelvesPacked` say of the three ways
  of arranging boxes that no two cells overlap, whatever the sizes; that of the
  block layout needs that an item is as wide as its columns unless it fills its
  row (`BlockGood`), which is why itemOf clamps the span and not the box.
  `ArrangedFit` puts a packing into each container, `BoxesSound` turns that into
  the style rules of the whole scene.
* *Folding.* `AnchorSolved`, `AnchorsShown`: what stands for an element is drawn,
  and so is the container of what is drawn; links therefore end on boxes.

## 8. Editing commands and parsers

`DiagramSource` has a text as a sequence of statements and the result of a parse
with its spans; `GraphParsers` and `RecordParsers` the sixteen families' grammars
as folds over the statements; `SourcePatch` the patches of builder/src/core/
patch.ts; `EditCommands` the commands of main.ts over both, with the inline
editor that stays open while the text changes, and deletion, which awaits a
render before it declares again the nodes that its lines had declared inline.
Characters, escapes, colours, arrow kinds and styling are abstracted: a span is a
place, a line and a position in it. Branches of a git graph, `main` among them,
and notes of a sequence are items that can be selected; a blank line stays where
an event of a timeline was.

A command takes its spans, ids and labels from the last render (`shown`) and edits
the text as it is, which may be ahead: no command of main.ts asks. `Type` puts a
statement in front or takes the first one away between any two steps, in particular
while a deletion waits and while the inline editor is open; it stands for a peer
of the room too. An edit whose spans are not those of its text is carried out
all the same (at that place, if the text still has one), and is marked `fresh =
FALSE` for the properties.

Run **edit_commands**: one small source of each family, chosen for what is hard
about it (nesting, inline declarations, chains, bodies, implicit ids, notes, a
merge into `main`, mindmaps indented by two and by four), and every sequence of
two edits with every selection of up to two items.

* *LabelSpans* - in every family, after every edit, the span of a node covers the
  label shown. The exception is a node that a network, a sequence, a state
  diagram, a C4 diagram or a cloud declares twice (section 9).
* *PrintRoundTrips* - the printed flowchart parses to the same diagram.
* *DeleteSound* - what was not deleted is there, what was deleted is not, nothing
  else is new, and the text parses. Left out by name: several items of a family
  that finds them by their place (`ByPlace`; the refuted run is about those), a
  period whose events stand below a blank line, a container as far as an edge still
  mentions it or it is in a digraph, and the notes of a sequence, which are
  numbered again.
* *EditsKeep* - no other command loses or relabels a node but the one renamed.
  Left out: pasting into an imported digraph, grouping and reshaping its nodes, all
  of which write flowchart syntax, and the renaming of a composite.
* *MovesSound* - a node moved in a mindmap or a timeline takes along what is under
  it, and nothing else moves, in a mindmap indented by IndentStep. With four spaces
  a sibling may become a child: section 9.
* *TypedStays* - a node that was typed and not rendered yet outlives each command
  that finds what it edits by identifier, unless it shares a statement with what is
  deleted, and the declarations a deletion makes afterwards.

The first five speak of edits made with fresh spans. A span used on a text that has
been typed on may hit any line; the model has those steps, and no property holds
of them but *LabelSpans*, which speaks of the render alone, and *TypedStays*.

**edit_deletes_all** refutes a comment of main.ts (quoted in PROJECT.json): deleting
several commits from the top shifts the spans of those below.

The parsers fold recursive definitions over the statements, and what an edit does
is stated of the text they parse again: the six properties of this run stay with
TLC, since RECURSIVE operators, and induction over a text, are out of the
prover's reach. So do all liveness properties and whatever speaks of ENABLED.
CHECK_DEADLOCK is FALSE in
the runs of sections 4 to 8, because operations, drops and reloads are bounded.

## 9. Observed while modelling, without a run of their own

Reading the code for the models turned these up; none is needed by a property.

* cmd/relay-wasm/main.go runs relayReceive's handler inline in a JavaScript
  callback. A rejection inside it reaches jsSocket.Close, dropSocket, flush and
  jsStore.Save, which awaits a promise the blocked event loop cannot settle;
  main.go:14-18 forbids just that.
* main.ts:830: applying a history entry ends a run of nudges but not a run of
  keyboard resizes.
* main.ts:5849-5861: a nudge of a member of an unlocked group moves the members
  of its locked subgroups too; only the selected node's own path is asked.
* Relax moves a pinned node that is inside an unpinned container; aligning a
  container does not take its contents along.
* main.ts:5032-5047: by keyboard, a viewer may open the inline editor of a label.
* main.ts:4029-4034: a second finger does not cancel the drag of a label, a
  waypoint or an endpoint.
* main.ts:4471: one drag of a gantt bar takes two history entries, the second on
  top of that of its first move (4396).
* main.ts:2655: ungrouping deletes the members that only the group declares.
* A reload keeps the address bar's text and overlay over the stored ones.

Where a comment and the code disagree, besides the runs that refute one:

* main.ts:6760-6761 calls Regenerate undoable; it records in doc.record(), which the
  undo of a tab outside a room never reads (6776). main.ts:3461-3462 says that of
  the prune; one that drops groups alone records nothing (3489-3493). Both are
  `Forgets` in SourceHistory.
* main.ts:3458-3459: overrides of nodes that are gone are pruned so that none
  lingers; a drag keeps its ids over a render (4228, 4418-4420), and a node is
  placed after a render that was overtaken (3958-3963). Either leaves an override of
  a node that is not there until the next prune.
* main.ts:5847-5848, 4208-4210, groups.ts:83 and STATUS.md:207 of the playground:
  what is under a locked group does not move. A drag, a nudge or an alignment of an unlocked group
  takes its locked subgroups along.
* main.ts:3118-3121: stale ids of folded groups are filtered out, so a collapse
  never lands on the wrong group; a cloud group's id is its position
  (cloud-parse.ts:96), so after an edit another group may be folded.
* main.ts:4029-4036: a second finger drops a drag that has moved without
  doc.persist(), so a reload before the next change forgets it.
* gitgraph.ts:120-121: neighbouring labels never collide. The pitch of vertical lanes
  ignores the heads.
* gantt.ts:67-69: no work on days off; with fractions of a day there is (section 7).
* contracts/src/core/source.ts:70-71, 103-108, 118-120: the span of a node covers
  its label. A node declared twice has its label from one declaration and its
  span from another in a network (net-parse.ts:128-137), a sequence
  (seq-parse.ts:86-89) and a state diagram (state-parse.ts:226-235).
* patch.ts:344-348: a moved node of a mindmap takes its subtree along and
  nothing else; it is re-indented by IndentStep (379), while mindmap-parse.ts:92,
  107 accept any indentation, so a following sibling may end up under it.

And of the editing commands:

* A command does not ask whether the last scene is that of the text: 5693-5719 (delete),
  5321-5332 (connect), 5216-5223 (duplicate), 5284-5292 (paste). Ids it makes up are
  new in the scene only (5187, 5219, 5291).
* When typing overtakes the render a deletion awaits, the repair compares with the
  scene from before the deletion, and declares nothing again (5759-5777).
* Notes of a sequence are deleted by span in the order of selection (5521-5526),
  though 5673-5676 says that such families go bottom-up; the one below a deleted note
  is then a line further up. After the deletion of a note the last number is
  missing, and is declared again as a participant of that name.
* patch.ts:454-463 leaves a blank line where an event was, at which the scan of
  deleteTimelinePeriod (477) stops: the events below it are orphaned.
* A cluster of an imported digraph cannot be deleted; a paste into one writes
  flowchart syntax.

## 10. Not modelled, and why

* renderer, contracts, std, icons, site and tools: drawing, types, tables and
  build scripts; no state that outlives a call.
* cmd/relay-wasm: the same Core behind handles; what is hard about it, the single
  event loop, is a deadlock between JavaScript and Go's scheduler that no state
  of this program shows. See section 9.
* rate limiter, membership cache, file store: their outcomes are in RelayCore
  (a frame refused, a role or an error, a load or save that fails). Their insides
  are real-valued time and file-system calls.
* the Yjs merge, frame encoding, origin policy: a library, and wire formats.
* a crash of the relay: it restarts empty and loads snapshots, which is a load in
  RelayCore; what a crash loses is what has not been saved, by design.
* ELK, the edge router, the force simulation, pie and mindmap angles: external or
  floating point. A flowchart's place is therefore an input in OverlayGroups.
* menus, dialogs, export, minimap, snapping, rubber bands, style overrides,
  presence, comments and the IndexedDB copy of the client.

RelayAuth's outcomes and the coarse relay in CollabClient and RelayServer are not
composed with RelayCore in one run: their product is out of reach, and each
module has the other side's promises as nondeterminism.
