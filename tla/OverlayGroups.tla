--------------------------- MODULE OverlayGroups ---------------------------
(***************************************************************************)
(* The manual layout of a diagram: the sidecar groups of the builder and   *)
(* the position overrides, with the canvas operations that read one and    *)
(* write the other. A node has one coordinate: the layout puts every node  *)
(* at 0 (a column), an override puts it elsewhere. The diagram may hold    *)
(* one container and nodes inside it. The text may change while nodes are  *)
(* dragged; commands are given between drags. No room is shared and the    *)
(* page is not read-only: SourceHistory has the undo stack, CollabClient   *)
(* the room.                                                               *)
(***************************************************************************)
EXTENDS Integers, FiniteSets, FiniteSetsExt, Functions

CONSTANTS Nodes,        \* the nodes the text may declare
          Container,    \* one of them, drawn as a box around Contents
          Contents,
          SavedGroups,     \* the saved groups a behaviour starts with
          MaxGroups,    \* bound: groups ever made
          MaxAt,        \* bound: how far a node goes from its place
          MaxOps        \* bound: operations of one behaviour

\* What an overlay of this program may have saved: groups that list nodes and
\* groups made before them, some of those ever made being gone.
Saved(gs) ==
    /\ DOMAIN gs \subseteq 1..MaxGroups
    /\ gs = [g \in DOMAIN gs |-> gs[g]]
    /\ \A g \in DOMAIN gs :
          /\ gs[g] \in [members : (SUBSET (Nodes \cup DOMAIN gs)) \ {{}}, locked : BOOLEAN]
          /\ \A h \in gs[g].members \cap DOMAIN gs : h < g
          /\ \A h \in DOMAIN gs \ {g} : gs[g].members \cap gs[h].members = {}

ASSUME OverlayAssumption ==
    /\ IsFiniteSet(Nodes)
    /\ Container \in Nodes
    /\ Contents \subseteq Nodes \ {Container}
    /\ MaxGroups \in Nat /\ MaxAt \in Nat /\ MaxOps \in Nat
    /\ Nodes \cap Nat = {}
    /\ \A gs \in SavedGroups : Saved(gs)

VARIABLES live, groups, groupSeq, overrides, selection, drag, ops

vars == <<live, groups, groupSeq, overrides, selection, drag, ops>>

GroupIds == 1..MaxGroups
Places == -MaxAt..MaxAt
NoDrag == [ids |-> {}, origin |-> << >>]

TypeOK ==
    /\ live \subseteq Nodes /\ selection \subseteq live
    /\ groupSeq \in 1..(MaxGroups + 1)
    /\ DOMAIN groups \subseteq 1..(groupSeq - 1)
    /\ \A g \in DOMAIN groups :
          groups[g] \in [members : SUBSET (Nodes \cup GroupIds), locked : BOOLEAN]
    /\ DOMAIN overrides \subseteq Nodes
    /\ \A n \in DOMAIN overrides : overrides[n] \in [at : Int, pinned : BOOLEAN]
    /\ drag.ids \subseteq Nodes

-----------------------------------------------------------------------------
(* groups.ts *)

ParentsOf(gs, m) == {g \in DOMAIN gs : m \in gs[g].members}

\* Every group on the chain above a node or a group.
Chain(gs, m) ==
    LET up[k \in 0..MaxGroups] ==
          IF k = 0 THEN ParentsOf(gs, m)
          ELSE LET below == up[k - 1]
               IN  below \cup UNION {ParentsOf(gs, g) : g \in below}
    IN  up[MaxGroups]

LeafNodes(gs, g) == {n \in Nodes : g \in Chain(gs, n)}
Tops(gs, n) == {g \in Chain(gs, n) : ParentsOf(gs, g) = {}}
PathLocked(gs, n) == \E g \in Chain(gs, n) : gs[g].locked

\* What a node stands for in the selection: itself, or the group it is in.
Unit(gs, n) == IF Tops(gs, n) = {} THEN n ELSE CHOOSE g \in Tops(gs, n) : TRUE

\* Bug for the checks: the nearest group moves, not the one at the top.
NearestGroup(gs, n) ==
    IF ParentsOf(gs, n) = {} THEN {n}
    ELSE LeafNodes(gs, CHOOSE g \in ParentsOf(gs, n) : TRUE)

UnitNodes(gs, n) ==
    IF Tops(gs, n) = {} THEN {n} ELSE LeafNodes(gs, Unit(gs, n))

Grouped(gs, g, units) ==
    [h \in DOMAIN gs \cup {g} |->
        IF h = g THEN [members |-> units, locked |-> FALSE] ELSE gs[h]]

Ungrouped(gs, g) ==
    [h \in DOMAIN gs \ {g} |->
        IF g \in gs[h].members
        THEN [gs[h] EXCEPT !.members = (@ \ {g}) \cup gs[g].members]
        ELSE gs[h]]

Shrunk(gs, alive) ==
    LET left(g) == gs[g].members \cap (alive \cup DOMAIN gs)
    IN  [g \in {h \in DOMAIN gs : left(h) # {}} |-> [gs[g] EXCEPT !.members = left(g)]]

\* Bug for the checks: an emptied group goes, but stays listed in its parent.
PrunedOnce(gs, alive) ==
    IF \A g \in DOMAIN gs : gs[g].members \cap Nodes \subseteq alive
    THEN gs ELSE Shrunk(gs, alive)

PruneGroups(gs, alive) ==
    LET shrunk[k \in 0..MaxGroups] ==
          IF k = 0 THEN gs ELSE Shrunk(shrunk[k - 1], alive)
    IN  IF \A g \in DOMAIN gs : gs[g].members \cap Nodes \subseteq alive
        THEN gs ELSE shrunk[MaxGroups]

-----------------------------------------------------------------------------
(* overrides.ts *)

Put(n, at) == [at |-> at, pinned |-> TRUE]

Moved(ov, places) ==
    [n \in DOMAIN ov \cup DOMAIN places |->
        IF n \in DOMAIN places THEN Put(n, places[n]) ELSE ov[n]]

Shown(ov, n) == IF n \in DOMAIN ov THEN ov[n].at ELSE 0

InPlace(places) == \A n \in DOMAIN places : places[n] \in Places

WithContents(n) == IF n = Container THEN {n} \cup (Contents \cap live) ELSE {n}

Top(n) == IF n \in Contents /\ Container \in live THEN Container ELSE n

-----------------------------------------------------------------------------
Init ==
    /\ live = Nodes
    /\ groups \in SavedGroups
    /\ groupSeq = 1 + Max(DOMAIN groups \cup {0})
    /\ overrides = << >>
    /\ selection = {} /\ drag = NoDrag
    /\ ops = 0

Counted == ops < MaxOps /\ ops' = ops + 1
Idle == drag = NoDrag

\* The text gains or loses a node and the new diagram is drawn, in the middle
\* of a drag too: the selection, the groups and the overrides lose what is gone,
\* a drag keeps the nodes it holds.
EditText(n) ==
    /\ Counted
    /\ live' = IF n \in live THEN live \ {n} ELSE live \cup {n}
    /\ live' # {}
    /\ selection' = selection \cap live'
    /\ groups' = PruneGroups(groups, live')
    /\ overrides' = Restrict(overrides, DOMAIN overrides \cap live')
    /\ UNCHANGED <<groupSeq, drag>>

\* A click with shift toggles a node, or all the leaves of a group's outline.
Toggle(ns) ==
    selection' = IF ns \subseteq selection THEN selection \ ns ELSE selection \cup ns

ToggleNode(n) ==
    /\ Idle /\ n \in live /\ Toggle({n})
    /\ UNCHANGED <<live, groups, groupSeq, overrides, drag, ops>>

ToggleGroup(g) ==
    /\ Idle /\ g \in DOMAIN groups /\ Toggle(LeafNodes(groups, g))
    /\ UNCHANGED <<live, groups, groupSeq, overrides, drag, ops>>

SelectGroup(g) ==
    /\ Idle /\ g \in DOMAIN groups
    /\ selection' = LeafNodes(groups, g)
    /\ UNCHANGED <<live, groups, groupSeq, overrides, drag, ops>>

\* The pointer goes down on a node: a node of a larger selection keeps it,
\* and the drag takes the units of the selection with what containers hold,
\* unless the node hit is under a locked group.
Taken(ns) ==
    (UNION {UNION {WithContents(m) : m \in UnitNodes(groups, n)} : n \in ns}) \cap live

DragStarts(n) ==
    /\ Idle /\ n \in live
    /\ selection' = IF n \in selection /\ Cardinality(selection) > 1 THEN selection ELSE {n}
    /\ drag' = IF PathLocked(groups, n) THEN NoDrag
               ELSE [ids |-> Taken(selection'),
                     origin |-> [m \in Taken(selection') |-> Shown(overrides, m)]]
    /\ UNCHANGED <<live, groups, groupSeq, overrides, ops>>

\* What the drag holds goes along, drawn or gone.
DragMoves(d) ==
    /\ ~Idle /\ Counted
    /\ LET places == [n \in drag.ids |-> drag.origin[n] + d]
       IN  InPlace(places) /\ overrides' = Moved(overrides, places)
    /\ UNCHANGED <<live, groups, groupSeq, selection, drag>>

DragEnds ==
    /\ ~Idle /\ drag' = NoDrag
    /\ UNCHANGED <<live, groups, groupSeq, overrides, selection, ops>>

\* A node that is not under a lock brings all of its group, the locked
\* subgroups too.
MovableSelectionLeaves == Taken({n \in selection : ~PathLocked(groups, n)})

NudgeSelection(d) ==
    /\ Idle /\ MovableSelectionLeaves # {} /\ Counted
    /\ LET places == [n \in MovableSelectionLeaves |-> Shown(overrides, n) + d]
       IN  InPlace(places) /\ overrides' = Moved(overrides, places)
    /\ UNCHANGED <<live, groups, groupSeq, selection, drag>>

\* Align left or right: each movable unit moves as one, so that its edge is
\* the outermost one.
SelectedUnits == {UnitNodes(groups, n) \cap live : n \in {m \in selection : ~PathLocked(groups, m)}}
Side(kind, ns) ==
    LET ats == {Shown(overrides, n) : n \in ns}
    IN  IF kind = "left" THEN Min(ats) ELSE Max(ats)

ApplyArrange(kind) ==
    /\ Idle /\ Cardinality(SelectedUnits) > 1 /\ Counted
    /\ LET target == Side(kind, UNION SelectedUnits)
           delta(n) == target - Side(kind, CHOOSE u \in SelectedUnits : n \in u)
           places == [n \in {m \in UNION SelectedUnits : delta(m) # 0} |->
                         Shown(overrides, n) + delta(n)]
       IN  places # << >> /\ InPlace(places) /\ overrides' = Moved(overrides, places)
    /\ UNCHANGED <<live, groups, groupSeq, selection, drag>>

-----------------------------------------------------------------------------
GroupSelection ==
    /\ Idle /\ groupSeq <= MaxGroups /\ Counted
    /\ LET units == {Unit(groups, n) : n \in selection}
       IN  /\ Cardinality(units) > 1
           /\ groups' = Grouped(groups, groupSeq, units)
    /\ groupSeq' = groupSeq + 1
    /\ UNCHANGED <<live, overrides, selection, drag>>

\* Ungroup and Lock act on the top group of the first selected node that has one.
SelectedTop == UNION {Tops(groups, n) : n \in selection}

UngroupSelection ==
    /\ Idle /\ Counted
    /\ \E g \in SelectedTop : groups' = Ungrouped(groups, g)
    /\ UNCHANGED <<live, groupSeq, overrides, selection, drag>>

ToggleLockSelection ==
    /\ Idle /\ Counted
    /\ \E g \in SelectedTop : groups' = [groups EXCEPT ![g].locked = ~@]
    /\ UNCHANGED <<live, groupSeq, overrides, selection, drag>>

-----------------------------------------------------------------------------
Pinned(ov) == {n \in DOMAIN ov : ov[n].pinned}

PinnedAt(ov, ns) ==
    [n \in DOMAIN ov \cup ns |-> IF n \in ns THEN Put(n, Shown(ov, n)) ELSE ov[n]]

Unpinned(ov, ns) ==
    [n \in DOMAIN ov |-> IF n \in ns THEN [ov[n] EXCEPT !.pinned = FALSE] ELSE ov[n]]

TogglePin ==
    /\ Idle /\ selection # {} /\ Counted
    /\ overrides' = IF selection \subseteq Pinned(overrides)
                    THEN Unpinned(overrides, selection)
                    ELSE PinnedAt(overrides, selection)
    /\ UNCHANGED <<live, groups, groupSeq, selection, drag>>

\* Bug for the checks: a pin does not hold a node.
RelaxAll(ov, delta) ==
    [n \in {m \in live : delta[Top(m)] # 0} |->
        [at |-> Shown(ov, n) + delta[Top(n)], pinned |-> FALSE]]

\* The forces move each top-level unit that is not pinned, its contents with
\* it; what moved has an unpinned override, what did not keeps only its pin.
RelaxScene(ov, delta) ==
    [n \in {m \in live : Top(m) \notin Pinned(ov) /\ delta[Top(m)] # 0} |->
        [at |-> Shown(ov, n) + delta[Top(n)], pinned |-> FALSE]]

Relax ==
    /\ Idle /\ Counted
    /\ \E delta \in [{Top(n) : n \in live} -> {-1, 0, 1}] :
          LET moved == RelaxScene(overrides, delta)
          IN  /\ Cardinality(DOMAIN delta) > 1
              /\ moved # << >>
              /\ \A n \in DOMAIN moved : moved[n].at \in Places
              /\ overrides' = [n \in DOMAIN moved \cup Pinned(overrides) |->
                                  IF n \in DOMAIN moved THEN moved[n] ELSE overrides[n]]
    /\ UNCHANGED <<live, groups, groupSeq, selection, drag>>

Regenerate ==
    /\ Idle /\ Counted
    /\ overrides' = Restrict(overrides, Pinned(overrides))
    /\ UNCHANGED <<live, groups, groupSeq, selection, drag>>

ResetPositions ==
    /\ Idle /\ overrides # << >> /\ Counted
    /\ overrides' = << >>
    /\ UNCHANGED <<live, groups, groupSeq, selection, drag>>

-----------------------------------------------------------------------------
Moves == (\E d \in {-1, 1} : DragMoves(d) \/ NudgeSelection(d))
            \/ \E kind \in {"left", "right"} : ApplyArrange(kind)

Next ==
    \/ \E n \in Nodes : EditText(n) \/ ToggleNode(n) \/ DragStarts(n)
    \/ \E g \in GroupIds : ToggleGroup(g) \/ SelectGroup(g)
    \/ DragEnds \/ Moves
    \/ GroupSelection \/ UngroupSelection \/ ToggleLockSelection
    \/ TogglePin \/ Relax \/ Regenerate \/ ResetPositions

Spec == Init /\ [][Next]_vars

-----------------------------------------------------------------------------
\* The groups are a forest over the drawn nodes: a member has one parent, a
\* listed subgroup exists, no group is empty and none is above itself, however
\* groups are nested, dissolved and pruned by edits of the text (groups.ts).
Forest ==
    /\ \A m \in live \cup DOMAIN groups : Cardinality(ParentsOf(groups, m)) <= 1
    /\ \A g \in DOMAIN groups :
          /\ groups[g].members # {}
          /\ groups[g].members \subseteq live \cup DOMAIN groups
          /\ g \notin Chain(groups, g)

\* "Alignment translates a whole unit, so a group keeps its internal layout":
\* a drag, a nudge or an alignment moves the leaves of a top group that are
\* under no lock by the same distance, although the text loses nodes and groups
\* between two moves (main.ts, selectedUnitBoxes). Nothing is said of the leaves
\* of a locked subgroup, which the code moves along and its comments call not
\* movable, nor of a leaf inside a container, which goes where that goes.
Shift(n) == Shown(overrides', n) - Shown(overrides, n)
\* The step pins what it moves: a drag, a nudge, an alignment, a new pin.
PinsWhatMoves == \A n \in live : Shift(n) # 0 => n \in Pinned(overrides')

Unlocked(g) == {n \in LeafNodes(groups, g) : ~PathLocked(groups, n)}

GroupsMoveRigidly ==
    [][PinsWhatMoves =>
          \A g \in DOMAIN groups :
             ParentsOf(groups, g) = {} /\ LeafNodes(groups, g) \cap Contents = {} =>
                \A m, n \in Unlocked(g) : Shift(m) = Shift(n)]_vars

\* A pinned node that stands alone stays where it is through every operation
\* but a direct move and a reset: relaxing, regenerating, pinning, grouping
\* and editing other lines never make it jump (main.ts, relax, togglePin).
PinsHold ==
    [][\A n \in (Pinned(overrides) \cap live') \ Contents :
          Shift(n) # 0 => PinsWhatMoves \/ overrides' = << >>]_vars
=============================================================================
