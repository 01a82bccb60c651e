----------------------------- MODULE EditCommands -----------------------------
(***************************************************************************)
(* The commands of the canvas that edit the source (app/playground/src/    *)
(* main.ts): delete, add, duplicate, paste, connect, rename, reshape,      *)
(* colour, group, ungroup, reconnect.                                      *)
(*                                                                         *)
(* A command reads the AST and the source map of the last render that      *)
(* succeeded (`shown`) and edits the text as it is now, which may be ahead *)
(* of that render: no command checks.  A deletion waits for its render     *)
(* before it declares again the nodes it dropped by the way; the text may  *)
(* be typed on meanwhile, and while an inline editor is open.              *)
(*                                                                         *)
(* Undo, saving and the overlay are SourceHistory's.                       *)
(***************************************************************************)
EXTENDS SourcePatch

CONSTANTS Sources,   \* the texts to start from: records [family, text]
          MaxEdits   \* bounds the edits of a behaviour

ASSUME BoundsAssumption == MaxEdits \in Nat

VARIABLES
    family,     \* ast.kind, with "dot" for an imported digraph
    text,       \* the editor's value
    shown,      \* scene, ast and source map: what the last render published
    inline,     \* the inline editor: << >>, or its node, what its commit does, and to which text
    clipboard,  \* nodeClipboard: labels
    waiting,    \* the deletion awaiting its render: << >>, or its text and survivors
    viewer,     \* viewerMode
    edits,      \* how many edits were made
    last        \* the last command, for the properties

vars == <<family, text, shown, inline, clipboard, waiting, viewer, edits, last>>

Render(t) == [text |-> t, p |-> Parse(family, t)]
p0 == shown.p
Fresh == shown.text = text
NoCommand == [cmd |-> "none", ids |-> << >>, from |-> << >>, was |-> Parsed, fresh |-> TRUE]

Init ==
    /\ \E s \in Sources : family = s.family /\ text = s.text
    /\ shown = Render(text)
    /\ inline = << >> /\ clipboard = << >> /\ waiting = << >>
    /\ viewer = FALSE /\ edits = 0 /\ last = NoCommand

-----------------------------------------------------------------------------
(* The scene: nodes, containers and edges, and where a node's ancestors    *)
(* are.                                                                    *)

SceneIds == Ids(p0) \cup GroupIds(p0)
NoteIds == {p0.notes[j].id : j \in DOMAIN p0.notes}
NamedLikeNote(id) == \E n \in 0..Len(shown.text) : id = Numbered("note", n)
Selections(n) == {s \in SeqOf(SceneIds, n) : s # << >> /\ IsInjective(s)}
NodeOf(id) == p0.nodes[SelectInSeq(p0.nodes, LAMBDA n : n.id = id)]
GroupOf(id) == p0.groups[SelectInSeq(p0.groups, LAMBDA g : g.id = id)]
LabelIn(id) == IF id \in Ids(p0) THEN NodeOf(id).lab ELSE GroupOf(id).lab
Index(id) == SelectInSeq(p0.nodes, LAMBDA n : n.id = id)
ParentOf(id) == IF id \in GroupIds(p0) THEN GroupOf(id).par ELSE NodeOf(id).par
Place(id) == p0.at[id]

(* An end of an edge: how far along its statement, and if another edge of  *)
(* the chain shares it.                                                    *)
HopOf(e) == Cardinality({f \in 1..e : p0.edges[f].line = p0.edges[e].line})
EndPlace(e, end) == <<p0.edges[e].line, HopOf(e) + IF end = "from" THEN 0 ELSE 1>>
SharedEnd(e, end) ==
    \E f \in DOMAIN p0.edges \ {e} : EndPlace(e, end) \in {EndPlace(f, "from"), EndPlace(f, "to")}

-----------------------------------------------------------------------------
(* familyAffordances.                                                      *)

CanAdd == family \in {"flowchart", "dot", "network", "cloud", "block", "c4", "sequence",
                      "state", "er", "class", "requirement"}
CanConnect == family \notin {"gantt", "pie"}
NameAsId == family \in {"er", "class", "state", "requirement"}
Styleable == family \in {"flowchart", "network", "cloud", "block", "state", "er", "class", "c4"}
LinkStyleable == Styleable /\ family # "c4"
SpanKeyed == family \in {"gantt", "pie", "timeline", "mindmap"}

-----------------------------------------------------------------------------
(* An edit: setSourceValue, and the render that follows.                   *)

(* For the properties: the command, the text and the scene it was given,   *)
(* and whether the places it used were those of the text.                  *)
EditedFrom(base, t, cmd, ids) ==
    /\ edits < MaxEdits /\ t # text
    /\ text' = t /\ edits' = edits + 1
    /\ last' = [cmd |-> cmd, ids |-> ids, from |-> text, was |-> p0, fresh |-> base = text]
    /\ UNCHANGED <<family, shown, viewer>>
Put(t, cmd, ids) == EditedFrom(shown.text, t, cmd, ids)

Ready == ~viewer /\ edits < MaxEdits /\ inline = << >> /\ waiting = << >>
Idle == UNCHANGED <<inline, clipboard, waiting>>

(* renderFromText: a text that does not parse leaves the scene as it is.   *)
Publish ==
    /\ ~Fresh /\ Parse(family, text).ok
    /\ shown' = Render(text)
    /\ UNCHANGED <<family, text, inline, clipboard, waiting, viewer, edits, last>>

(* Typing, by hand or by a peer of the room: a statement more or one less, *)
(* whatever else is under way.                                             *)
Type ==
    /\ ~viewer /\ text # << >>
    /\ \E t \in {AddNode(family, << >>, "n1", "z") \o text, Tail(text)} : Put(t, "type", << >>)
    /\ Idle

(* The relay makes this client a viewer: explored while a command is under *)
(* way, for no other starts afterwards.                                    *)
ApplyRole ==
    /\ ~viewer /\ viewer' = TRUE /\ inline \o waiting # << >>
    /\ UNCHANGED <<family, text, shown, inline, clipboard, waiting, edits, last>>

-----------------------------------------------------------------------------
(* deleteSelection.                                                        *)

GitCommitLine(id) == p0.made[Index(id)]
NoteLine(id) == p0.notes[SelectInSeq(p0.notes, LAMBDA n : n.id = id)].line

RemoveNode(t, id) ==
    CASE family = "c4" -> DeleteC4(t, id)
      [] family = "sequence" ->
             IF id \in NoteIds THEN DeleteLine(t, NoteLine(id)) ELSE DeleteActor(t, id)
      [] family \in {"er", "class", "requirement", "state"} -> DeleteEntityWithBody(t, id)
      [] family = "block" ->
             IF id \in GroupIds(p0) THEN DeleteBlockGroup(t, id) ELSE DeleteNode(family, t, id)
      [] family \in {"network", "cloud"} ->
             IF id \in GroupIds(p0) THEN DeleteGroupBlock(t, <<GroupOf(id).line, 0>>)
             ELSE DeleteNode(family, t, id)
      [] family = "flowchart" ->
             IF id \in GroupIds(p0) THEN DeleteFlowSubgraph(t, id) ELSE DeleteNode(family, t, id)
      [] family = "dot" -> IF id \in GroupIds(p0) THEN t ELSE DeleteNode(family, t, id)
      [] family = "gitGraph" ->
             IF id \in GroupIds(p0) THEN DeleteGitBranch(t, shown.text, p0, id)
             ELSE DeleteLine(t, GitCommitLine(id))
      [] family = "timeline" ->
             IF NodeOf(id).par = None THEN DeleteTimelinePeriod(t, Place(id))
             ELSE EventRemoved(t, Place(id))
      [] family = "mindmap" -> DeleteMindmapNode(t, p0, Index(id))
      [] family \in {"gantt", "pie"} -> DeleteLineAt(t, Place(id))

RemoveEdge(t, e) ==
    LET from == p0.edges[e].from
        to == p0.edges[e].to
    IN CASE family = "c4" -> DeleteC4Rel(t, from, to)
         [] family = "sequence" -> DeleteMessage(t, from, to)
         [] family \in {"er", "class", "requirement"} -> DeleteRel(t, from, to)
         [] family = "gantt" -> t
         [] OTHER -> DeleteEdge(t, from, to)

(* The families whose items are found by their span go bottom-up.          *)
Before(a, b) ==
    LET pa == Place(a) pb == Place(b)
    IN pa[1] > pb[1] \/ (pa[1] = pb[1] /\ pa[2] > pb[2])
DeletionOrder(sel) == IF SpanKeyed THEN SortSeq(sel, Before) ELSE sel
Deleted(p, sel) ==
    FoldLeft(LAMBDA gone, item : IF item.par \in gone THEN gone \cup {item.id} ELSE gone,
             ToSet(sel),
             [j \in DOMAIN p.groups |-> [id |-> p.groups[j].id, par |-> p.groups[j].par]]
             \o [j \in DOMAIN p.nodes |-> [id |-> p.nodes[j].id, par |-> p.nodes[j].par]])
Survivors(p, sel) ==
    SelectSeq(p.nodes, LAMBDA n : n.id \notin Deleted(p, sel) \cup GroupIds(p))
Waits(left) == waiting' = <<[text |-> text', left |-> left]>>

DeleteNodes(sel) ==
    /\ Ready
    /\ Put(FoldLeft(RemoveNode, text, DeletionOrder(sel)), "delete", sel)
    /\ Waits(Survivors(p0, sel))
    /\ UNCHANGED <<inline, clipboard>>
DeleteOneEdge(e) ==
    /\ Ready
    /\ Put(RemoveEdge(text, e), "unlink", <<e>>)
    /\ Waits(Survivors(p0, << >>))
    /\ UNCHANGED <<inline, clipboard>>

(* After the render, or once a render that a later text started has        *)
(* overtaken it: what is not in the scene and should be is declared again, *)
(* in the text as it is then.                                              *)
VanishedNone(s) == << >>   \* a mutant
Vanished(s) == SelectSeq(s, LAMBDA n : n.id \notin SceneIds)
RestoredOver(t, s) ==   \* a mutant
    FoldLeft(LAMBDA u, n : AddNode(family, u, n.id, n.lab), waiting[1].text, Vanished(s))
Restored(t, s) == FoldLeft(LAMBDA u, n : AddNode(family, u, n.id, n.lab), t, Vanished(s))
DeclareAgain ==
    /\ waiting # << >>
    /\ LET wrote == waiting[1].text
       IN shown.text = wrote \/ text # wrote \/ ~Parse(family, wrote).ok
    /\ text' = IF CanAdd THEN Restored(text, waiting[1].left) ELSE text
    /\ waiting' = << >>
    /\ UNCHANGED <<family, shown, inline, clipboard, viewer, edits, last>>

-----------------------------------------------------------------------------
(* Add, duplicate, copy, paste.  Identifiers are fresh in the scene.       *)

Fresh1Taken(base, used, from) == Numbered(base, from)   \* a mutant
Fresh1(base, used, from) ==
    Numbered(base, CHOOSE n \in from..(from + Cardinality(used)) :
        /\ Numbered(base, n) \notin used
        /\ \A m \in from..(n - 1) : Numbered(base, m) \in used)
UniqueId(used, base) == IF base \notin used THEN base ELSE Fresh1(base, used, 2)
FreshNode(used, hint) ==
    IF NameAsId THEN LET id == UniqueId(used, hint) IN Ref(id, id)
    ELSE Ref(Fresh1("n", used, 1), hint)
NewNodeIdLabel(used) ==
    IF NameAsId THEN LET id == UniqueId(used, "Node") IN Ref(id, id)
    ELSE LET id == Fresh1("n", used, 1) IN Ref(id, id)

(* Each label in turn gets an identifier none before it took.              *)
Copies(syntax, t, used, labels) ==
    FoldLeft(LAMBDA acc, lab :
        LET new == FreshNode(acc.used, lab)
        IN [text |-> AddNode(syntax, acc.text, new.id, new.lab), used |-> acc.used \cup {new.id}],
        [text |-> t, used |-> used], labels).text

LabelsOf(sel) == [j \in DOMAIN sel |-> LabelIn(sel[j])]

Add ==
    /\ ~viewer /\ CanAdd /\ inline = << >>
    /\ LET new == NewNodeIdLabel(SceneIds)
       IN Put(AddNode(family, text, new.id, new.lab), "add", <<new.id>>)
    /\ Idle
Duplicate(sel) ==
    /\ Ready /\ CanAdd
    /\ Put(Copies(family, text, SceneIds, LabelsOf(sel)), "add", sel)
    /\ Idle
Copy(sel) ==
    /\ Ready /\ family \in {"flowchart", "dot"} /\ clipboard = << >>
    /\ clipboard' = LabelsOf(sel)
    /\ UNCHANGED <<family, text, shown, inline, waiting, viewer, edits, last>>
(* A paste leaves out the containers when it looks for what is taken, and  *)
(* writes flowchart statements, into a digraph too.                        *)
Paste ==
    /\ Ready /\ family \in {"flowchart", "dot"} /\ clipboard # << >>
    /\ Put(Copies("flowchart", text, Ids(p0), clipboard), "paste", << >>)
    /\ Idle

-----------------------------------------------------------------------------
(* Connect: an edge for each pair in a row; mindmap, timeline and git move *)
(* or merge instead.  The button is off when one is named like a note.     *)

AppendEdge(t, from, to) ==
    LET isPeriod(id) == NodeOf(id).par = None
    IN CASE family = "mindmap" -> ConnectMindmap(t, p0, Index(from), Index(to))
         [] family = "gitGraph" ->
                IF {from, to} \subseteq GroupIds(p0) THEN ConnectGitMerge(t, from, to) ELSE t
         [] family = "timeline" ->
                IF isPeriod(from) = isPeriod(to) THEN t
                ELSE IF isPeriod(to) THEN MoveTimelineEvent(t, p0, from, to)
                ELSE MoveTimelineEvent(t, p0, to, from)
         [] OTHER -> Connect(family, t, from, to)

ConnectSelected(sel) ==
    /\ Ready /\ CanConnect /\ Len(sel) = 2
    /\ family = "sequence" => \A j \in DOMAIN sel : ~NamedLikeNote(sel[j])
    /\ Put(AppendEdge(text, sel[1], sel[2]), "connect", sel)
    /\ Idle

(* An end of an edge dragged to another node.                              *)
Reconnect(e, end, id) ==
    /\ Ready /\ family \in {"flowchart", "dot"}
    /\ id \in Ids(p0) \ {p0.edges[e].from, p0.edges[e].to}
    /\ ~SharedEnd(e, end)
    /\ Put(ReconnectEdgeEnd(text, EndPlace(e, end), id), "reconnect", <<e>>)
    /\ Idle

-----------------------------------------------------------------------------
(* Rename: the editor keeps the place it was opened on, and its commit     *)
(* patches the text of that moment.                                        *)

Edit(how, place) == [how |-> how, place |-> place]

NodeEdits(id) ==
    IF family \in {"flowchart", "dot"}
    THEN {Edit("relabel", Place(i)) : i \in {id} \cap DOMAIN p0.at}
    ELSE IF id \in GroupIds(p0) \ DOMAIN p0.at
    THEN {Edit(IF family = "block" THEN "block" ELSE "patch",
               <<GroupOf(i).line, IF family = "block" THEN 1 ELSE 0>>) :
             i \in {j \in {id} : family \in {"block", "network", "cloud"}}}
    ELSE {Edit(IF /\ family \in {"block", "network", "cloud"}
                  /\ shown.text[Place(i)[1]].refs[Place(i)[2]].lab = None THEN "wrap" ELSE "patch",
               Place(i)) : i \in {id} \cap DOMAIN p0.at}
EdgeEdits(e) ==
    LET line == p0.edges[e].line
        labelled == shown.text[line].lab # None
    IN {Edit(IF labelled THEN "patch" ELSE "wrapEdge", <<line, 0>>) :
           l \in {k \in {line} : IF labelled THEN family # "gantt"
                                 ELSE family \in {"flowchart", "block"}}}

BeginRelabel(id) ==
    /\ Ready
    /\ \E how \in NodeEdits(id) : inline' = <<id, how, shown.text>>
    /\ UNCHANGED <<family, text, shown, clipboard, waiting, viewer, edits, last>>
BeginEdgeLabel(e) ==
    /\ Ready
    /\ \E how \in EdgeEdits(e) : inline' = <<None, how, shown.text>>
    /\ UNCHANGED <<family, text, shown, clipboard, waiting, viewer, edits, last>>

NewLabel == "new"
Rewritten(t, how) ==
    LET place == how.place
    IN CASE how.how = "relabel" -> RelabelNode(family, t, place, NewLabel)
         [] how.how = "patch" -> PatchSpan(t, place, NewLabel)
         [] how.how = "wrap" -> WrapLabel(t, place, NewLabel)
         [] how.how = "wrapEdge" -> AddEdgeLabel(t, place[1], NewLabel)
         [] how.how = "block" -> RenameBlockId(t, t[place[1]].refs[1].id, NewLabel)

(* A text typed on meanwhile still has something at that place.            *)
Written(t, how) ==
    LET covers == how.place[2] = 0 /\ how.how # "wrapEdge" => t[how.place[1]].lab # None
    IN IF Holds(t, how.place) /\ covers THEN Rewritten(t, how) ELSE t
CommitRelabel ==
    /\ inline # << >>
    /\ EditedFrom(inline[3], Written(text, inline[2]), "rename", <<inline[1]>>)
    /\ inline' = << >>
    /\ UNCHANGED <<clipboard, waiting>>
CancelRelabel ==
    /\ inline # << >> /\ inline' = << >>
    /\ UNCHANGED <<family, text, shown, clipboard, waiting, viewer, edits, last>>

-----------------------------------------------------------------------------
(* Shapes, colours, groups.                                                *)

CycleShape(id) ==
    /\ Ready /\ family \in {"flowchart", "dot"} /\ id \in DOMAIN p0.at
    /\ Put(ReshapeNode(family, text, Place(id), LabelIn(id)), "shape", <<id>>)
    /\ Idle

(* In place from the bottom up, then the new lines.                        *)
InPlace(t, ids) ==
    Without(t, {p0.styles[id] : id \in ids \cap DOMAIN p0.styles})
Colour(sel) ==
    /\ Ready /\ Styleable
    /\ Put(FoldLeft(LAMBDA t, id : SetStyle(t, p0, id), text, sel), "colour", sel)
    /\ Idle
ClearColour(sel) ==
    /\ Ready /\ Styleable
    /\ Put(InPlace(text, ToSet(sel)), "colour", sel)
    /\ Idle
ColourEdge(e) ==
    /\ Ready /\ LinkStyleable
    /\ \E t \in {SetLinkStyle(text, p0, e - 1), ClearLinkStyle(text, p0, e - 1)} :
           Put(t, "colour", << >>)
    /\ Idle

TopLevel(sel) == SelectSeq(sel, LAMBDA id : id \in Ids(p0) \ GroupIds(p0) /\ ParentOf(id) = None)
GroupSelection(sel) ==
    /\ Ready
    /\ \/ /\ family \in {"flowchart", "dot"}
          /\ Put(WrapFlowchartSubgraph(text, TopLevel(sel), Fresh1("group", SceneIds, 1)),
                 "group", sel)
       \/ /\ family = "cloud"
          /\ Put(WrapCloudGroup(text, {Place(id)[1] : id \in ToSet(TopLevel(sel))}), "group", sel)
    /\ Idle
UngroupSelection(g) ==
    /\ Ready /\ family = "flowchart"
    /\ Put(RemoveSubgraphBlock(text, p0.groups[g].line), "ungroup", << >>)
    /\ Idle

-----------------------------------------------------------------------------

OnNodes ==
    \/ \E sel \in Selections(2) : DeleteNodes(sel) \/ ConnectSelected(sel) \/ GroupSelection(sel)
    \/ \E sel \in Selections(1) : Duplicate(sel) \/ Copy(sel) \/ Colour(sel) \/ ClearColour(sel)
    \/ \E id \in SceneIds : BeginRelabel(id) \/ CycleShape(id)
OnEdges ==
    \E e \in DOMAIN p0.edges :
        \/ DeleteOneEdge(e) \/ BeginEdgeLabel(e) \/ ColourEdge(e)
        \/ \E end \in {"from", "to"}, id \in Ids(p0) : Reconnect(e, end, id)
Next ==
    \/ Publish \/ Type \/ ApplyRole \/ DeclareAgain \/ Add \/ Paste
    \/ CommitRelabel \/ CancelRelabel \/ OnNodes \/ OnEdges
    \/ \E g \in DOMAIN p0.groups : UngroupSelection(g)

Spec == Init /\ [][Next]_vars
==============================================================================
