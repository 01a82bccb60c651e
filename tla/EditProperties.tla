---------------------------- MODULE EditProperties ----------------------------
(***************************************************************************)
(* What the edits from the canvas must do to a diagram, and what they must *)
(* not.                                                                    *)
(***************************************************************************)
EXTENDS EditCommands

(* The scene a command was given, and the outcome: the render of the text  *)
(* it wrote.                                                               *)
Was == last.was
After == Parse(family, text)

Labelled(nodes) == {<<n.id, n.lab>> : n \in ToSet(nodes)}
LabelsIn(p) == {n.lab : n \in ToSet(p.nodes) \cup ToSet(p.groups)}
LabelIn1(p, id) == p.nodes[SelectInSeq(p.nodes, LAMBDA n : n.id = id)].lab
Anonymous == family \in {"timeline", "mindmap", "pie", "gantt"}

-----------------------------------------------------------------------------
(* The source map is true: what the span of a node covers is the label     *)
(* shown (contracts/core/source.ts; patchSpan and the rename of main.ts    *)
(* write over it), in every family and after every edit.  The exception is *)
(* a node declared twice where the parser takes its label from one of the  *)
(* declarations and its span from another: network (net-parse.ts:128-137), *)
(* sequence (seq-parse.ts:86-89), state (state-parse.ts:226-235), and C4   *)
(* and cloud, where it is two nodes with one span.                         *)
Declares(l, id) ==
    /\ l.k \in {"node", "element", "boundary", "participant", "state", "line", "composite"}
    /\ l.refs[1].id = id
DeclaredTwice(id) ==
    /\ family \in {"network", "sequence", "state", "c4", "cloud"}
    /\ Len(SelectSeq(shown.text, LAMBDA l : Declares(l, id))) > 1
LabelSpans ==
    \A n \in ToSet(p0.nodes) :
        n.id \in DOMAIN p0.at /\ ~DeclaredTwice(n.id) =>
            Covered(shown.text, Place(n.id)) = n.lab

(* print writes a flowchart that parses to the same diagram (parser/src/   *)
(* core/print.ts).                                                         *)
Diagram(p) == <<p.nodes, [j \in DOMAIN p.groups |-> <<p.groups[j].id, p.groups[j].lab, p.groups[j].par>>],
                [j \in DOMAIN p.edges |-> <<p.edges[j].from, p.edges[j].to, p.edges[j].lab>>]>>
PrintRoundTrips ==
    family = "flowchart" /\ Len(p0.groups) = Cardinality(GroupIds(p0)) =>
        Diagram(Parse(family, Printed(p0, shown.text))) = Diagram(p0)

-----------------------------------------------------------------------------
(* The nodes a command should keep are there, by label where the family    *)
(* numbers them, and the text parses.  A commit without a name is nobody's. *)
Named(ids) == IF family = "gitGraph" THEN ids \cap {"x"} ELSE ids
Settled(commands) == last.cmd \in commands /\ last.fresh /\ waiting = << >>
Keeps ==
    CASE last.cmd = "delete" -> Labelled(Survivors(Was, last.ids))
      [] last.cmd = "unlink" -> Labelled(Survivors(Was, << >>))
      [] last.cmd = "rename" -> {n \in Labelled(Was.nodes) : n[1] # last.ids[1]}
      [] OTHER -> Labelled(Was.nodes)
NodesKept ==
    /\ After.ok
    /\ IF Anonymous THEN {n[2] : n \in Keeps} \subseteq LabelsIn(After)
       ELSE Named({n[1] : n \in Keeps}) \subseteq Ids(After)
LabelsKept ==
    /\ NodesKept
    /\ family # "gitGraph" /\ ~Anonymous => Keeps \subseteq Labelled(After.nodes)

(* Deleting items leaves a text that parses, with every node that was not  *)
(* in one of them (deleteSelection, which declares again what went with    *)
(* the lines), without the items, and with nothing else new.               *)
(*                                                                         *)
(* What the code does otherwise is left out by name: several items found   *)
(* by their place at once (DeletesAll); a period whose events stand under  *)
(* a line left blank.  A container or what was in it stays as far as an    *)
(* edge mentions it, and in an imported digraph always; notes are numbered *)
(* again, and a number that is gone is declared again as a participant.    *)
ByPlace == {"gitGraph", "mindmap", "network", "cloud", "sequence"}
Pseudo == {"__" \o role \o scope : role \in {"start", "end"}, scope \in {"", "__g"}}
Notes == {Was.notes[j].id : j \in DOMAIN Was.notes}
Items == ToSet(last.ids)
Leaves == Items \ (GroupIds(Was) \cup Notes \cup Pseudo)
Staying ==
    {id \in Deleted(Was, last.ids) \ Leaves :
        family = "dot" \/ \E e \in ToSet(Was.edges) : id \in {e.from, e.to}}
Blank == \E l \in ToSet(text) : l.k = "blank"
OnlyTheRest ==
    IF Anonymous THEN LabelsIn(After) \subseteq {n[2] : n \in Keeps}
    ELSE family # "gitGraph" =>
        /\ Ids(After) \subseteq {n[1] : n \in Keeps} \cup Staying \cup Notes \cup GroupIds(Was)
        /\ Leaves \cap (Ids(After) \cup GroupIds(After)) = {}
        /\ GroupIds(After) \subseteq GroupIds(Was)
        /\ \A id \in Items \cap Notes : LabelIn1(Was, id) \notin {n.lab : n \in ToSet(After.notes)}
DeleteSound ==
    Settled({"delete"}) =>
        \/ NodesKept /\ OnlyTheRest
        \/ Len(last.ids) > 1 /\ family \in ByPlace
        \/ Blank

(* No other command loses or relabels a node but the one renamed, as long  *)
(* as the text is not an imported digraph and no composite is renamed.     *)
EditsKeep ==
    /\ Settled({"unlink"}) => NodesKept
    /\ Settled({"add", "connect", "colour"}) => LabelsKept
    /\ Settled({"paste", "group", "shape"}) /\ family # "dot" => LabelsKept
    /\ Settled({"rename"}) /\ family # "dot" /\ last.ids[1] \notin GroupIds(Was) => LabelsKept

(* A node moved in a mindmap or a timeline takes what is under it along,   *)
(* and nothing else moves (patch.ts connectMindmap, moveTimelineEvent), in *)
(* a mindmap that is indented as the code indents.                         *)
Tree(p) == {<<n.lab, IF n.par \in Ids(p) THEN LabelIn1(p, n.par) ELSE None>> : n \in ToSet(p.nodes)}
IndentedByStep(p, t) ==
    \E base \in {l.n : l \in ToSet(t)} : \A j \in DOMAIN p.nodes :
        t[p.at[p.nodes[j].id][1]].n = base + Level(p)[j] * IndentStep
MovesSound ==
    Settled({"connect"})
    /\ (family = "timeline" \/ (family = "mindmap" /\ IndentedByStep(Was, last.from))) =>
        Cardinality(Tree(Was) \ Tree(After)) <= 1

-----------------------------------------------------------------------------
(* What was typed and is not rendered yet outlives the commands that find  *)
(* what they edit by identifier, though they know nothing of it, unless it *)
(* shares a statement with what goes; and a deletion that declares nodes   *)
(* again writes them into the text as it is then (deleteSelection,         *)
(* duplicateSelection, pasteClipboard, addBtn, connect).                   *)
ByIdentifier(id) ==
    /\ family \notin {"gitGraph", "timeline", "mindmap", "pie", "gantt"}
    /\ id \notin NoteIds
    /\ family \in {"network", "cloud"} => id \notin GroupIds(p0)
Appending ==
    \/ last'.cmd = "delete" /\ \A id \in ToSet(last'.ids) : ByIdentifier(id)
    \/ last'.cmd \in {"add", "unlink"}
    \/ last'.cmd = "paste" /\ family = "flowchart"
    \/ last'.cmd = "connect" /\ family \notin {"mindmap", "timeline"}
Command == edits' > edits /\ Appending
DeclaresAgain == waiting # << >> /\ waiting' = << >>
Apart(id, ids) == \A l \in ToSet(text) : id \in Mentions(l) => Tokens(family, l) \cap ids = {}
Unrendered(ids) == {id \in Ids(After) \ SceneIds : Apart(id, ids)}
TypedStays ==
    [][(Command \/ DeclaresAgain) /\ After.ok =>
           LET next == Parse(family, text')
               gone == IF Command /\ last'.cmd = "delete" THEN ToSet(last'.ids) ELSE {}
           IN next.ok /\ Unrendered(gone) \subseteq Ids(next)]_vars

-----------------------------------------------------------------------------
(* What a comment of the code says, and the code does not do.              *)

(* main.ts:5675 "These families delete by span, so a multi-delete must run *)
(* bottom-up": what is not deleted survives a delete of several nodes.     *)
(* Commits are deleted by their span too, in the order of the selection.   *)
DeletesAll == Settled({"delete"}) /\ Items \subseteq Ids(Was) => NodesKept
==============================================================================
