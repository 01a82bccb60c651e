----------------------------- MODULE SourcePatch -----------------------------
(***************************************************************************)
(* The edits of the source text that stand behind the canvas (builder/src/ *)
(* core/patch.ts), over the statements of DiagramSource: each takes a text *)
(* and returns one, unchanged when it finds nothing to do.                 *)
(*                                                                         *)
(* An edit that the code addresses by an offset takes a place; p is the    *)
(* parse the place comes from.  In a text that has changed since that      *)
(* parse, the place is read as the same line and the same identifier       *)
(* there, and an edit of a place that is no more does nothing.             *)
(* Indentation, colours, arrow tokens and dates are left out, and so is    *)
(* the header line.                                                        *)
(***************************************************************************)
EXTENDS DiagramParsers

Without(text, gone) ==
    FoldLeftDomain(LAMBDA kept, i : IF i \in gone THEN kept ELSE Append(kept, text[i]), << >>, text)
DeleteLine(text, i) == Without(text, {i})
RemoveAll(text, Test(_)) == SelectSeq(text, LAMBDA l : ~Test(l))

(* There is something at that place.                                       *)
Holds(text, place) ==
    /\ place[1] \in DOMAIN text
    /\ place[2] # 0 => place[2] \in DOMAIN text[place[1]].refs
ChangeRef(text, place, Op(_)) == [text EXCEPT ![place[1]].refs[place[2]] = Op(@)]

Ends(l, kinds, from, to) ==
    l.k \in kinds /\ Len(l.refs) = 2 /\ l.refs[1].id = from /\ l.refs[2].id = to

-----------------------------------------------------------------------------
(* Labels.  patchSpan writes over what the span covers: the label, or the  *)
(* identifier where there is none.                                         *)

Relettered(ref, new) == IF ref.lab = None THEN Bare(new) ELSE Ref(ref.id, new)
PatchSpan(text, place, new) ==
    IF place[2] = 0 THEN [text EXCEPT ![place[1]].lab = new]
    ELSE ChangeRef(text, place, LAMBDA ref : Relettered(ref, new))

(* A bare declaration gets its label in brackets or quotes.                *)
WrapLabel(text, place, new) == ChangeRef(text, place, LAMBDA ref : Ref(ref.id, new))
AddEdgeLabel(text, i, new) == [text EXCEPT ![i].lab = new]

(* In DOT the brackets end the statement: after the first of two nodes     *)
(* they break it (n = 1), after the last they label the edge.              *)
RelabelDot(text, place, new) ==
    LET l == text[place[1]]
        ref == l.refs[place[2]]
    IN CASE l.k = "node" /\ l.n = 1 /\ ref.lab = None -> ChangeRef(text, place, LAMBDA r : Bare(new))
         [] l.k = "edge" /\ place[2] < Len(l.refs) -> [text EXCEPT ![place[1]].n = 1]
         [] l.k = "edge" -> IF l.lab = None THEN AddEdgeLabel(text, place[1], new) ELSE text
         [] OTHER -> WrapLabel(text, place, new)
RelabelNode(family, text, place, new) ==
    IF family = "dot" THEN RelabelDot(text, place, new) ELSE WrapLabel(text, place, new)

(* The whole declaration is written again, with its label.                 *)
ReshapeNode(family, text, place, lab) ==
    IF ~Holds(text, place) THEN text
    ELSE IF family = "dot" /\ text[place[1]].k = "edge" THEN RelabelDot(text, place, lab)
    ELSE [WrapLabel(text, place, lab) EXCEPT ![place[1]].n = 0]

Renamed(ref, old, new) ==
    Ref(IF ref.id = old THEN new ELSE ref.id, IF ref.lab = old THEN new ELSE ref.lab)
RenameBlockId(text, old, new) ==
    [i \in DOMAIN text |->
        [text[i] EXCEPT !.refs = [j \in DOMAIN @ |-> Renamed(@[j], old, new)],
                        !.lab = IF @ = old THEN new ELSE @]]

-----------------------------------------------------------------------------
(* Style directives: one line for one target, rewritten in place.          *)

SetStyle(text, p, id) ==
    IF id \in DOMAIN p.styles THEN text ELSE Append(text, Line("style", <<Bare(id)>>, None, 0))
ClearStyle(text, p, id) ==
    IF id \in DOMAIN p.styles THEN DeleteLine(text, p.styles[id]) ELSE text
SetLinkStyle(text, p, index) ==
    IF index \in DOMAIN p.links THEN text ELSE Append(text, Line("linkStyle", << >>, None, index))
ClearLinkStyle(text, p, index) ==
    IF index \in DOMAIN p.links THEN DeleteLine(text, p.links[index]) ELSE text

-----------------------------------------------------------------------------
(* Additions, at the end of the text (of the digraph, in DOT).             *)

AddNode(family, text, id, lab) ==
    LET one(k) == Append(text, Decl(k, id, lab))
        name(k) == Append(text, Decl(k, id, None))
    IN CASE family = "flowchart" -> one("stmt") [] family = "dot" -> one("node")
         [] family = "block" -> one("chain") [] family \in {"network", "cloud"} -> one("node")
         [] family = "sequence" -> one("participant") [] family = "c4" -> one("element")
         [] family = "class" -> name("entity") [] family = "state" -> name("state")
         [] family \in {"er", "requirement"} -> Append(name("body"), Word("end"))
         [] OTHER -> text

EdgeKind(family) ==
    CASE family = "flowchart" -> "stmt" [] family = "dot" -> "edge" [] family = "block" -> "chain"
      [] family \in {"network", "cloud"} -> "link" [] family = "state" -> "transition"
      [] family = "sequence" -> "message" [] OTHER -> "rel"
Placeholder(family) ==
    CASE family = "sequence" -> "message" [] family = "er" -> "relates"
      [] family = "requirement" -> "satisfies" [] OTHER -> None
Connect(family, text, from, to) ==
    Append(text, Link(EdgeKind(family), from, to, Placeholder(family)))
ConnectGitMerge(text, into, from) ==
    IF into = from THEN text
    ELSE text \o <<Decl("checkout", into, None), Decl("merge", from, None)>>

ReconnectEdgeEnd(text, place, id) ==
    IF Holds(text, place) THEN ChangeRef(text, place, LAMBDA ref : Bare(id)) ELSE text

-----------------------------------------------------------------------------
(* Blocks: from a line to the end that balances it.                        *)

Opened(text, opens, i, j) == {k \in i..j : text[k].k \in opens}
Depth(text, opens, i, j) ==
    Cardinality(Opened(text, opens, i, j)) - Cardinality(Opened(text, {"end"}, i, j))
BlockAt(text, opens, i) ==
    LET closed == {j \in i..Len(text) : /\ Opened(text, opens, i, j) # {}
                                        /\ Depth(text, opens, i, j) <= 0}
    IN IF closed = {} THEN {} ELSE i..Min(closed)

(* The first block of that name, with all that stands in it.               *)
DeleteBlock(text, k, id) ==
    LET i == SelectInSeq(text, LAMBDA l : l.k = k /\ l.refs[1].id = id)
    IN IF i = 0 THEN text ELSE Without(text, BlockAt(text, {k}, i))
DeleteFlowSubgraph(text, id) == DeleteBlock(text, "subgraph", id)
DeleteBlockGroup(text, id) == DeleteBlock(text, "block", id)
DeleteGroupBlock(text, place) == Without(text, BlockAt(text, {"group"}, place[1]))
RemoveSubgraphBlock(text, i) == Without(text, BlockAt(text, {"subgraph"}, i))

(* The new block stands before every other mention of its members.         *)
WrapFlowchartSubgraph(text, members, id) ==
    IF Len(members) < 2 THEN text
    ELSE <<Decl("subgraph", id, "Group")>>
         \o [j \in DOMAIN members |-> Decl("stmt", members[j], None)] \o <<Word("end")>> \o text
WrapCloudGroup(text, lines) ==
    IF Cardinality(lines) < 2 \/ ~(lines \subseteq DOMAIN text) THEN text
    ELSE LET first == Min(lines)
             rest == Without(text, lines)
         IN SubSeq(rest, 1, first - 1) \o <<Line("group", << >>, "Group", 0)>>
            \o Without(text, DOMAIN text \ lines) \o <<Word("end")>>
            \o SubSeq(rest, first, Len(rest))

-----------------------------------------------------------------------------
(* Deletions by identifier.                                                *)

(* The words of a line outside brackets: in network and cloud the quoted   *)
(* labels are among them, in DOT a cluster's label is.                     *)
Tokens(family, l) ==
    LET labels == {l.lab} \cup {l.refs[j].lab : j \in DOMAIN l.refs}
    IN Mentions(l) \cup IF family \in {"network", "cloud"} \/ l.k = "label" THEN labels ELSE {}
DeleteNode(family, text, id) == RemoveAll(text, LAMBDA l : id \in Tokens(family, l))

(* The first line with nothing but the two ends, whatever its labels.      *)
DeleteEdge(text, from, to) ==
    RemoveFirstMatch(text, LAMBDA l : Ends(l, {"stmt", "edge", "chain", "link", "transition"}, from, to))
DeleteRel(text, from, to) == RemoveFirstMatch(text, LAMBDA l : Ends(l, {"rel"}, from, to))
DeleteC4Rel(text, from, to) == RemoveAll(text, LAMBDA l : Ends(l, {"rel"}, from, to))
DeleteMessage(text, from, to) == RemoveFirstMatch(text, LAMBDA l : Ends(l, {"message"}, from, to))

(* Declarations with their bodies, relationships and notes at one end.     *)
EntityDecls == {"entity", "member", "body", "state", "composite", "line"}
Incident == {"rel", "transition", "note"}
DeleteEntityWithBody(text, id) ==
    LET declares(i) == text[i].k \in EntityDecls /\ text[i].refs[1].id = id
        opens == {"body", "composite"}
        bodies == UNION {BlockAt(text, opens, i) : i \in {j \in DOMAIN text :
                                                            declares(j) /\ text[j].k \in opens}}
    IN Without(text, bodies \cup {i \in DOMAIN text :
            declares(i) \/ (text[i].k \in Incident /\ id \in Mentions(text[i]))})

DeleteC4(text, id) ==
    LET declared == {"element", "boundary"}
        decls == {i \in DOMAIN text : text[i].k \in declared /\ text[i].refs[1].id = id}
        blocks == {i \in decls : text[i].k = "boundary"}
        gone == IF blocks = {} THEN decls
                ELSE {i \in decls : i < Min(blocks)} \cup BlockAt(text, {"boundary"}, Min(blocks))
        ids == {id} \cup {text[i].refs[1].id : i \in {j \in gone : text[j].k \in declared}}
    IN Without(text, gone \cup {i \in DOMAIN text :
            text[i].k = "rel" /\ Mentions(text[i]) \cap ids # {}})

DeleteActor(text, id) == RemoveAll(text, LAMBDA l : id \in Mentions(l))

-----------------------------------------------------------------------------
(* Deletions by place.                                                     *)

DeleteLineAt(text, place) == DeleteLine(text, place[1])

(* The lines of its commits, and those that name it, in the text parsed.   *)
DeleteGitBranch(text, parsed, p, name) ==
    LET names == {i \in DOMAIN parsed :
            parsed[i].k \in {"branch", "checkout", "merge"} /\ parsed[i].refs[1].id = name}
        commits == {p.made[j] : j \in {k \in DOMAIN p.nodes : p.nodes[k].par = name}}
    IN Without(text, names \cup commits)

(* An event leaves its line, and its last event leaves it blank.           *)
EventRemoved(text, place) ==
    IF ~Holds(text, place) THEN text
    ELSE LET l == [text[place[1]] EXCEPT !.refs = RemoveAt(@, place[2])]
         IN [text EXCEPT ![place[1]] = IF l.refs = << >> THEN Word("blank") ELSE l]
MoveTimelineEvent(text, p, event, period) ==
    LET from == p.at[event]
        to == p.at[period][1]
        moved == [text EXCEPT ![to].refs = Append(@, text[from[1]].refs[from[2]])]
    IN IF \/ \E j \in DOMAIN p.nodes : p.nodes[j].id = event /\ p.nodes[j].par = period
          \/ ~Holds(text, from) \/ to \notin DOMAIN text
       THEN text
       ELSE EventRemoved(moved, from)
DeleteTimelinePeriod(text, place) ==
    LET first == place[1]
        stops == {i \in (first + 1)..Len(text) : text[i].k # "event"}
    IN Without(text, first..(IF stops = {} THEN Len(text) ELSE Min(stops) - 1))

-----------------------------------------------------------------------------
(* Mindmap: the subtree of a node is the run of deeper nodes after it.  A  *)
(* node moved is indented by steps of two, whatever the text is indented   *)
(* by.                                                                     *)

Level(p) ==
    LET index(id) == CHOOSE j \in DOMAIN p.nodes : p.nodes[j].id = id
        level[j \in DOMAIN p.nodes] ==
            IF p.nodes[j].par = None THEN 0 ELSE level[index(p.nodes[j].par)] + 1
    IN level
SubtreeAlone(p, c) == c..c   \* a mutant
Subtree(p, c) ==
    LET after == {j \in DOMAIN p.nodes : j > c /\ Level(p)[j] <= Level(p)[c]}
    IN c..(IF after = {} THEN Len(p.nodes) ELSE Min(after) - 1)
LinesOf(p, nodes) ==
    LET lines == {p.at[p.nodes[j].id][1] : j \in nodes} IN Min(lines)..Max(lines)

IndentStep == 2
Reindented(l, delta) == [l EXCEPT !.n = IF @ + delta < 0 THEN 0 ELSE @ + delta]

DeleteMindmapNode(text, p, c) == Without(text, LinesOf(p, Subtree(p, c)))

ConnectMindmap(text, p, parent, child) ==
    LET run == LinesOf(p, Subtree(p, child))
        above == p.at[p.nodes[parent].id][1]
        delta == (Level(p)[parent] + 1 - Level(p)[child]) * IndentStep
        moved == [j \in 1..Cardinality(run) |-> Reindented(text[Min(run) + j - 1], delta)]
        rest == Without(text, run)
        at == IF above > Max(run) THEN above - Cardinality(run) ELSE above
    IN IF \/ p.nodes[child].par \in {None, p.nodes[parent].id}
          \/ parent \in Subtree(p, child)
          \/ ~(run \cup {above} \subseteq DOMAIN text)
       THEN text
       ELSE SubSeq(rest, 1, at) \o moved \o SubSeq(rest, at + 1, Len(rest))
==============================================================================
