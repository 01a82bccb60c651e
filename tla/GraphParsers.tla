----------------------------- MODULE GraphParsers -----------------------------
(***************************************************************************)
(* The parsers of the families whose statements nest: flowchart, DOT,      *)
(* network, cloud, block, state and C4 (parser/src/shell/ *-grammar.ts and *)
(* *-parse.ts).  A grammar says which statements stand where; a step says  *)
(* what the walk over the tree makes of one statement.                     *)
(*                                                                         *)
(* Left out: shapes, arrow kinds, colours, descriptions.  A declaration    *)
(* with n = 1 carries a malformed icon reference.                          *)
(***************************************************************************)
EXTENDS DiagramSource

Styles == {"style", "linkStyle"}

-----------------------------------------------------------------------------
(* flowchart.                                                              *)

FlowGrammar == Nested({"subgraph"}, {"stmt"} \cup Styles)

(* A node keeps the container of its first mention; a declaration with     *)
(* brackets renames it.                                                    *)
FlowRefFirstPlace(p, ref, place) ==   \* a mutant
    IF ref.id \notin Ids(p) THEN At(Adds(p, ref.id, LabelOf(ref)), ref.id, place)
    ELSE IF ref.lab # None THEN Labels(p, ref.id, ref.lab) ELSE p
FlowRef(p, ref, place) ==
    IF ref.id \notin Ids(p) THEN At(Adds(p, ref.id, LabelOf(ref)), ref.id, place)
    ELSE IF ref.lab # None THEN At(Labels(p, ref.id, ref.lab), ref.id, place)
    ELSE p

FlowStatement(p, l, i) ==
    IF l.n = 1 THEN Failed(p)
    ELSE Chain(FoldLeftDomain(LAMBDA q, j : FlowRef(q, l.refs[j], <<i, j>>), p, l.refs), l, i)

FlowStep(p, l, i) ==
    CASE l.k = "stmt" -> FlowStatement(p, l, i)
      [] l.k = "subgraph" -> Opens(p, l.refs[1].id, LabelOf(l.refs[1]), i)
      [] l.k \in Styles -> Styled(p, l, i)

(* The order of the AST: the top level, then each subgraph depth first.  A *)
(* subgraph inside one of its own name is not entered again.               *)
FlowOrderAsRead(p) == p   \* a mutant
FlowOrder(p) ==
    LET In(id) == SelectSeq(p.nodes, LAMBDA node : node.par = id)
        Under(id) == SelectSeq(p.groups, LAMBDA g : g.par = id)
        RECURSIVE Walk(_, _)
        Walk(id, path) == FoldLeft(LAMBDA seq, g :
            seq \o In(g.id) \o IF g.id \in path THEN << >> ELSE Walk(g.id, path \cup {g.id}),
            << >>, Under(id))
    IN [p EXCEPT !.nodes = In(None) \o Walk(None, {})]

-----------------------------------------------------------------------------
(* DOT: n = 1 marks an attribute list without a label, or one between the  *)
(* nodes of an edge, which does not parse.                                 *)

DotGrammar == Nested({"cluster", "subgraph"}, {"node", "edge", "label"})

DotSees(p, ref, place) ==
    IF ref.id \in Ids(p) THEN p ELSE At(Adds(p, ref.id, ref.id), ref.id, place)

DotStep(p, l, i) ==
    CASE l.k = "cluster" -> Opens(p, l.refs[1].id, l.refs[1].id, i)
      [] l.k = "subgraph" ->
             IF l.refs[1].lab # None THEN Failed(p) ELSE [p EXCEPT !.stack = Append(@, Within(p))]
      [] l.k = "label" ->
             [p EXCEPT !.groups = [j \in DOMAIN @ |-> IF @[j].id = Within(p)
                 THEN [id |-> @[j].id, lab |-> l.lab, par |-> @[j].par, line |-> @[j].line]
                 ELSE @[j]]]
      [] l.k = "edge" ->
             IF l.n = 1 THEN Failed(p)
             ELSE Chain(FoldLeftDomain(LAMBDA q, j : DotSees(q, l.refs[j], <<i, j>>), p, l.refs),
                        l, i)
      [] l.k = "node" ->
             LET ref == l.refs[1]
                 q == DotSees(p, ref, <<i, 1>>)
             IN At(IF ref.lab = None THEN q ELSE Labels(q, ref.id, ref.lab), ref.id, <<i, 1>>)

-----------------------------------------------------------------------------
(* network and cloud: groups have no identifier of their own.              *)

NetGrammar == Nested({"group"}, {"node", "link"} \cup Styles)
CloudGrammar == Nested({"group"}, {"node", "link"} \cup Styles)

GroupId(p) == "group:" \o ToString(Len(p.groups))

(* A bare declaration does not take the place of a labelled one.           *)
Spanned(text, p, i) ==
    LET ref == text[i].refs[1]
        labelled == ref.id \in DOMAIN p.at /\ text[p.at[ref.id][1]].refs[1].lab # None
    IN IF ref.lab = None /\ labelled THEN p ELSE At(p, ref.id, <<i, 1>>)

NetStep(text, p, l, i) ==
    CASE l.k = "group" -> Opens(p, GroupId(p), l.lab, i)
      [] l.k = "node" ->
             IF l.n = 1 THEN Failed(p)
             ELSE Spanned(text,
                          IF l.refs[1].id \in Ids(p) THEN p
                          ELSE Adds(p, l.refs[1].id, LabelOf(l.refs[1])), i)
      [] l.k = "link" -> Chain(p, l, i)
      [] l.k \in Styles -> Styled(p, l, i)

CloudStep(text, p, l, i) ==
    CASE l.k = "group" -> Opens(p, GroupId(p), l.lab, i)
      [] l.k = "node" ->
             IF l.n = 1 THEN Failed(p)
             ELSE Spanned(text, Adds(p, l.refs[1].id, LabelOf(l.refs[1])), i)
      [] l.k = "link" -> Chain(p, l, i)
      [] l.k \in Styles -> Styled(p, l, i)

-----------------------------------------------------------------------------
(* block: a composite may be mentioned before it is declared.              *)

BlockGrammar == Nested({"block"}, {"chain", "columns"} \cup Styles)

Composites(text) == {text[i].refs[1].id : i \in {j \in DOMAIN text : text[j].k = "block"}}

BlockRef(composites, p, ref, place) ==
    IF ref.id \in composites THEN p
    ELSE LET q == IF ref.id \notin Ids(p) THEN Adds(p, ref.id, LabelOf(ref))
                  ELSE IF ref.lab # None THEN Labels(p, ref.id, ref.lab) ELSE p
         IN IF ref.lab # None \/ ref.id \notin DOMAIN p.at THEN At(q, ref.id, place) ELSE q

BlockStep(text, p, l, i) ==
    CASE l.k = "block" ->
             IF l.refs[1].id \in GroupIds(p) THEN Failed(p)
             ELSE Opens(p, l.refs[1].id, l.refs[1].id, i)
      [] l.k = "chain" ->
             IF l.n = 1 THEN Failed(p)
             ELSE Chain(FoldLeftDomain(
                            LAMBDA q, j : BlockRef(Composites(text), q, l.refs[j], <<i, j>>),
                            p, l.refs), l, i)
      [] l.k = "columns" -> p
      [] l.k \in Styles -> Styled(p, l, i)

-----------------------------------------------------------------------------
(* state: [*] is the start or the end of its scope.                        *)

StateGrammar ==
    Nested({"composite"}, {"state", "line", "transition", "note", "direction"} \cup Styles)

Star == "[*]"
Endpoint(p, id, role) ==
    IF id # Star THEN id
    ELSE IF Within(p) = None THEN "__" \o role ELSE "__" \o role \o "__" \o Within(p)

(* `state id` writes the label again, and leaves its place as it was.      *)
StateDecl(p, ref, i) ==
    LET q == Labels(Sees(p, ref.id), ref.id, LabelOf(ref))
    IN IF ref.lab = None THEN q ELSE At(q, ref.id, <<i, 1>>)

Composite(p, ref, i) ==
    LET q == IF ref.id \notin GroupIds(p) THEN Opens(p, ref.id, LabelOf(ref), i)
             ELSE [p EXCEPT !.stack = Append(@, ref.id)]
    IN IF ref.lab = None THEN q ELSE At(q, ref.id, <<i, 1>>)

StateStep(p, l, i) ==
    CASE l.k = "transition" ->
             LET from == Endpoint(p, l.refs[1].id, "start")
                 to == Endpoint(p, l.refs[2].id, "end")
             IN Joins(Sees(Sees(p, from), to), from, to, l.lab, i)
      [] l.k = "line" ->
             IF l.refs[1].id = Star \/ l.lab = None THEN p
             ELSE LET id == l.refs[1].id
                  IN At(Labels(Sees(p, id), id, l.lab), id, <<i, 0>>)
      [] l.k = "state" -> StateDecl(p, l.refs[1], i)
      [] l.k = "composite" -> Composite(p, l.refs[1], i)
      [] l.k = "note" -> p
      [] l.k = "direction" -> IF l.n = 1 THEN Failed(p) ELSE p
      [] l.k \in Styles -> Styled(p, l, i)

(* A composite mentioned as a state is no state.                           *)
StateOrder(p) ==
    [p EXCEPT !.nodes = SelectSeq(p.nodes, LAMBDA node : node.id \notin GroupIds(p))]

-----------------------------------------------------------------------------
(* C4: a boundary is an element that holds elements.                       *)

C4Grammar == Nested({"boundary"}, {"element", "rel", "style"})

C4Step(p, l, i) ==
    CASE l.k = "element" -> At(Adds(p, l.refs[1].id, l.refs[1].lab), l.refs[1].id, <<i, 1>>)
      [] l.k = "boundary" ->
             Opens(At(Adds(p, l.refs[1].id, l.refs[1].lab), l.refs[1].id, <<i, 1>>),
                   l.refs[1].id, l.refs[1].lab, i)
      [] l.k = "rel" -> Chain(p, l, i)
      [] l.k = "style" -> Styled(p, l, i)
==============================================================================
