---------------------------- MODULE DiagramSource ----------------------------
(***************************************************************************)
(* The source text of a diagram and what a parser makes of it (contracts/  *)
(* core/source.ts and ast.ts), as far as editing needs them.               *)
(*                                                                         *)
(* A text is a sequence of statements, one to a line: the kind of the      *)
(* statement, the identifiers it mentions, each with the label written at  *)
(* it, the label of the statement as a whole (the text of an edge) and a   *)
(* number (an indentation, a link index, a flag).  A place in a text is a  *)
(* line and the position of an identifier there, 0 for the line's label:   *)
(* the token a TextSpan covers.                                            *)
(***************************************************************************)
EXTENDS Naturals, FiniteSets, Sequences, SequencesExt, TLC

None == ""
Ref(id, lab) == [id |-> id, lab |-> lab]
Bare(id) == Ref(id, None)
Line(k, refs, lab, n) == [k |-> k, refs |-> refs, lab |-> lab, n |-> n]
Decl(k, id, lab) == Line(k, <<Ref(id, lab)>>, None, 0)
Link(k, a, b, lab) == Line(k, <<Bare(a), Bare(b)>>, lab, 0)
Word(k) == Line(k, << >>, None, 0)

LabelOf(ref) == IF ref.lab = None THEN ref.id ELSE ref.lab

(* The text a span covers.                                                 *)
Covered(text, place) ==
    IF place[2] = 0 THEN text[place[1]].lab ELSE LabelOf(text[place[1]].refs[place[2]])
Mentions(l) == {l.refs[j].id : j \in DOMAIN l.refs}

-----------------------------------------------------------------------------
(* What a parse returns: the AST, and the source map.  `at` is the place   *)
(* of each node's label, `stack` the containers open, `notes` the notes of *)
(* a sequence diagram and their lines; `current`, `tips` and `made` are    *)
(* git's branch checked out, the last commit of each branch and the line   *)
(* of each commit.                                                         *)

Parsed == [ok |-> TRUE, nodes |-> << >>, edges |-> << >>, groups |-> << >>,
           at |-> << >>, styles |-> << >>, links |-> << >>, stack |-> << >>, notes |-> << >>,
           current |-> "main", tips |-> ("main" :> None), made |-> << >>]

Failed(p) == [p EXCEPT !.ok = FALSE]
Within(p) == IF p.stack = << >> THEN None ELSE Last(p.stack)
Ids(p) == {p.nodes[j].id : j \in DOMAIN p.nodes}
GroupIds(p) == {p.groups[j].id : j \in DOMAIN p.groups}

Adds(p, id, lab) ==
    [p EXCEPT !.nodes = Append(@, [id |-> id, lab |-> lab, par |-> Within(p)])]
Sees(p, id) == IF id \in Ids(p) THEN p ELSE Adds(p, id, id)
Labels(p, id, lab) ==
    [p EXCEPT !.nodes = [j \in DOMAIN p.nodes |->
        IF p.nodes[j].id = id THEN [p.nodes[j] EXCEPT !.lab = lab] ELSE p.nodes[j]]]
At(p, id, place) == [p EXCEPT !.at = (id :> place) @@ @]
Joins(p, from, to, lab, i) ==
    [p EXCEPT !.edges = Append(@, [from |-> from, to |-> to, lab |-> lab, line |-> i])]

Opens(p, id, lab, i) ==
    [p EXCEPT !.groups = Append(@, [id |-> id, lab |-> lab, par |-> Within(p), line |-> i]),
              !.stack = Append(@, id)]
Closes(p) == [p EXCEPT !.stack = Front(@)]

(* Several links in one statement, a --> b --> c.                          *)
Chain(p, l, i) ==
    FoldLeftDomain(LAMBDA q, j : IF j = 1 THEN q
                                 ELSE Joins(q, l.refs[j - 1].id, l.refs[j].id, l.lab, i),
                   p, l.refs)

(* A style directive of one target, and a linkStyle of one index, keep     *)
(* their line: the last one counts.                                        *)
Styled(p, l, i) ==
    IF l.k = "style" THEN [p EXCEPT !.styles = (l.refs[1].id :> i) @@ @]
    ELSE [p EXCEPT !.links = (l.n :> i) @@ @]

-----------------------------------------------------------------------------
(* Grammars: which statements open a block, and which may stand where.     *)

Nested(opens, stmts) == [opens |-> opens, top |-> stmts \cup opens, in |-> stmts \cup opens]
Bodied(opens, stmts, body) == [opens |-> opens, top |-> stmts \cup opens, in |-> body]
Flat(stmts) == Bodied({}, stmts, {})

Admits(grammar, p, l) ==
    IF p.stack = << >> THEN l.k \in grammar.top ELSE l.k \in grammar.in \cup {"end"}
==============================================================================
