---------------------------- MODULE RecordParsers ----------------------------
(***************************************************************************)
(* The parsers of the families that read like lists of records: ER, class, *)
(* requirement, sequence, git graph, timeline, mindmap, pie and gantt      *)
(* (parser/src/shell/ *-grammar.ts and *-parse.ts).                        *)
(*                                                                         *)
(* Left out: attributes, members, cardinalities, tags, notes' sides,       *)
(* titles.  n = 1 marks a statement whose value the parser rejects.        *)
(***************************************************************************)
EXTENDS GraphParsers

Numbered(prefix, n) == prefix \o ToString(n)

(* The first mention declares, and stays the place of the label.           *)
SeesAt(p, ref, place) ==
    IF ref.id \in Ids(p) THEN p ELSE At(Adds(p, ref.id, ref.id), ref.id, place)
SeesAll(p, l, i) ==
    FoldLeftDomain(LAMBDA q, j : SeesAt(q, l.refs[j], <<i, j>>), p, l.refs)

-----------------------------------------------------------------------------
(* ER, class, requirement.  A body belongs to the statement that opens it. *)

ErGrammar == Bodied({"body"}, {"entity", "rel"} \cup Styles, {"row"})

ErStep(p, l, i) ==
    CASE l.k = "entity" -> SeesAll(p, l, i)
      [] l.k = "body" -> [SeesAll(p, l, i) EXCEPT !.stack = <<l.refs[1].id>>]
      [] l.k = "row" -> p
      [] l.k = "rel" -> Chain(SeesAll(p, l, i), l, i)
      [] l.k \in Styles -> Styled(p, l, i)

ClassGrammar ==
    Bodied({"body"}, {"entity", "member", "stereotype", "rel"} \cup Styles, {"row"})

ClassStep(p, l, i) ==
    CASE l.k \in {"entity", "member", "stereotype"} -> SeesAll(p, l, i)
      [] l.k = "body" -> [SeesAll(p, l, i) EXCEPT !.stack = <<l.refs[1].id>>]
      [] l.k = "row" -> p
      [] l.k = "rel" -> Chain(SeesAll(p, l, i), l, i)
      [] l.k \in Styles -> Styled(p, l, i)

ReqGrammar == Bodied({"body"}, {"rel", "reverse"}, {"row"})

ReqStep(p, l, i) ==
    CASE l.k = "body" ->
             LET id == l.refs[1].id
                 q == [Adds(p, id, id) EXCEPT !.stack = <<id>>]
             IN IF id \in DOMAIN p.at THEN q ELSE At(q, id, <<i, 1>>)
      [] l.k = "row" -> IF l.n = 1 THEN Failed(p) ELSE p
      [] l.k = "rel" -> IF l.n = 1 THEN Failed(p) ELSE Chain(p, l, i)
      [] l.k = "reverse" ->
             IF l.n = 1 THEN Failed(p)
             ELSE Joins(p, l.refs[2].id, l.refs[1].id, l.lab, i)

-----------------------------------------------------------------------------
(* sequence: only an alias labels an actor, but every declaration moves    *)
(* the place of its label.  Notes are numbered, and are nodes of the scene *)
(* after the actors.                                                       *)

SeqGrammar == Flat({"participant", "message", "note"})

SeqStep(p, l, i) ==
    CASE l.k = "participant" ->
             LET ref == l.refs[1]
                 q == Sees(p, ref.id)
             IN At(IF ref.lab = None THEN q ELSE Labels(q, ref.id, ref.lab), ref.id, <<i, 1>>)
      [] l.k = "message" -> Chain(Sees(Sees(p, l.refs[1].id), l.refs[2].id), l, i)
      [] l.k = "note" ->
             LET id == Numbered("note", Len(p.notes))
             IN [FoldLeft(LAMBDA q, ref : Sees(q, ref.id), p, l.refs)
                    EXCEPT !.notes = Append(@, [id |-> id, lab |-> l.lab, line |-> i])]
SeqNodes(p) ==
    LET notes == {p.notes[j] : j \in DOMAIN p.notes}
    IN [p EXCEPT !.nodes = @ \o [j \in DOMAIN p.notes |->
                                    [id |-> p.notes[j].id, lab |-> p.notes[j].lab, par |-> None]],
                 !.at = @ @@ [id \in {n.id : n \in notes} |->
                                 <<(CHOOSE n \in notes : n.id = id).line, 0>>]]

-----------------------------------------------------------------------------
(* git graph: a commit's name is explicit, or the next cN free.  The lanes  *)
(* are the branches, main before all others.                               *)

GitGrammar == Flat({"commit", "branch", "checkout", "merge"})
GitParsed ==
    [Parsed EXCEPT !.groups = <<[id |-> "main", lab |-> "main", par |-> None, line |-> 0]>>]

AutoId(p) ==
    LET taken(k) == Numbered("c", k) \in Ids(p)
        candidates == Len(p.nodes)..(2 * Len(p.nodes))
    IN Numbered("c", CHOOSE k \in candidates : ~taken(k) /\ \A j \in candidates : j < k => taken(j))

(* `name` is a sequence: empty, or the explicit identifier.                *)
Commits(p, name, parents, i, slot) ==
    LET id == IF name = << >> THEN AutoId(p) ELSE name[1].id
        q == [p EXCEPT !.nodes = Append(@, [id |-> id, lab |-> id, par |-> p.current]),
                       !.tips = (p.current :> id) @@ @, !.made = Append(@, i)]
        r == FoldLeft(LAMBDA s, from : Joins(s, from, id, None, i), q,
                      SelectSeq(parents, LAMBDA from : from # None))
    IN IF name # << >> /\ id \in Ids(p) THEN Failed(p)
       ELSE IF name = << >> THEN r ELSE At(r, id, <<i, slot>>)

GitStep(p, l, i) ==
    CASE l.k = "commit" -> Commits(p, l.refs, <<p.tips[p.current]>>, i, 1)
      [] l.k = "branch" ->
             LET name == l.refs[1].id
             IN IF name \in DOMAIN p.tips THEN Failed(p)
                ELSE [p EXCEPT !.tips = (name :> p.tips[p.current]) @@ @, !.current = name,
                               !.groups = Append(@, [id |-> name, lab |-> name,
                                                     par |-> None, line |-> i])]
      [] l.k = "checkout" ->
             IF l.refs[1].id \notin DOMAIN p.tips THEN Failed(p)
             ELSE [p EXCEPT !.current = l.refs[1].id]
      [] l.k = "merge" ->
             LET name == l.refs[1].id
             IN IF name \notin DOMAIN p.tips \/ name = p.current THEN Failed(p)
                ELSE Commits(p, Tail(l.refs), <<p.tips[p.current], p.tips[name]>>, i, 2)

-----------------------------------------------------------------------------
(* timeline: periods are p0, p1 ..., the events under them e0, e1 ...      *)

TimelineGrammar == Flat({"section", "period", "event"})

Counted(p, prefix) ==
    Numbered(prefix, Cardinality({j \in DOMAIN p.nodes :
        (p.nodes[j].par = None) = (prefix = "p")}))

Events(p, period, l, i) ==
    FoldLeftDomain(LAMBDA q, j :
        IF j = 1 /\ l.k = "period" THEN q
        ELSE LET id == Counted(q, "e")
             IN At([q EXCEPT !.nodes = Append(@, [id |-> id, lab |-> l.refs[j].id,
                                                 par |-> period])], id, <<i, j>>),
        p, l.refs)

TimelineStep(p, l, i) ==
    CASE l.k = "section" -> p
      [] l.k = "period" ->
             LET id == Counted(p, "p")
             IN [Events(At(Adds(p, id, l.refs[1].id), id, <<i, 1>>), id, l, i)
                    EXCEPT !.current = id]
      [] l.k = "event" ->
             IF p.nodes = << >> THEN Failed(p) ELSE Events(p, p.current, l, i)

-----------------------------------------------------------------------------
(* mindmap: the parent is the nearest line before it that is indented less. *)

MindmapGrammar == Flat({"node", "style"})

MindmapStep(text, p, l, i) ==
    LET nodeLines(upto) == {j \in 1..upto : text[j].k = "node"}
        above == {j \in nodeLines(i - 1) : text[j].n < l.n}
        parent == IF above = {} THEN None
                  ELSE Numbered("n", Cardinality(nodeLines(Max(above))) - 1)
        id == Numbered("n", Len(p.nodes))
    IN IF l.k = "style" THEN p
       ELSE At([p EXCEPT !.nodes = Append(@, [id |-> id, lab |-> l.refs[1].id, par |-> parent])],
               id, <<i, 1>>)

-----------------------------------------------------------------------------
(* pie, gantt.  A task without an identifier is tN.                        *)

PieGrammar == Flat({"slice"})

PieStep(p, l, i) ==
    IF l.n = 0 THEN Failed(p)
    ELSE LET id == Numbered("s", Len(p.nodes))
         IN At(Adds(p, id, l.refs[1].id), id, <<i, 1>>)

GanttGrammar == Flat({"section", "excludes", "task"})

(* refs: the label, then the identifier if there is one; lab: the task it  *)
(* comes after.                                                            *)
GanttTask(p, l, i) ==
    LET id == IF Len(l.refs) = 1 THEN Numbered("t", Len(p.nodes)) ELSE l.refs[2].id
        q == At(Adds(p, id, l.refs[1].id), id, <<i, 1>>)
    IN IF l.lab = None THEN q ELSE Joins(q, l.lab, id, None, i)

GanttStep(p, l, i) ==
    IF l.k = "section" THEN p
    ELSE IF l.n = 1 THEN Failed(p)
    ELSE IF l.k = "task" THEN GanttTask(p, l, i)
    ELSE p
==============================================================================
