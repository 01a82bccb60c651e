--------------------------- MODULE SmallDiagrams ---------------------------
(***************************************************************************)
(* Small diagrams of each family for FamilyLayouts: labels are narrow,     *)
(* wider than the least box, or so wide that a row of the cloud wraps.     *)
(***************************************************************************)
EXTENDS ParsedDiagrams, SequencesExt

Widths == {20, 120}
A == <<1>>
B == <<2>>
C == <<3>>
D == <<4>>

El(id, parent, label, group, span, columns) ==
    [id |-> id, parent |-> parent, label |-> label, group |-> group, span |-> span,
     columns |-> columns]

\* Two nested groups and two leaves, in any nesting and order of the leaves.
Nestings ==
    {<< El(A, Root, wa, TRUE, sa, ca), El(B, pb, wb, TRUE, 1, cb),
        El(C, pc, wc, FALSE, sc, 1), El(D, pd, 20, FALSE, 1, 1) >> :
        wa \in Widths, wb \in {20}, wc \in Widths, pb \in {Root, A}, pc \in {Root, A, B},
        pd \in {A, B}, sa \in {1, 2}, ca \in {1, 2}, cb \in {2}, sc \in {1, 2, 3}}
Links == {{}, {Edge(C, D)}, {Edge(C, C), Edge(D, C)}, {Edge(A, D)}}

\* Without spans: the other families have none.
Plain == {e \in Nestings : e[1].span = 1 /\ e[1].columns = 1 /\ e[3].span = 1}

BlockDiagrams ==
    [family : {"block"}, elements : Nestings \cup {Reverse(e) : e \in Plain}, links : {{Edge(C, D)}},
     columns : {1, 2, 3}]

Wide == {[e EXCEPT ![3].label = w, ![4].label = v] :
            e \in {n \in Plain : n[1].label = 20}, w \in {20, 600}, v \in {20, 600}}
NestDiagrams ==
    [family : {"network", "c4"}, elements : Plain, links : Links]
        \cup [family : {"cloud"}, elements : Wide, links : Links \ {{}, {Edge(C, D)}}]

\* Groups in groups: the innermost may be empty.
E == <<5>>
Deep ==
    {<< El(A, Root, 20, TRUE, 1, 1), El(B, A, 20, TRUE, 1, 1), El(C, B, 20, g, 1, 1),
        El(D, d, 20, FALSE, 1, 1), El(E, B, 120, FALSE, 1, 1) >> : g \in BOOLEAN, d \in {A, B, C}}
DeepDiagrams ==
    [family : {"block"}, elements : {n \in Deep : n[3].group \/ n[4].parent # C},
     links : {{Edge(C, D)}}, columns : {2}]
        \cup [family : {"network", "cloud", "c4"},
              elements : {n \in Deep : n[3].group \/ n[4].parent # C}, links : {{Edge(C, D)}}]

\* A link to what is not declared, and an id declared twice.
TwiceNamed == << El(A, Root, 20, TRUE, 1, 1), El(C, A, 20, FALSE, 1, 1), El(C, A, 120, FALSE, 1, 1) >>
OddNests ==
    [family : {"cloud", "c4"}, elements : {<< El(C, Root, 20, FALSE, 1, 1) >>}, links : {{Edge(C, D)}}]
        \cup [family : {"cloud", "c4"}, elements : {TwiceNamed}, links : {{}}]

Msg(f, t) == [from |-> f, to |-> t]
SequenceDiagrams ==
    [family : {"sequence"},
     actors : {<< [id |-> A, label |-> a], [id |-> B, label |-> b] >> : a \in Widths, b \in Widths},
     messages : {<< >>, << Msg(A, B) >>, << Msg(A, B), Msg(B, B) >>},
     notes : {<< >>} \cup
        {<< [after |-> x, side |-> s, targets |-> ts, text |-> w],
            [after |-> y, side |-> "left", targets |-> {A}, text |-> 20] >> :
           x \in {0}, y \in {0}, s \in {"over", "left", "right"}, ts \in {{A}, {B}, {A, B}},
           w \in {20, 400}}]
        \cup
    [family : {"sequence"},
     actors : {<< [id |-> A, label |-> 20], [id |-> B, label |-> 120] >>},
     messages : {<< Msg(A, B), Msg(B, B) >>},
     notes : {<< [after |-> x, side |-> s, targets |-> {A}, text |-> 20],
                 [after |-> y, side |-> "over", targets |-> {A, B}, text |-> 400] >> :
                x \in 0..1, y \in 1..2, s \in {"over", "left"}}]
\* An actor that is called as the box of the note is.
OddSequences ==
    [family : {"sequence"},
     actors : {<< [id |-> A, label |-> 20], [id |-> <<"note", 1>>, label |-> 20] >>},
     messages : {<< >>},
     notes : {<< [after |-> 0, side |-> "over", targets |-> {A}, text |-> 20] >>}]

Period(w, l, es, s) == [label |-> w, lines |-> l, events |-> es, section |-> s]
Events == {<< >>, << [label |-> 120, lines |-> 2], [label |-> 20, lines |-> 1] >>}
TimelineDiagrams ==
    [family : {"timeline"}, titled : BOOLEAN,
     periods : {<< Period(w, l, es, s[1]), Period(v, 1, fs, s[2]), Period(20, 3, << >>, s[3]) >> :
        w \in Widths, v \in Widths, l \in {1, 3}, es \in Events, fs \in Events,
        s \in {<<0, 0, 0>>, <<1, 1, 0>>, <<1, 2, 1>>, <<0, 1, 1>>}}]

Commit(b, w, ps) == [branch |-> b, label |-> w, parents |-> ps]
GitDiagrams ==
    [family : {"gitGraph"}, direction : {"LR", "TB", "BT"}, classic : BOOLEAN, tidy : BOOLEAN,
     branches : {<< [name |-> "main", label |-> 32], [name |-> "b", label |-> l],
                    [name |-> "c", label |-> 20] >> : l \in {20, 50, 200}},
     commits : {<< Commit("main", w, {}), Commit("b", v, {1}), Commit("c", 20, {p}),
                   Commit("main", 20, {1, q}) >> :
                  w \in Widths, v \in Widths, p \in {1, 2}, q \in {2, 3}}]

\* Durations are in half days.
Task(id, after, date, duration, label, milestone) ==
    [id |-> id, after |-> after, date |-> date, duration |-> duration, label |-> label,
     milestone |-> milestone]
\* The third task waits for one of two of its name, or for none.
OddCharts ==
    [family : {"gantt"}, titled : BOOLEAN, excludeDates : {{}}, excludesWeekends : {TRUE},
     tasks : {<< Task(A, {}, d, 6, 20, FALSE), Task(A, {}, 0, 2, 20, FALSE),
                 Task(B, as, -4, 2, 20, FALSE) >> : d \in 0..2, as \in {{}, {A}, {C}}}]
\* Day 1 is a Friday: day 2 and 3 are a weekend.
GanttDiagrams ==
    [family : {"gantt"}, titled : {FALSE}, excludeDates : {{}, {4}, {1, 4}},
     excludesWeekends : BOOLEAN,
     tasks : {<< Task(A, {}, d, n, 20, FALSE), Task(B, as, d, m, 120, m = 0),
                 Task(C, {A, B}, 0, k, w, FALSE) >> :
                d \in 0..3, n \in 1..4, m \in {0, 1, 4}, k \in {2, 3}, as \in {{}, {A}}, w \in Widths}]

MCDiagrams ==
    BlockDiagrams \cup NestDiagrams \cup DeepDiagrams \cup OddNests \cup OddCharts \cup SequenceDiagrams
        \cup OddSequences \cup TimelineDiagrams \cup GitDiagrams \cup GanttDiagrams
=============================================================================
