--------------------------- MODULE SceneGeometry ---------------------------
(***************************************************************************)
(* The scene a layout gives the renderer: boxes in pixels with the         *)
(* container each is drawn in, the edges between them and the extent; the  *)
(* helpers the layouts share, and the style rules of                       *)
(* modules/layout/src/core/invariants.ts. A label is its measured width,   *)
(* even, so that half of it is a number; the routes of the edges and the   *)
(* look of a box are not part of it.                                       *)
(***************************************************************************)
EXTENDS Integers, Sequences, FiniteSets, FiniteSetsExt, Functions

\* An id is a tuple; the empty one is the parent of a box outside any container.
Root == << >>

Node(id, x, y, w, h, parent) ==
    [id |-> id, x |-> x, y |-> y, w |-> w, h |-> h, parent |-> parent]
Edge(from, to) == [from |-> from, to |-> to]
Scene(nodes, edges, w, h) == [ok |-> TRUE, nodes |-> nodes, edges |-> edges, w |-> w, h |-> h]
Err == [ok |-> FALSE, nodes |-> {}, edges |-> {}, w |-> 0, h |-> 0]

Larger(a, b) == IF a < b THEN b ELSE a
ClampedWidth(label, min, pad) == Larger(min, label + pad)
MaxOf(S) == IF S = {} THEN 0 ELSE Max(S)

Right(b) == b.x + b.w
Bottom(b) == b.y + b.h

\* How far a cursor has come before the i-th of the steps f.
Before(f, i) ==
    LET cursor[n \in 0..(i - 1)] == IF n = 0 THEN 0 ELSE cursor[n - 1] + f[n]
    IN  cursor[i - 1]

\* No two of the elements, tasks, ... of a sequence have the same id.
Apart(s) == \A i, j \in DOMAIN s : s[i].id = s[j].id => i = j

\* The items of s that are in S, pushed in order.
Those(s, S) ==
    LET pushed[n \in 0..Len(s)] ==
          IF n = 0 THEN << >>
          ELSE IF s[n] \in S THEN Append(pushed[n - 1], s[n]) ELSE pushed[n - 1]
    IN  pushed[Len(s)]

\* The scene ends at the last box on either axis.
Fitted(nodes, edges, margin) ==
    Scene(nodes, edges, MaxOf({Right(b) : b \in nodes}) + margin,
          MaxOf({Bottom(b) : b \in nodes}) + margin)

TitleBand == 34

WithTitle(scene, titled) ==
    IF ~titled THEN scene
    ELSE [scene EXCEPT !.nodes = {[b EXCEPT !.y = @ + TitleBand] : b \in @},
                       !.h = @ + TitleBand]

\* Row-major cells, each column as wide as its widest item, each row as high
\* as its highest: the top left corners and the size of the whole.
VariableGrid(sizes, columns, gap) ==
    LET cols == Larger(1, columns)
        rows == Larger(1, (Len(sizes) + cols - 1) \div cols)
        col(i) == ((i - 1) % cols) + 1
        row(i) == (i - 1) \div cols + 1
        colW == [c \in 1..cols |->
                   MaxOf({sizes[i].w : i \in {j \in DOMAIN sizes : col(j) = c}}) + gap]
        rowH == [r \in 1..rows |->
                   MaxOf({sizes[i].h : i \in {j \in DOMAIN sizes : row(j) = r}}) + gap]
        used == IF Len(sizes) < cols THEN Larger(1, Len(sizes)) ELSE cols
    IN  [cells |-> [i \in DOMAIN sizes |->
                      [x |-> Before(colW, col(i)), y |-> Before(rowH, row(i))]],
         w |-> Before(colW, used + 1) - gap,
         h |-> Before(rowH, rows + 1) - gap]

-----------------------------------------------------------------------------
(* invariants.ts *)

Slack == 1

Span(lo1, hi1, lo2, hi2) ==
    (IF hi1 < hi2 THEN hi1 ELSE hi2) - Larger(lo1, lo2)
OverlapArea(a, b) ==
    LET ox == Span(a.x, Right(a), b.x, Right(b))
        oy == Span(a.y, Bottom(a), b.y, Bottom(b))
    IN  IF ox > 0 /\ oy > 0 THEN ox * oy ELSE 0

NoSiblingOverlaps(nodes) ==
    \A a, b \in nodes : a.id # b.id /\ a.parent = b.parent => OverlapArea(a, b) <= Slack

ContainersEncloseMembers(nodes) ==
    \A n, p \in nodes : n.parent = p.id =>
        /\ n.x >= p.x - Slack /\ n.y >= p.y - Slack
        /\ Right(n) <= Right(p) + Slack /\ Bottom(n) <= Bottom(p) + Slack

StyleOk(scene) == NoSiblingOverlaps(scene.nodes) /\ ContainersEncloseMembers(scene.nodes)
=============================================================================
