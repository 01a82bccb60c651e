-------------------------- MODULE ContainerLayouts --------------------------
(***************************************************************************)
(* The layouts of the families that nest boxes: block, network, cloud and  *)
(* C4. A diagram is a sequence of elements in source order, each with the  *)
(* group it is in, and its links. Boxes are sized from the inside, given a *)
(* cell among their siblings, and placed from the outside. Every layout is *)
(* total over such a diagram, or says that an edge names nothing, or that  *)
(* groups are nested too deep.                                             *)
(***************************************************************************)
EXTENDS SceneGeometry

CONSTANT MaxNestDepth       \* MAX_NEST_DEPTH, 64 in the code

ASSUME NestAssumption == MaxNestDepth \in Nat

\* The elements of a diagram, and those directly in a group, in order.
Elements(els) == Range(els)
Ids(els) == {e.id : e \in Elements(els)}
Element(els, id) == CHOOSE e \in Elements(els) : e.id = id
Kids(els, p) == Those(els, {e \in Elements(els) : e.parent = p})
LeavesFirst(s) == Those(s, {e \in Range(s) : ~e.group}) \o Those(s, {e \in Range(s) : e.group})
GroupsFirst(s) == Those(s, {e \in Range(s) : e.group}) \o Those(s, {e \in Range(s) : ~e.group})
NthOf(s, e) == CHOOSE i \in DOMAIN s : s[i] = e
Named(ast) == \A l \in ast.links : {l.from, l.to} \subseteq Ids(ast.elements)

\* How many groups an element is in.
Nesting(els) ==
    LET depth[e \in Elements(els)] ==
          IF e.parent = Root THEN 0 ELSE depth[Element(els, e.parent)] + 1
    IN  depth

\* The block and the network go into every group, be it empty.
TooDeep(els) == \E e \in Elements(els) : e.group /\ Nesting(els)[e] >= MaxNestDepth

SqrtUp(n) == CHOOSE c \in 1..Larger(1, n) : c * c >= n /\ \A d \in 1..(c - 1) : d * d < n

Reach(cells, sizes) == MaxOf({cells[i].x + sizes[i].w : i \in DOMAIN sizes})
Depth(cells, sizes) == MaxOf({cells[i].y + sizes[i].h : i \in DOMAIN sizes})

\* What a container holds starts a padding and a header into it.
Boxes(els, shown, size, cell, pad, header) ==
    LET at[e \in shown] ==
          LET c == cell[e]
          IN  IF e.parent = Root THEN c
              ELSE LET p == at[Element(els, e.parent)]
                   IN  [x |-> p.x + pad + c.x, y |-> p.y + header + c.y]
        box(e, p, s) == Node(e.id, p.x, p.y, s.w, s.h, e.parent)
    IN  {box(e, at[e], size[e]) : e \in shown}

-----------------------------------------------------------------------------
(* block.ts: every row of a container has its columns, a block spans some *)

BlockGap == 44
BlockPad == 14
BlockHeader == 24
Within(n, columns) == Larger(1, IF n < columns THEN n ELSE columns)

CellWidth(els) ==
    MaxOf({48} \cup {ClampedWidth(e.label, 48, 24) : e \in {f \in Elements(els) : ~f.group}})
Pitch(els) == CellWidth(els) + BlockGap

\* The columns of the container an element is in.
ColumnsOf(ast, p) == IF p = Root THEN ast.columns ELSE Element(ast.elements, p).columns

\* The column and row of each item: one that does not fit starts a row.
AutoPlace(spans, columns) ==
    LET slot[i \in 0..Len(spans)] ==
          IF i = 0 THEN [col |-> 0, row |-> 1, next |-> 0]
          ELSE LET prev == slot[i - 1]
                   wraps == prev.next > 0 /\ prev.next + spans[i] > columns
                   col == IF wraps THEN 0 ELSE prev.next
               IN  [col |-> col, row |-> IF wraps THEN prev.row + 1 ELSE prev.row,
                    next |-> col + spans[i]]
    IN  [i \in DOMAIN spans |-> slot[i]]

BlockCells(items, columns, pitch) ==
    LET slots == AutoPlace([i \in DOMAIN items |-> items[i].span], columns)
        rowH == [r \in 1..Len(items) |->
                   MaxOf({items[i].h : i \in {j \in DOMAIN items : slots[j].row = r}}) + BlockGap]
    IN  [i \in DOMAIN items |-> [x |-> slots[i].col * pitch, y |-> Before(rowH, slots[i].row)]]

BlockWidth(span, pitch, natural) == Larger(span * pitch - BlockGap, natural)

\* The columns an element takes in its container, and the size of its box.
BlockItems(ast) ==
    LET els == ast.elements
        pitch == Pitch(els)
        item[e \in Elements(els)] ==
          LET columns == ColumnsOf(ast, e.parent)
              kids == Kids(els, e.id)
              inner == [i \in DOMAIN kids |-> item[kids[i]]]
              cells == BlockCells(inner, e.columns, pitch)
              natural == Larger(Reach(cells, inner), ClampedWidth(e.label, 0, 24)) + 2 * BlockPad
              fit == Larger(1, (natural + BlockGap + pitch - 1) \div pitch)
          IN  IF ~e.group
              THEN LET span == Within(e.span, columns)
                   IN  [span |-> span, w |-> span * pitch - BlockGap, h |-> 40]
              ELSE LET span == Within(Larger(e.span, fit), columns)
                   IN  [span |-> span, w |-> BlockWidth(span, pitch, natural),
                        h |-> Depth(cells, inner) + BlockHeader + BlockPad]
    IN  item

LayoutBlock(ast) ==
    LET els == ast.elements
        item == BlockItems(ast)
        cell == [e \in Elements(els) |->
                   LET kids == Kids(els, e.parent)
                   IN  BlockCells([i \in DOMAIN kids |-> item[kids[i]]],
                                  ColumnsOf(ast, e.parent), Pitch(els))[NthOf(kids, e)]]
    IN  IF ~Named(ast) \/ TooDeep(els) THEN Err
        ELSE Fitted(Boxes(els, Elements(els), item, cell, BlockPad, BlockHeader), ast.links, 0)

-----------------------------------------------------------------------------
(* network.ts: squarish grids in squarish grids, leaves before groups *)

NetGap == 48
Pad == 16
Header == 26

NetCell(els) ==
    MaxOf({64} \cup {ClampedWidth(e.label, 64, 24) : e \in {f \in Elements(els) : ~f.group}})
NetKids(els, p) == LeavesFirst(Kids(els, p))

NetSizes(els) ==
    LET size[e \in Elements(els)] ==
          LET kids == NetKids(els, e.id)
              inner == VariableGrid([i \in DOMAIN kids |-> size[kids[i]]],
                                    SqrtUp(Len(kids)), NetGap)
          IN  IF ~e.group THEN [w |-> NetCell(els), h |-> 48]
              ELSE [w |-> Larger(inner.w, ClampedWidth(e.label, 0, 24)) + 2 * Pad,
                    h |-> inner.h + Header + Pad]
    IN  size

LayoutNetwork(ast) ==
    LET els == ast.elements
        size == NetSizes(els)
        cell == [e \in Elements(els) |->
                   LET kids == NetKids(els, e.parent)
                   IN  VariableGrid([i \in DOMAIN kids |-> size[kids[i]]],
                                    IF e.parent = Root THEN Len(kids) ELSE SqrtUp(Len(kids)),
                                    NetGap).cells[NthOf(kids, e)]]
    IN  IF ~Named(ast) \/ TooDeep(els) THEN Err
        ELSE Fitted(Boxes(els, Elements(els), size, cell, Pad, Header), ast.links, 0)

-----------------------------------------------------------------------------
(* cloud.ts and c4.ts: boxes one after the other on shelves *)

LeafWidth(e) == ClampedWidth(e.label, 80, 24)
LeafHeight == 56

\* Bug for the checks: the innermost folded group stands for the element.
AnchorInner(els, collapsed) ==
    LET anchor[e \in Elements(els)] ==
          IF e.parent = Root THEN e.id
          ELSE LET p == Element(els, e.parent)
               IN  IF p.id \in collapsed THEN p.id
                   ELSE IF anchor[p] = p.id THEN e.id ELSE anchor[p]
    IN  anchor

\* What stands for an element in the drawing: the outermost folded group
\* around it, or the element itself, which then is not hidden.
AnchorOf(els, collapsed) ==
    LET anchor[e \in Elements(els)] ==
          IF e.parent = Root THEN e.id
          ELSE LET p == Element(els, e.parent)
                   a == anchor[p]
               IN  IF a = p.id /\ p.id \notin collapsed THEN e.id ELSE a
    IN  anchor

Visible(els, collapsed) == {e \in Elements(els) : AnchorOf(els, collapsed)[e] = e.id}

\* The next box goes to the right of the last, or starts a shelf under the
\* highest so far: after cols boxes, or past the budget when there is one.
Shelves(sizes, cols, budget, gap, rowGap) ==
    LET run[n \in 0..Len(sizes)] ==
          IF n = 0 THEN [x |-> 0, y |-> 0, h |-> 0, next |-> 0]
          ELSE LET prev == run[n - 1]
                   wraps == /\ n > 1
                            /\ \/ (n - 1) % cols = 0
                               \/ budget > 0 /\ prev.next + sizes[n].w > budget
                   x == IF wraps THEN 0 ELSE prev.next
               IN  [x |-> x, y |-> IF wraps THEN prev.y + prev.h + rowGap ELSE prev.y,
                    h |-> Larger(IF wraps THEN 0 ELSE prev.h, sizes[n].h),
                    next |-> x + sizes[n].w + gap]
    IN  [i \in DOMAIN sizes |-> run[i]]

\* A cloud group is one shelf, a boundary of C4 a squarish grid.
ShelfColumns(squarish, kids) == IF squarish THEN SqrtUp(Len(kids)) ELSE Larger(1, Len(kids))

ShelfSizes(els, collapsed, squarish, gap) ==
    LET size[e \in Elements(els)] ==
          LET kids == Kids(els, e.id)
              inner == [i \in DOMAIN kids |-> size[kids[i]]]
              cells == Shelves(inner, ShelfColumns(squarish, kids), 0, gap, gap)
          IN  IF kids = << >> \/ e.id \in collapsed
              THEN [w |-> LeafWidth(e), h |-> LeafHeight]
              ELSE [w |-> Reach(cells, inner) + 2 * Pad, h |-> Depth(cells, inner) + Header + Pad]
    IN  size

\* Top-level elements fill shelves of their own.
ShelfBoxes(els, collapsed, squarish, gap, budget, rowGap) ==
    LET size == ShelfSizes(els, collapsed, squarish, gap)
        cell == [e \in Visible(els, collapsed) |->
                   LET kids == Kids(els, e.parent)
                       inner == [i \in DOMAIN kids |-> size[kids[i]]]
                   IN  (IF e.parent = Root
                        THEN Shelves(inner, Larger(1, Len(kids)), budget, gap, rowGap)
                        ELSE Shelves(inner, ShelfColumns(squarish, kids), 0, gap, gap))
                       [NthOf(kids, e)]]
    IN  Boxes(els, Visible(els, collapsed), size, cell, Pad, Header)

\* A link ends where its ends are shown, and is left out within one fold.
CloudLinks(ast, collapsed) ==
    LET anchor(id) == AnchorOf(ast.elements, collapsed)[Element(ast.elements, id)]
    IN  {Edge(anchor(l.from), anchor(l.to)) :
           l \in {k \in ast.links : k.from = k.to \/ anchor(k.from) # anchor(k.to)}}

MaxRowWidth == 1200

\* The cloud goes into the groups that are not folded and not empty.
ShownTooDeep(els, collapsed) == \E e \in Visible(els, collapsed) : Nesting(els)[e] > MaxNestDepth

LayoutCloud(ast, collapsed) ==
    IF ~Named(ast) \/ ShownTooDeep(ast.elements, collapsed) THEN Err
    ELSE Fitted(ShelfBoxes(GroupsFirst(ast.elements), collapsed, FALSE, 84, MaxRowWidth, 160),
                CloudLinks(ast, collapsed), 0)

LayoutC4(ast) ==
    IF ~Named(ast) \/ ~Apart(ast.elements) THEN Err
    ELSE Fitted(ShelfBoxes(ast.elements, {}, TRUE, 64, 0, 0), ast.links, 0)
=============================================================================
