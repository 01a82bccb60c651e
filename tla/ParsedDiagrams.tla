--------------------------- MODULE ParsedDiagrams ---------------------------
(***************************************************************************)
(* What the parsers of the families give the layouts: the shape of a       *)
(* diagram of each, and what holds of it because of the way its text is    *)
(* read. Ids a text only refers to, and ids it declares twice where the    *)
(* parser lets it, are left to the layouts.                                *)
(***************************************************************************)
EXTENDS SceneGeometry

CONSTANT Diagrams       \* the diagrams a text may say

IsSequence(s) == s \in Seq(Range(s))

\* Groups hold what is written between their braces, so parents are groups
\* and no group is inside itself; blocks and hosts are kept by their id, a
\* group of the network or the cloud has an id of its own making.
NestedDiagram(d) ==
    LET els == Range(d.elements)
    IN  /\ IsSequence(d.elements)
        /\ \A e \in els : /\ e.id # Root /\ e.label \in Nat /\ e.group \in BOOLEAN
                          /\ e.parent = Root \/ \E g \in els : g.group /\ g.id = e.parent
        /\ d.family \in {"block", "network"} => Apart(d.elements)
        /\ Apart(d.elements) =>
             \E depth \in [{e.id : e \in els} -> 1..Len(d.elements)] :
                \A e \in els : e.parent # Root => depth[e.parent] < depth[e.id]

\* A block spans a column or more, and a container has one or more.
BlockDiagram(d) ==
    /\ NestedDiagram(d)
    /\ d.columns \in Nat \ {0}
    /\ \A e \in Range(d.elements) : e.span \in Nat \ {0} /\ e.columns \in Nat \ {0}

\* An actor is kept by its name; a note comes after the messages before it.
SequenceDiagram(d) ==
    /\ IsSequence(d.actors) /\ IsSequence(d.messages) /\ IsSequence(d.notes)
    /\ Apart(d.actors)
    /\ \A a \in Range(d.actors) : a.id # Root /\ a.label \in Nat
    /\ \A n \in Range(d.notes) : /\ n.after \in 0..Len(d.messages) /\ n.text \in Nat
                                 /\ n.side \in {"over", "left", "right"}
    /\ \A j, k \in DOMAIN d.notes : j < k => d.notes[j].after <= d.notes[k].after

TimelineDiagram(d) ==
    /\ IsSequence(d.periods) /\ d.titled \in BOOLEAN
    /\ \A p \in Range(d.periods) :
         /\ p.label \in Nat /\ p.lines \in Nat \ {0} /\ IsSequence(p.events)
         /\ \A e \in Range(p.events) : e.label \in Nat /\ e.lines \in Nat \ {0}

\* A branch is kept by its name; a commit follows commits before it.
GitDiagram(d) ==
    /\ IsSequence(d.branches) /\ IsSequence(d.commits)
    /\ d.direction \in {"LR", "TB", "BT"} /\ {d.classic, d.tidy} \subseteq BOOLEAN
    /\ \A b \in Range(d.branches) : b.label \in Nat
    /\ \A i, j \in DOMAIN d.branches : d.branches[i].name = d.branches[j].name => i = j
    /\ \A i \in DOMAIN d.commits : /\ d.commits[i].label \in Nat
                                   /\ d.commits[i].parents \subseteq 1..(i - 1)

GanttDiagram(d) ==
    /\ IsSequence(d.tasks) /\ {d.titled, d.excludesWeekends} \subseteq BOOLEAN
    /\ IsFiniteSet(d.excludeDates) /\ d.excludeDates \subseteq Int
    /\ \A t \in Range(d.tasks) :
         /\ t.id # Root /\ t.date \in Int /\ {t.duration, t.label} \subseteq Nat
         /\ t.milestone \in BOOLEAN /\ IsFiniteSet(t.after)

WellFormed(d) ==
    \/ d.family \in {"network", "cloud", "c4"} /\ NestedDiagram(d)
    \/ d.family = "block" /\ BlockDiagram(d)
    \/ d.family = "sequence" /\ SequenceDiagram(d)
    \/ d.family = "timeline" /\ TimelineDiagram(d)
    \/ d.family = "gitGraph" /\ GitDiagram(d)
    \/ d.family = "gantt" /\ GanttDiagram(d)

ASSUME ParsedAssumption == \A d \in Diagrams : WellFormed(d)
=============================================================================
