--------------------------- MODULE FamilyLayouts ---------------------------
(***************************************************************************)
(* What the canvas shows of a diagram: the layout of its family            *)
(* (layoutByFamily of modules/layout/src/shell/elk.ts), done again each    *)
(* time the text is rendered, and the cloud groups the user has folded.    *)
(* The folded ids are of the playground, not of the text, and outlive an   *)
(* edit of it.                                                             *)
(***************************************************************************)
EXTENDS ParsedDiagrams, ContainerLayouts, LaneLayouts

VARIABLES
    ast,        \* the diagram last parsed
    cloudCollapsed, \* ids of the cloud groups the user has folded
    scene       \* what the canvas draws

fvars == << ast, cloudCollapsed, scene >>

\* Layouts are functions of the diagram, but for the tidied lanes of a git graph.
LayoutByFamily(d, collapsed) ==
    CASE d.family = "block"    -> {LayoutBlock(d)}
      [] d.family = "network"  -> {LayoutNetwork(d)}
      [] d.family = "cloud"    -> {LayoutCloud(d, collapsed)}
      [] d.family = "c4"       -> {LayoutC4(d)}
      [] d.family = "sequence" -> {LayoutSequence(d)}
      [] d.family = "timeline" -> {LayoutTimeline(d)}
      [] d.family = "gitGraph" -> GitScenes(d)
      [] d.family = "gantt"    -> {LayoutGantt(d)}

LayoutsInit ==
    /\ ast \in Diagrams
    /\ cloudCollapsed = {}
    /\ scene \in LayoutByFamily(ast, {})

\* toggleCloudCollapse: a drawn group of a cloud diagram, then the text again.
ToggleCloudCollapse(g) ==
    LET now == IF g \in cloudCollapsed THEN cloudCollapsed \ {g} ELSE cloudCollapsed \cup {g}
    IN  /\ ast.family = "cloud" /\ scene.ok
        /\ \E e \in Range(ast.elements) : e.id = g /\ e.group
        /\ \E b \in scene.nodes : b.id = g
        /\ cloudCollapsed' = now
        /\ scene' \in LayoutByFamily(ast, now)
        /\ UNCHANGED ast

\* The text now says another diagram of the family; folded ids stay.
Retype(d) ==
    /\ ast.family = "cloud" /\ d.family = "cloud" /\ d # ast
    /\ ast' = d
    /\ scene' \in LayoutByFamily(d, cloudCollapsed)
    /\ UNCHANGED cloudCollapsed

LayoutsNext ==
    \/ \E g \in {b.id : b \in scene.nodes} : ToggleCloudCollapse(g)
    \/ \E d \in Diagrams : Retype(d)

LayoutsSpec == LayoutsInit /\ [][LayoutsNext]_fvars

-----------------------------------------------------------------------------

BoxOf(id) == CHOOSE b \in scene.nodes : b.id = id
Drawn == {b.id : b \in scene.nodes}

\* The heads of a git graph drawn down or up are as wide as its longest branch
\* name and side by side, on lanes no wider than its longest commit.
Heads ==
    IF ast.family = "gitGraph" /\ Vertical(ast)
    THEN {b \in scene.nodes : b.id[1] = "branch"} ELSE {}
HeadsApart == HeadW(ast) <= LanePitch(ast)
HeadsInside == HeadW(ast) <= MaxPillW(ast) + 2 * Margin

\* Every id the text refers to is one it declares, and no group that is gone
\* into is nested too deep.
EndsDeclared ==
    CASE ast.family \in {"block", "network"} -> Named(ast) /\ ~TooDeep(ast.elements)
      [] ast.family = "cloud" -> Named(ast) /\ ~ShownTooDeep(ast.elements, cloudCollapsed)
      [] ast.family = "c4"       -> Named(ast) /\ Apart(ast.elements)
      [] ast.family = "sequence" -> SequenceKnown(ast)
      [] ast.family = "timeline" -> TRUE
      [] ast.family = "gitGraph" -> \A c \in Range(ast.commits) : c.branch \in DOMAIN Declared(ast)
      [] ast.family = "gantt"    -> GanttKnown(ast)

\* The parsers of the cloud and of a chart let a text declare an id twice, and
\* that of a sequence an actor that is called as a note is.
DeclaredOnce ==
    CASE ast.family = "cloud" -> Apart(ast.elements)
      [] ast.family = "sequence" -> \A k \in DOMAIN ast.notes : <<"note", k>> \notin Actors(ast)
      [] ast.family = "gantt" -> Apart(ast.tasks)
      [] OTHER -> TRUE

\* What is written first is drawn first: actors and periods to the left,
\* messages and notes above in the order of the text, the tasks of a chart
\* one row each, commits along the branch axis after those they follow.
OrderKept ==
    CASE ast.family = "sequence" ->
            /\ \A i, j \in DOMAIN ast.actors : i < j =>
                 LET a == BoxOf(ast.actors[i].id)
                     b == BoxOf(ast.actors[j].id)
                 IN  a.y = b.y /\ Right(a) < b.x
            /\ \A j, k \in DOMAIN ast.notes : j < k => NoteRow(ast, j) < NoteRow(ast, k)
            /\ \A k \in DOMAIN ast.notes : \A m \in DOMAIN ast.messages :
                 IF m <= ast.notes[k].after THEN MessageRow(ast, m) < NoteRow(ast, k)
                                            ELSE NoteRow(ast, k) < MessageRow(ast, m)
      [] ast.family = "timeline" ->
            \A i, j \in DOMAIN ast.periods : i < j =>
                Right(BoxOf(<<"period", i>>)) < BoxOf(<<"period", j>>).x
      [] ast.family = "gantt" ->
            \A i, j \in DOMAIN ast.tasks : i < j =>
                Bottom(BoxOf(ast.tasks[i].id)) < BoxOf(ast.tasks[j].id).y
      [] ast.family = "gitGraph" ->
            \A i \in DOMAIN ast.commits : \A p \in ast.commits[i].parents :
                LET a == BoxOf(<<"commit", p>>)
                    b == BoxOf(<<"commit", i>>)
                IN  /\ ast.direction = "LR" => Right(a) < b.x
                    /\ ast.direction = "TB" => Bottom(a) < b.y
                    /\ ast.direction = "BT" => Bottom(b) < a.y
      [] OTHER -> TRUE

\* A diagram gets a scene when what its edges name is declared and its nesting
\* is not too deep, and then no two siblings overlap, members are inside their
\* containers, every edge ends on a box that is drawn, no box is outside the
\* extent and the order of the text is kept, whatever the widths, spans and
\* folded groups are (styleOk and the family styles of the layouts under
\* modules/layout/src/core). Of a git graph drawn down or up two heads may
\* overlap when they are wider than the lanes are apart, and the first may
\* stick out to the left when it is wider than a commit and the margins.
SceneSound ==
    DeclaredOnce =>
        /\ scene.ok <=> EndsDeclared
        /\ ContainersEncloseMembers(scene.nodes)
        /\ \A a, b \in scene.nodes :
             a.id # b.id /\ a.parent = b.parent =>
                OverlapArea(a, b) <= Slack \/ ({a, b} \subseteq Heads /\ ~HeadsApart)
        /\ \A a, b \in scene.nodes : a.id = b.id => a = b
        /\ \A e \in scene.edges : {e.from, e.to} \subseteq Drawn
        /\ \A b \in scene.nodes : b.parent \in Drawn \cup {Root}
        /\ \A b \in scene.nodes : b.x >= 0 \/ (b \in Heads /\ ~HeadsInside)
        /\ \A b \in scene.nodes : b.y >= 0 /\ Right(b) <= scene.w /\ Bottom(b) <= scene.h
        /\ scene.ok => OrderKept

\* The bar of a task by the calendar. It starts at the time of day of its date,
\* or of the last end of what it waits for, on the first day that is not off
\* at that time. The duration is spent from that time of day on, a day at a
\* time, over as many days that are not off then as it begins, the last one
\* in part when it is a fraction, and nothing is off between. When all
\* durations are whole days every time is midnight, and so no work is done on
\* a day off (gantt.ts: the walks over days off). An id a chart declares twice
\* means the last such task above.
ScheduleSound ==
    ast.family = "gantt" /\ scene.ok =>
        LET plan == GanttSchedule(ast)
            means(n, id) == Max({i \in 1..(n - 1) : ast.tasks[i].id = id})
            works(moment) == ~IsExcluded(ast, moment)
            midnight(moment) == moment % TicksPerDay = 0
            whole == \A t \in Range(ast.tasks) : midnight(t.duration)
        IN  \A n \in DOMAIN ast.tasks :
                LET t == ast.tasks[n]
                    from == IF t.after = {} THEN t.date * TicksPerDay
                            ELSE Max({plan[means(n, r)].end : r \in t.after})
                    s == plan[n].start
                    e == plan[n].end
                    days == DaysBegun(t.duration)
                IN  /\ \E k \in 0..LongestOff(ast) :
                         /\ s = Later(from, k) /\ works(s)
                         /\ \A j \in 0..(k - 1) : ~works(Later(from, j))
                    /\ t.duration = 0 => e = s
                    /\ t.duration > 0 =>
                         \E k \in 0..(e - s) :
                            /\ works(Later(s, k))
                            /\ Cardinality({j \in 0..k : works(Later(s, j))}) = days
                            /\ e = Later(s, k) + t.duration - (days - 1) * TicksPerDay
                    /\ whole => midnight(s) /\ midnight(e)
                    /\ \E b \in scene.nodes :
                         /\ b.id = t.id
                         /\ b.y = 22 + (n - 1) * 30 + (IF ast.titled THEN TitleBand ELSE 0)
                         /\ t.milestone \/ b.w >= Pixels(e - s)

=============================================================================
