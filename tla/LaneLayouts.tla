---------------------------- MODULE LaneLayouts ----------------------------
(***************************************************************************)
(* The layouts of the families that line things up: sequence, timeline,    *)
(* git graph and gantt. The order of the source is the order of the rows,  *)
(* columns or lanes. Days are whole numbers, the epoch being 0; moments    *)
(* and durations are in ticks, so many a day: a duration may be a fraction *)
(* of a day ("12h", "1.5d").                                               *)
(***************************************************************************)
EXTENDS SceneGeometry

CONSTANT TicksPerDay

ASSUME TicksAssumption == TicksPerDay \in Nat \ {0}

-----------------------------------------------------------------------------
(* sequence.ts *)

ActorHeight == 40
ActorWidth(a) == ClampedWidth(a.label, 60, 24)
ActorGap == 60
ActorLeft(ast, i) == Before([j \in DOMAIN ast.actors |-> ActorWidth(ast.actors[j]) + ActorGap], i)
Actors(ast) == {ast.actors[i].id : i \in DOMAIN ast.actors}
CentreX(ast, id) ==
    LET i == CHOOSE j \in DOMAIN ast.actors : ast.actors[j].id = id
    IN  ActorLeft(ast, i) + ActorWidth(ast.actors[i]) \div 2

\* Messages and notes share the rows: a note comes after its message and
\* before the next, notes after the same message as they are written.
NoteRow(ast, k) == ast.notes[k].after + (k - 1)
MessageRow(ast, m) == (m - 1) + Cardinality({k \in DOMAIN ast.notes : ast.notes[k].after < m})
RowY(row) == ActorHeight + 40 + (row + 1) * 56
SequenceBottom(ast) == ActorHeight + 40 + (Len(ast.messages) + Len(ast.notes)) * 56 + 30

NoteNode(ast, k) ==
    LET note == ast.notes[k]
        centres == {CentreX(ast, t) : t \in note.targets}
        text == ClampedWidth(note.text, 60, 20)
        w == IF note.side = "over"
             THEN Larger(text, Max(centres) - Min(centres) + 2 * 20) ELSE text
        x == CASE note.side = "over"  -> (Min(centres) + Max(centres)) \div 2 - w \div 2
               [] note.side = "left"  -> Min(centres) - 16 - w
               [] note.side = "right" -> Max(centres) + 16
    IN  Node(<<"note", k>>, x, RowY(NoteRow(ast, k)) - 15, w, 30, Root)

\* Everything goes right by what a note sticks out on the left.
Shifted(nodes) ==
    LET dx == -Min({0} \cup {b.x : b \in nodes})
    IN  {[b EXCEPT !.x = @ + dx] : b \in nodes}

SequenceKnown(ast) ==
    /\ \A m \in Range(ast.messages) : {m.from, m.to} \subseteq Actors(ast)
    /\ \A n \in Range(ast.notes) : n.targets # {} /\ n.targets \subseteq Actors(ast)

LayoutSequence(ast) ==
    LET actors == {Node(ast.actors[i].id, ActorLeft(ast, i), 0, ActorWidth(ast.actors[i]),
                        ActorHeight, Root) : i \in DOMAIN ast.actors}
        boxes == Shifted(actors \cup {NoteNode(ast, k) : k \in DOMAIN ast.notes})
    IN  IF ~SequenceKnown(ast) THEN Err
        ELSE Scene(boxes, {Edge(m.from, m.to) : m \in Range(ast.messages)},
                   MaxOf({Right(b) : b \in boxes}), SequenceBottom(ast))

-----------------------------------------------------------------------------
(* timeline.ts *)

Margin == 16
RowGap == 12
TallBox(lines, base) == base + (lines - 1) * 16
ColWidth(p) == MaxOf({92, p.label + 28} \cup {e.label + 28 : e \in Range(p.events)})
ColX(ast, i) == Margin + Before([j \in DOMAIN ast.periods |-> ColWidth(ast.periods[j]) + 18], i)
PeriodY(ast) ==
    Margin + (IF \E p \in Range(ast.periods) : p.section # 0 THEN 26 + 10 ELSE 0)

PeriodNode(ast, i) ==
    Node(<<"period", i>>, ColX(ast, i), PeriodY(ast), ColWidth(ast.periods[i]),
         TallBox(ast.periods[i].lines, 36), Root)

EventsTop(ast, i) == Larger(PeriodY(ast) + 36, Bottom(PeriodNode(ast, i))) + RowGap

EventNodes(ast, i) ==
    LET heights == [k \in DOMAIN ast.periods[i].events |->
                      TallBox(ast.periods[i].events[k].lines, 32) + RowGap]
    IN  {Node(<<"event", i, k>>, ColX(ast, i), EventsTop(ast, i) + Before(heights, k),
              ColWidth(ast.periods[i]), heights[k] - RowGap, Root) : k \in DOMAIN heights}

\* One band over each longest run of periods of the same section.
Runs(ast) ==
    LET at(i) == ast.periods[i].section
        ps == DOMAIN ast.periods
    IN  {r \in ps \X ps :
            /\ r[1] <= r[2] /\ at(r[1]) # 0
            /\ \A i \in r[1]..r[2] : at(i) = at(r[1])
            /\ r[1] - 1 \in ps => at(r[1] - 1) # at(r[1])
            /\ r[2] + 1 \in ps => at(r[2] + 1) # at(r[1])}

BandNodes(ast) ==
    {Node(<<"section", r[1]>>, ColX(ast, r[1]), Margin,
          ColX(ast, r[2]) + ColWidth(ast.periods[r[2]]) - ColX(ast, r[1]), 26, Root) :
        r \in Runs(ast)}

LayoutTimeline(ast) ==
    WithTitle(Fitted(BandNodes(ast) \cup
                       UNION {{PeriodNode(ast, i)} \cup EventNodes(ast, i) : i \in DOMAIN ast.periods},
                     UNION {{Edge(<<"period", i>>, <<"event", i, k>>) :
                               k \in DOMAIN ast.periods[i].events} : i \in DOMAIN ast.periods},
                     Margin),
              ast.titled)

-----------------------------------------------------------------------------
(* gitgraph.ts *)

CommitH == 28
HeadH == 50
HeadGap == 28
PillW(ast, c) == IF ast.classic THEN CommitH ELSE Larger(30, c.label + 18)
MaxPillW(ast) == MaxOf({30} \cup {PillW(ast, c) : c \in Range(ast.commits)})
HeadW(ast) == MaxOf({48} \cup {b.label + 16 : b \in Range(ast.branches)})
Vertical(ast) == ast.direction # "LR"

LanePitch(ast) == IF Vertical(ast) THEN MaxPillW(ast) + 28 ELSE CommitH + 34
MainPitch(ast) == IF Vertical(ast) THEN CommitH + 34 ELSE MaxPillW(ast) + 28
MainStart(ast) ==
    HeadGap + Margin + (IF Vertical(ast) THEN HeadH + CommitH \div 2
                                         ELSE HeadW(ast) + MaxPillW(ast) \div 2)
LaneStart(ast) == Margin + (IF Vertical(ast) THEN MaxPillW(ast) ELSE CommitH) \div 2
MainCoord(ast, col) ==
    LET last == Larger(0, Len(ast.commits) - 1)
    IN  MainStart(ast) + (IF ast.direction = "BT" THEN last - col ELSE col) * MainPitch(ast)
LaneCoord(ast, lane) == LaneStart(ast) + lane * LanePitch(ast)

HeadNode(ast, b, lane) ==
    IF Vertical(ast)
    THEN Node(<<"branch", b.name>>, LaneCoord(ast, lane) - HeadW(ast) \div 2, Margin,
              HeadW(ast), HeadH, Root)
    ELSE Node(<<"branch", b.name>>, Margin, LaneCoord(ast, lane) - HeadH \div 2,
              HeadW(ast), HeadH, Root)

CommitNode(ast, i, lane) ==
    LET w == PillW(ast, ast.commits[i])
        main == MainCoord(ast, i - 1)
        cross == LaneCoord(ast, lane)
    IN  IF Vertical(ast) THEN Node(<<"commit", i>>, cross - w \div 2, main - CommitH \div 2, w, CommitH, Root)
        ELSE Node(<<"commit", i>>, main - w \div 2, cross - CommitH \div 2, w, CommitH, Root)

\* The scene of one assignment of branches to lanes.
Built(ast, laneOf) ==
    IF \E c \in Range(ast.commits) : c.branch \notin DOMAIN laneOf THEN Err
    ELSE Fitted({HeadNode(ast, b, laneOf[b.name]) : b \in Range(ast.branches)}
                  \cup {CommitNode(ast, i, laneOf[ast.commits[i].branch]) : i \in DOMAIN ast.commits},
                UNION {{Edge(<<"commit", p>>, <<"commit", i>>) : p \in ast.commits[i].parents} : i \in DOMAIN ast.commits},
                Margin)

Declared(ast) ==
    [n \in {b.name : b \in Range(ast.branches)} |->
        (CHOOSE i \in DOMAIN ast.branches : ast.branches[i].name = n) - 1]

\* Tidying three branches or more also tries the lanes that keep the first
\* branch first and make a styled scene; the energy, not modelled, picks one.
TidyLanes(ast) ==
    LET names == DOMAIN Declared(ast)
    IN  {Declared(ast)} \cup
        {l \in [names -> 0..(Cardinality(names) - 1)] :
            /\ ast.tidy /\ Cardinality(names) > 2
            /\ \A n, m \in names : l[n] = l[m] => n = m
            /\ l[ast.branches[1].name] = 0
            /\ Built(ast, l).ok /\ StyleOk(Built(ast, l))}

GitScenes(ast) ==
    IF ast.branches = << >> THEN {Built(ast, << >>)} ELSE {Built(ast, l) : l \in TidyLanes(ast)}

-----------------------------------------------------------------------------
(* gantt.ts *)

Later(moment, days) == moment + days * TicksPerDay
IsWeekend(day) == (day + 4) % 7 \in {0, 6}

\* Only the midnight of a listed day is off, the whole day of a weekend.
IsExcluded(ast, moment) ==
    \/ \E day \in ast.excludeDates : moment = day * TicksPerDay
    \/ ast.excludesWeekends /\ IsWeekend(moment \div TicksPerDay)

\* Bug for the checks: a start on a day off stays there.
StartAnyway(ast, moment) == moment

\* No run of days off is longer than those listed and a weekend on each side.
LongestOff(ast) == 3 * Cardinality(ast.excludeDates) + 3

NextWorking(ast, moment) ==
    LET d[n \in 0..LongestOff(ast)] ==
          IF n = 0 THEN moment
          ELSE LET prev == d[n - 1] IN IF IsExcluded(ast, prev) THEN Later(prev, 1) ELSE prev
    IN  d[LongestOff(ast)]

\* The days a duration takes, the last of them perhaps in part.
DaysBegun(duration) == (duration + TicksPerDay - 1) \div TicksPerDay

\* The moment reached when the duration has been spent, a day or the rest of
\* it at a time, each from the same time of day on, and after the days off
\* before it; what is left of the day it starts on is not told from the next.
WorkingEnd(ast, start, duration) ==
    LET day[n \in 0..DaysBegun(duration)] ==
          IF n = 0 THEN start
          ELSE NextWorking(ast, day[n - 1])
                 + (IF n < DaysBegun(duration) THEN TicksPerDay
                    ELSE duration - (n - 1) * TicksPerDay)
    IN  day[DaysBegun(duration)]

\* The end of the last task of an id among the first n.
EndOf(ast, plan, n, id) ==
    plan[Max({i \in 1..n : ast.tasks[i].id = id})].end

\* What each task starts and ends at, in the order of the source.
GanttSchedule(ast) ==
    LET plan[n \in 0..Len(ast.tasks)] ==
          IF n = 0 THEN << >>
          ELSE LET t == ast.tasks[n]
                   done == plan[n - 1]
                   ends == {EndOf(ast, done, n - 1, ref) : ref \in t.after}
                   start == NextWorking(ast, IF t.after = {} THEN t.date * TicksPerDay
                                             ELSE Max(ends))
               IN  Append(done,
                          [start |-> start, end |-> WorkingEnd(ast, start, t.duration)])
    IN  plan[Len(ast.tasks)]

\* A task that waits on one not seen yet stops the layout.
GanttKnown(ast) ==
    \A n \in DOMAIN ast.tasks :
        ast.tasks[n].after \subseteq {ast.tasks[i].id : i \in 1..(n - 1)}

\* A day is 16 pixels wide; parts of a pixel are dropped.
Pixels(ticks) == (ticks * 16) \div TicksPerDay
DayX(plan, moment) == 96 + Pixels(moment - Min({p.start : p \in Range(plan)}))

TaskNode(ast, plan, i) ==
    LET t == ast.tasks[i]
        p == plan[i]
        y == 22 + (i - 1) * 30
    IN  IF t.milestone THEN Node(t.id, DayX(plan, p.start) - 11, y, 22, 22, Root)
        ELSE Node(t.id, DayX(plan, p.start), y,
                  Larger(Pixels(p.end - p.start), t.label + 12), 22, Root)

LayoutGantt(ast) ==
    IF ~GanttKnown(ast) THEN Err
    ELSE LET plan == GanttSchedule(ast)
             bars == {TaskNode(ast, plan, i) : i \in DOMAIN plan}
             captions == {DayX(plan, plan[i].start) + 11 + 16 + ast.tasks[i].label :
                            i \in {j \in DOMAIN plan : ast.tasks[j].milestone}}
         IN  WithTitle(IF plan = << >> THEN Scene({}, {}, 1, 1)
                       ELSE Scene(bars,
                                  UNION {{Edge(r, t.id) : r \in t.after} : t \in Range(ast.tasks)},
                                  MaxOf(captions \cup {Right(b) : b \in bars}),
                                  22 + Len(plan) * 30),
                       ast.titled)
=============================================================================
