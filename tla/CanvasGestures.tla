---------------------------- MODULE CanvasGestures ----------------------------
(***************************************************************************)
(* The canvas of the playground (main.ts): which gesture a pointer starts, *)
(* what it does to the layout and to the source while it runs and when it  *)
(* ends, and the keyboard's runs of nudges and resizes next to it.         *)
(*                                                                         *)
(* The manual layout and the source are numbers, a new one per change.     *)
(* `hit` stands for the hit tests: what is under the pointer, given the    *)
(* selection.                                                              *)
(***************************************************************************)
EXTENDS Naturals, Sequences, FiniteSets

CONSTANTS Family,      \* "flowchart" or "gantt"
          Viewer,      \* roles the tab may have: TRUE for view only
          MaxChanges, MaxDowns   \* bounds of the instance

Slot == {"connect", "endpoint", "waypoint", "label", "resize", "marquee", "pan", "drag"}
Recording == {"waypoint", "label", "resize", "drag"}
Tool == {"select", "hand", "connect", "place"}
Selection == {"none", "node", "nodes", "locked", "edge"}
Hit == {"node", "locked", "edge", "label", "end", "bend", "dot", "corner", "group", "empty"}

VARIABLES
    family, viewerMode,
    tool, spaceHeld,
    pointers, isPinching,        \* activePointers, and two of them
    active,                      \* the gestures under way
    recorded,                    \* those that have taken their undo entry
    nudging, keyboardResizing,
    selected,
    layout, source, stored,      \* the document, the text, the layout persisted
    undoStack, redoStack,
    rendering,
    placing,                     \* placeNodeAt awaits its render
    began,                       \* history and layout when a gesture began, until other input
    changes, downs

keyboard == <<nudging, keyboardResizing>>
touching == <<pointers, isPinching, active, recorded>>
pointing == <<touching, began>>
content  == <<layout, source, stored, undoStack, redoStack, rendering, changes, placing>>
mode     == <<family, viewerMode>>
gvars == <<mode, tool, spaceHeld, pointing, keyboard, selected, content, downs>>

Entry == [layout |-> layout, source |-> source, selected |-> selected]
EffectiveTool ==
    IF spaceHeld THEN "hand" ELSE IF viewerMode THEN "select" ELSE tool

NoGesture == [entries |-> MaxChanges + 1, layout |-> 0]
NoneBegan == [slot \in Recording |-> NoGesture]

Entries == [layout : Nat, source : Nat, selected : Selection]

GesturesTypeOK ==
    /\ family \in Family /\ viewerMode \in Viewer
    /\ tool \in Tool /\ spaceHeld \in BOOLEAN /\ selected \in Selection
    /\ pointers \in 0..2 /\ isPinching \in BOOLEAN /\ (isPinching <=> pointers = 2)
    /\ active \subseteq Slot /\ recorded \subseteq Recording
    /\ nudging \in BOOLEAN /\ keyboardResizing \in BOOLEAN
    /\ rendering \in BOOLEAN /\ placing \in BOOLEAN
    /\ {layout, source, stored, changes, downs} \subseteq Nat
    /\ undoStack \in Seq(Entries) /\ redoStack \in Seq(Entries)
    /\ began \in [Recording -> [entries : Nat, layout : Nat] \cup {NoGesture}]

GesturesInit ==
    /\ family \in Family /\ viewerMode \in Viewer
    /\ tool = "select" /\ spaceHeld = FALSE
    /\ pointers = 0 /\ isPinching = FALSE /\ active = {} /\ recorded = {}
    /\ nudging = FALSE /\ keyboardResizing = FALSE /\ selected = "none"
    /\ layout = 0 /\ source = 0 /\ stored = 0
    /\ undoStack = << >> /\ redoStack = << >> /\ rendering = FALSE /\ placing = FALSE
    /\ began = NoneBegan /\ changes = 0 /\ downs = 0

-----------------------------------------------------------------------------
Record == undoStack' = Append(undoStack, Entry) /\ redoStack' = << >>
Fresh == changes < MaxChanges /\ changes' = changes + 1

(* recordHistory; setSourceValue; renderFromText.                          *)
ChangeSource ==
    /\ Fresh /\ Record /\ source' = changes' /\ rendering' = TRUE
    /\ UNCHANGED <<layout, stored>>

Persist == /\ stored' = layout
           /\ UNCHANGED <<layout, source, undoStack, redoStack, rendering, changes, placing>>

-----------------------------------------------------------------------------
(* pointerdown.                                                            *)

(* Nothing more is said of these gestures: they are over, or other input   *)
(* has changed the document under them.                                    *)
Forget(slots) ==
    began' = [slot \in Recording |-> IF slot \in slots THEN NoGesture ELSE began[slot]]

Begins(slot) ==
    /\ active' = active \cup {slot} /\ recorded' = recorded \ {slot}
    /\ began' = [s \in Recording |->
                    IF s = slot THEN [entries |-> Len(undoStack), layout |-> layout]
                    ELSE began[s]]
Selects(s) == selected' = s

(* A second pointer starts a pinch, which drops most gestures.             *)
Cancelled == {"drag", "connect", "resize", "pan", "marquee"}
Pinch ==
    /\ pointers = 1 /\ pointers' = 2 /\ isPinching' = TRUE
    /\ active' = active \ Cancelled /\ Forget(Cancelled)
    /\ UNCHANGED <<recorded, keyboard, selected, content>>

RunsEnd == nudging' = FALSE /\ keyboardResizing' = FALSE

Connectable == family = "flowchart"
SelectedEdge == selected = "edge" /\ ~viewerMode

(* What the pointer starts, in the order the handler asks.                 *)
Starts(hit, additive, alt, touch) ==
    CASE EffectiveTool = "place" /\ ~viewerMode -> "place"
      [] EffectiveTool = "hand" -> "pan"
      [] SelectedEdge /\ hit = "end" /\ Connectable -> "endpoint"
      [] SelectedEdge /\ hit = "bend" -> "waypoint"
      [] hit = "label" /\ ~additive /\ ~viewerMode -> "label"
      [] SelectedEdge /\ hit = "dot" -> "waypoint"
      [] (alt \/ EffectiveTool = "connect") /\ Connectable /\ ~viewerMode
           /\ hit \in {"node", "locked", "corner"} -> "connect"
      [] hit = "corner" /\ ~additive /\ ~viewerMode /\ selected = "node" -> "resize"
      [] additive /\ hit = "empty" -> "marquee"
      [] additive \/ hit = "group" -> "select"
      [] hit \in {"node", "corner"} /\ ~viewerMode -> "drag"
      [] hit = "empty" /\ EffectiveTool = "select" /\ ~viewerMode /\ ~touch -> "marquee"
      [] hit = "empty" -> "pan"
      [] OTHER -> "select"

SelectedBy(hit, additive, starts) ==
    CASE starts = "label" -> "edge"
      [] starts \in {"pan", "endpoint", "waypoint", "connect", "resize", "place"} -> selected
      [] starts = "marquee" -> IF additive THEN selected ELSE "none"
      [] hit = "group" -> "nodes"
      [] additive /\ hit \in {"node", "locked"} ->
             IF selected = "none" THEN hit ELSE IF selected = hit THEN "none" ELSE "nodes"
      [] hit \in {"node", "corner"} -> IF selected = "nodes" THEN "nodes" ELSE "node"
      [] hit = "locked" -> "locked"
      [] OTHER -> "edge"

Down(hit, additive, alt, touch) ==
    LET starts == Starts(hit, additive, alt, touch) IN
    /\ pointers = 0 /\ pointers' = 1 /\ RunsEnd
    /\ Selects(SelectedBy(hit, additive, starts))
    /\ UNCHANGED isPinching
    /\ IF starts = "place"
       THEN ChangeSource /\ placing' = TRUE /\ Forget(Recording) /\ UNCHANGED <<active, recorded>>
       ELSE /\ IF starts \in Slot THEN Begins(starts)
               ELSE UNCHANGED <<active, recorded, began>>
            /\ UNCHANGED content

PointerDown ==
    /\ downs < MaxDowns /\ downs' = downs + 1
    /\ UNCHANGED <<mode, tool, spaceHeld>>
    /\ \/ \E hit \in Hit, additive, alt, touch \in BOOLEAN :
             /\ hit = "corner" => selected = "node"
             /\ hit \in {"end", "bend", "dot"} => selected = "edge"
             /\ Down(hit, additive, alt, touch)
       \/ Pinch

(* placeNodeAt goes on when its render has ended, overtaken or not: the    *)
(* node is put where the pointer was, without an entry of its own.         *)
Placed ==
    /\ placing /\ placing' = FALSE
    /\ Fresh /\ layout' = changes' /\ stored' = changes'
    /\ selected' = "node"
    /\ tool' = "select"
    /\ began' = NoneBegan
    /\ UNCHANGED <<mode, spaceHeld, touching, keyboard, source, undoStack, redoStack, rendering, downs>>

-----------------------------------------------------------------------------
(* pointermove: the first gesture of this order gets the move.             *)

First(S) ==
    CHOOSE s \in S : \A u \in S : LET at == [connect |-> 1, endpoint |-> 2, waypoint |-> 3,
        label |-> 4, resize |-> 5, marquee |-> 6, pan |-> 7, drag |-> 8] IN at[s] <= at[u]

(* The entry is taken on the first move.                                   *)
(* Mutant: every move takes one.                                           *)
RecordEach(slot) == Record /\ recorded' = recorded \cup {slot}
RecordOnce(slot) ==
    IF slot \in recorded THEN UNCHANGED <<undoStack, redoStack, recorded>>
    ELSE Record /\ recorded' = recorded \cup {slot}

PointerMove ==
    /\ pointers < 2 /\ active # {}
    /\ LET slot == First(active) IN
       /\ slot \in Recording
       /\ RecordOnce(slot)
       /\ Fresh /\ layout' = changes'
       /\ Forget(Recording \ {slot})
    /\ UNCHANGED <<mode, tool, spaceHeld, pointers, isPinching, active, keyboard,
                   selected, source, stored, rendering, placing, downs>>

-----------------------------------------------------------------------------
(* pointerup.                                                              *)

Over(slots) == active' = active \ slots

(* An edge is appended or reconnected, if the pointer is over a node whose *)
(* text change the builder accepts.                                        *)
EdgeDrawn(slot) ==
    /\ Over({slot}) /\ UNCHANGED <<selected, recorded>>
    /\ \/ UNCHANGED <<content, began>>
       \/ ChangeSource /\ Forget(Recording) /\ UNCHANGED placing

(* A bend or a label stays where it is; a click alone changes nothing.     *)
EdgeShaped(slot) ==
    /\ Over({slot}) /\ Forget({slot}) /\ recorded' = recorded \ {slot}
    /\ IF slot \in recorded THEN Persist ELSE UNCHANGED content
    /\ UNCHANGED selected

(* The override that showed a gantt bar under the pointer goes.            *)
Cleared(slot) ==
    layout' \in (IF slot \in recorded THEN {} ELSE {layout}) \cup {changes'}

(* The dates of a gantt bar are written into the source, with one more     *)
(* entry.                                                                  *)
Reschedules(slot) ==
    /\ Fresh /\ Record /\ Cleared(slot)
    /\ stored' = layout' /\ source' = changes' /\ rendering' = TRUE
    /\ Forget(Recording) /\ UNCHANGED placing

(* A bar whose dates cannot be written goes back, and nothing is persisted; *)
(* the entry has been taken unless the source has no span for the bar.     *)
Refuses(slot) ==
    /\ Fresh /\ (Record \/ UNCHANGED <<undoStack, redoStack>>) /\ Cleared(slot)
    /\ rendering' = TRUE /\ Forget(Recording)
    /\ UNCHANGED <<source, stored, placing>>

(* A bar is resized even by a click on its corner, if it has a duration; a *)
(* drag of one bar by a day or more reschedules it, or is refused; one by  *)
(* less, or of several bars, moves them off the grid.                      *)
BarShaped(slots) ==
    \/ "drag" \notin slots /\ Reschedules("resize")
    \/ /\ "drag" \in slots /\ ("drag" \in recorded \/ "pan" \in slots)
       /\ Reschedules("drag") \/ Refuses("drag")

NodeShaped(slots) ==
    /\ Over(slots) /\ UNCHANGED <<selected, recorded>>
    /\ \/ Persist /\ Forget(slots)
       \/ family = "gantt" /\ BarShaped(slots)

BoxSelected ==
    /\ Over({"marquee"}) /\ UNCHANGED <<content, recorded, began>>
    /\ selected' \in {selected, "nodes", "edge"}

Released ==
    IF active = {} THEN UNCHANGED <<active, recorded, began, selected, content>>
    ELSE LET slot == First(active) IN
         CASE slot \in {"connect", "endpoint"} -> EdgeDrawn(slot)
           [] slot \in {"waypoint", "label"} -> EdgeShaped(slot)
           [] slot \in {"resize", "drag"} -> NodeShaped({slot})
           [] slot = "marquee" -> BoxSelected
           [] slot = "pan" ->
                  IF "drag" \in active THEN NodeShaped({"pan", "drag"})
                  ELSE Over({slot}) /\ UNCHANGED <<recorded, began, selected, content>>

PointerUp ==
    /\ pointers > 0 /\ pointers' = pointers - 1
    /\ IF isPinching
       THEN isPinching' = (pointers' = 2) /\ UNCHANGED <<active, recorded, began, selected, content>>
       ELSE Released /\ UNCHANGED isPinching
    /\ UNCHANGED <<mode, tool, spaceHeld, keyboard, downs>>

(* The browser takes the pointer away; the gesture is not told, and goes   *)
(* on with the next moves.                                                 *)
PointerCancel ==
    /\ pointers > 0 /\ pointers' = pointers - 1 /\ isPinching' = FALSE
    /\ UNCHANGED <<mode, tool, spaceHeld, keyboard, active, recorded, began, selected, content, downs>>

-----------------------------------------------------------------------------
(* The keyboard.                                                           *)

SetTool(t) ==
    /\ t # tool
    /\ t \in {"connect", "place"} => Connectable /\ ~viewerMode
    /\ tool' = t
    /\ UNCHANGED <<mode, spaceHeld, pointing, keyboard, selected, content, downs>>

Space ==
    /\ spaceHeld' = ~spaceHeld
    /\ UNCHANGED <<mode, tool, pointing, keyboard, selected, content, downs>>

Escape ==
    /\ IF tool # "select" THEN tool' = "select" /\ UNCHANGED <<selected, keyboard>>
       ELSE selected # "none" /\ selected' = "none" /\ RunsEnd /\ UNCHANGED tool
    /\ UNCHANGED <<mode, spaceHeld, pointing, content, downs>>

(* A run shares one entry.                                                 *)
(* Mutant: undo leaves a run of nudges going.                              *)
StillNudging == UNCHANGED nudging
NudgingEnds == nudging' = FALSE
InRun(running) ==
    IF running THEN UNCHANGED <<undoStack, redoStack>> ELSE Record

Nudge ==
    /\ ~viewerMode /\ selected \in {"node", "nodes"}
    /\ keyboardResizing' = FALSE /\ nudging' = TRUE /\ InRun(nudging)
    /\ Fresh /\ layout' = changes' /\ stored' = changes'
    /\ began' = NoneBegan
    /\ UNCHANGED <<mode, tool, spaceHeld, touching, selected, source, rendering, placing, downs>>

KeyboardResize ==
    /\ ~viewerMode /\ selected = "node" /\ family # "gantt"
    /\ nudging' = FALSE /\ keyboardResizing' = TRUE /\ InRun(keyboardResizing)
    /\ Fresh /\ layout' = changes' /\ stored' = changes'
    /\ began' = NoneBegan
    /\ UNCHANGED <<mode, tool, spaceHeld, touching, selected, source, rendering, placing, downs>>

Restored(e) ==
    /\ layout' = e.layout /\ source' = e.source /\ selected' = e.selected
    /\ stored' = e.layout /\ NudgingEnds /\ rendering' = TRUE
    /\ began' = NoneBegan
    /\ UNCHANGED <<mode, tool, spaceHeld, touching, keyboardResizing, placing, changes, downs>>

Undo ==
    /\ ~viewerMode /\ undoStack # << >>
    /\ redoStack' = Append(redoStack, Entry)
    /\ undoStack' = SubSeq(undoStack, 1, Len(undoStack) - 1)
    /\ Restored(undoStack[Len(undoStack)])

Redo ==
    /\ ~viewerMode /\ redoStack # << >>
    /\ undoStack' = Append(undoStack, Entry)
    /\ redoStack' = SubSeq(redoStack, 1, Len(redoStack) - 1)
    /\ Restored(redoStack[Len(redoStack)])

(* reconcileSelection, when a render has been laid out.                    *)
Rendered ==
    /\ rendering /\ rendering' = FALSE /\ nudging' = FALSE
    /\ selected' \in {selected, "none"}
    /\ UNCHANGED <<mode, tool, spaceHeld, pointing, keyboardResizing, layout, source, stored,
                   undoStack, redoStack, placing, changes, downs>>

GesturesNext ==
    \/ PointerDown \/ PointerMove \/ PointerUp \/ PointerCancel
    \/ \E t \in Tool : SetTool(t)
    \/ Space \/ Escape \/ Nudge \/ KeyboardResize \/ Undo \/ Redo \/ Rendered \/ Placed

GesturesSpec == GesturesInit /\ [][GesturesNext]_gvars

-----------------------------------------------------------------------------
(* Properties.                                                             *)

(* One undo takes back one gesture, one that a second finger turns into a  *)
(* pinch or that goes on after a pointercancel too: when a gesture is over *)
(* and has changed the layout, and nothing else was done meanwhile, the    *)
(* history has one entry more, and that is the state before it (the        *)
(* *Recorded flags). A gantt bar whose dates are written, or could not be, *)
(* may have taken a second one on top, so it takes two undos.              *)
OneUndoPerGesture ==
    [][\A slot \in (active \ active') \cap Recording :
         began[slot] # NoGesture /\ layout # began[slot].layout
         => LET first == began[slot].entries + 1 IN
            /\ undoStack'[first].layout = began[slot].layout
            /\ Len(undoStack') = first
               \/ (Len(undoStack') = first + 1 /\ family = "gantt" /\ rendering')]_gvars

(* A nudge is never made on top of states that a redo still holds: a run   *)
(* of nudges ends with an undo, so the next one takes its own entry        *)
(* ("reset by any other interaction", applyRestored).                      *)
NudgesUndoable == [][Nudge => redoStack' = << >>]_gvars
==============================================================================
