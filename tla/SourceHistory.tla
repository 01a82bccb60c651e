---------------------------- MODULE SourceHistory ----------------------------
(***************************************************************************)
(* The playground outside a shared room (main.ts): the source text and the *)
(* manual layout over it, the asynchronous renders that bring them         *)
(* together, the undo history of both, and what a reload finds again.      *)
(*                                                                         *)
(* A text is a model value; the diagram it lays out to is its set of       *)
(* nodes.  An override is free or pinned; its coordinates are left out.    *)
(* One overlay group stands for them all (OverlayGroups has the forest).   *)
(***************************************************************************)
EXTENDS Naturals, Sequences, FiniteSets

CONSTANTS Text, Node, None,
          Kind,         \* what becomes of a text: ok, broken, blank, unlayable
          Nodes,        \* the nodes of a text that lays out
          Sample,       \* the text of a first visit
          HistoryCap,   \* 100 in the code
          MaxOps, MaxReloads   \* bounds of the instance

Overlay == [pos : [Node -> {"none", "free", "pinned"}], group : SUBSET Node]
Empty == [pos |-> [n \in Node |-> "none"], group |-> {}]
Entry == [text : Text, overlay : Overlay]

ASSUME HistoryAssumption ==
    /\ Kind \in [Text -> {"ok", "broken", "blank", "unlayable"}]
    /\ Nodes \in [Text -> SUBSET Node]
    /\ Sample \in Text /\ None \notin Text \cup Node /\ IsFiniteSet(Node)
    /\ HistoryCap \in Nat \ {0} /\ MaxOps \in Nat /\ MaxReloads \in Nat

VARIABLES
    text, overlay,               \* the editor's text, the document
    undoStack, redoStack,
    typing, lastText,            \* a burst of typing, and the text before it
    typingTimer,                 \* its 800 ms timeout is pending
    seq, inflight, valid,        \* renderSeq, renders under way, currentRenderValid
    scene,                       \* the text whose scene is published
    enabled,                     \* the layout buttons: not `disabled` by applyKind
    dragging, dragRecorded,      \* the ids of the drag under way, dragRecorded
    cooldown, queued,            \* the 90 ms window after a typed render
    restoring,                   \* restoringHistory
    activeId, loadedId,          \* overlay identities: the text they describe
    armed, saved, savedOverlay,  \* persistence
    link,                        \* what the address bar brings back
    ops, reloads

editor  == <<text, overlay>>
history == <<undoStack, redoStack, typing, lastText, typingTimer>>
renders == <<seq, inflight, valid, scene, restoring>>
ids     == <<activeId, loadedId>>
timing  == <<cooldown, queued>>
stored  == <<saved, savedOverlay>>
drag    == <<dragging, dragRecorded>>
vars == <<editor, history, renders, enabled, drag, ids, timing, armed, stored, link, ops, reloads>>

Overridden(o) == {n \in Node : o.pos[n] # "none"}
Has(o) == Overridden(o) # {} \/ o.group # {}
Now == [text |-> text, overlay |-> overlay]

-----------------------------------------------------------------------------
(* getDiagramFeatures, getFeaturesSimilarity < 0.5: the features are the   *)
(* family and the nodes.                                                   *)
Features(t) == {"family"} \cup Nodes[t]
Dissimilar(t, u) ==
    2 * Cardinality(Features(t) \cap Features(u)) < Cardinality(Features(t) \cup Features(u))

(* doc.persist, stamped with the features of the scene on show.            *)
Persist(o, shown) == savedOverlay' = [overlay |-> o, identity |-> shown]

Capped(s) == IF Len(s) > HistoryCap THEN Tail(s) ELSE s

(* recordHistory.                                                          *)
Record(e) ==
    /\ undoStack' = Capped(Append(undoStack, e))
    /\ redoStack' = << >>
    /\ typing' = FALSE /\ typingTimer' = FALSE
    /\ lastText' = text

SavedSource(t) == IF armed' THEN t ELSE saved

(* A text that parses is laid out, and its render awaits the layout.       *)
Waits(t) == Kind[t] \in {"ok", "unlayable"}

(* renderFromText up to its first await, for an undo or redo (`restore`)   *)
(* or for a node to be pinned when the render is over (`place`).  A text   *)
(* that does not parse disables the buttons, unless there is no scene.     *)
BeginRender(t, restore, place) ==
    /\ seq' = seq + 1
    /\ valid' = FALSE
    /\ saved' = SavedSource(t)
    /\ scene' = IF Kind[t] = "blank" THEN None ELSE scene
    /\ enabled' = (enabled /\ ~(Kind[t] = "broken" /\ scene # None))
    /\ inflight' = IF Waits(t) THEN inflight \cup
           {[seq |-> seq + 1, text |-> t, stage |-> "layout", restore |-> restore,
             place |-> place]}
                   ELSE inflight
    /\ restoring' = IF restore THEN Waits(t) ELSE restoring
StartRender(t, restore) == BeginRender(t, restore, None)

Pinned(o, S) == [o EXCEPT !.pos = [n \in Node |-> IF n \in S THEN "pinned" ELSE @[n]]]

(* What placeNodeAt, duplicate and paste do after their await: the node is *)
(* moved to its place, whatever has become of the text and of the scene.   *)
Placed(n) ==
    IF n # None /\ scene # None
    THEN overlay' = Pinned(overlay, {n}) /\ Persist(overlay', scene)
    ELSE UNCHANGED <<overlay, savedOverlay>>

(* The end of a render: a restoring one runs its finally, a placing one    *)
(* goes on.                                                                *)
Ends(r) ==
    /\ inflight' = inflight \ {r}
    /\ restoring' = (restoring /\ ~r.restore)
    /\ Placed(r.place)

(* Mutant: a render overtaken during its layout publishes all the same.    *)
AnyRender(r) == TRUE
Current(r) == r.seq = seq

(* The layout fails, or comes after a newer render has begun.              *)
LayoutDropped(r) ==
    /\ r.stage = "layout"
    /\ ~Current(r) \/ Kind[r.text] = "unlayable"
    /\ Ends(r)
    /\ enabled' = (enabled /\ ~(Current(r) /\ scene # None))
    /\ UNCHANGED <<text, history, seq, valid, scene, drag, ids, timing, armed, saved, link, ops, reloads>>

(* The overlay does not fit this diagram any more, and is cleared.         *)
Wipes(r) ==
    LET target == IF loadedId # None THEN loadedId ELSE activeId IN
    /\ ~restoring /\ target # None /\ Has(overlay)
    /\ Dissimilar(r.text, target)

(* pruneGroupsTo and the prune of dead overrides.                          *)
LiveGroup(o, live) == [o EXCEPT !.group = @ \cap live]
LivePos(o, live) == [o EXCEPT !.pos = [n \in Node |-> IF n \in live THEN @[n] ELSE "none"]]

(* The scene and the ast are published, and the overlay fitted to them.    *)
Publish(r) ==
    LET live == Nodes[r.text]
        kept == IF Wipes(r) THEN Empty ELSE LiveGroup(overlay, live)
        next == LivePos(kept, live) IN
    /\ r.stage = "layout" /\ Current(r) /\ Kind[r.text] # "unlayable"
    /\ valid' = TRUE /\ scene' = r.text /\ enabled' = TRUE
    /\ activeId' = r.text /\ loadedId' = None
    /\ overlay' = next
    /\ IF Wipes(r) THEN Record(Now)
       ELSE IF next # kept THEN Record([text |-> text, overlay |-> kept])
       ELSE UNCHANGED history
    /\ IF Wipes(r) \/ next # overlay THEN Persist(next, r.text) ELSE UNCHANGED savedOverlay
    /\ inflight' = (inflight \ {r}) \cup {[r EXCEPT !.stage = "icons"]}
    /\ UNCHANGED <<text, seq, restoring, drag, timing, armed, saved, link, ops, reloads>>

(* The icons are rastered: the frame is painted, unless it is stale.       *)
IconsDone(r) ==
    /\ r.stage = "icons" /\ Ends(r)
    /\ UNCHANGED <<text, history, seq, valid, scene, enabled, drag, ids, timing, armed, saved,
                   link, ops, reloads>>

-----------------------------------------------------------------------------
(* Timers.                                                                 *)

(* Mutant: the edits queued during the window are forgotten.               *)
ForgetQueued ==
    /\ queued' = FALSE /\ cooldown' = FALSE /\ UNCHANGED <<renders, enabled, saved>>

TrailingRender ==
    IF queued
    THEN /\ queued' = FALSE /\ StartRender(text, FALSE) /\ UNCHANGED cooldown
    ELSE /\ cooldown' = FALSE /\ UNCHANGED <<queued, renders, enabled, saved>>

CooldownEnds ==
    /\ cooldown /\ UNCHANGED armed /\ TrailingRender
    /\ UNCHANGED <<editor, history, drag, ids, savedOverlay, link, ops, reloads>>

TypingEnds ==
    /\ typingTimer
    /\ typing' = FALSE /\ typingTimer' = FALSE /\ lastText' = text
    /\ UNCHANGED <<editor, undoStack, redoStack, renders, enabled, drag, ids, timing, armed,
                   stored, link, ops, reloads>>

-----------------------------------------------------------------------------
(* What the user does.                                                     *)

Op == ops < MaxOps /\ ops' = ops + 1 /\ UNCHANGED reloads

(* recordTypingStart.                                                      *)
RecordTypingStart ==
    /\ IF typing THEN UNCHANGED <<undoStack, redoStack>>
       ELSE /\ undoStack' = Capped(Append(undoStack, [text |-> lastText, overlay |-> overlay]))
            /\ redoStack' = << >>
    /\ typing' = TRUE /\ typingTimer' = TRUE
    /\ UNCHANGED lastText

(* Mutant: a queued keystroke is saved by its render.                      *)
SavedLater(t) == saved' = saved
SaveTyped(t) == saved' = t

(* onTextChange: the first keystroke of a burst renders, the others wait.  *)
Type(t) ==
    /\ Op /\ t # text /\ text' = t
    /\ RecordTypingStart
    /\ armed' = TRUE
    /\ IF cooldown
       THEN /\ queued' = TRUE /\ SaveTyped(t) /\ UNCHANGED <<cooldown, renders, enabled>>
       ELSE /\ StartRender(t, FALSE) /\ cooldown' = TRUE /\ UNCHANGED queued
    /\ UNCHANGED <<overlay, drag, ids, savedOverlay, link>>

(* Mutant: the snapshot typing starts from is not refreshed.               *)
SetTextOnly(t) == text' = t /\ armed' = TRUE /\ UNCHANGED lastText
(* setSourceValue, after recordHistory where `recorded`.                   *)
SetSourceValue(t) == text' = t /\ armed' = TRUE /\ lastText' = t

(* A recorded change of the source.                                        *)
EditText(t) ==
    /\ Op /\ scene # None
    /\ undoStack' = Capped(Append(undoStack, Now)) /\ redoStack' = << >>
    /\ typing' = FALSE /\ typingTimer' = FALSE
    /\ SetSourceValue(t)
    /\ UNCHANGED <<drag, ids, timing, link>>

(* A canvas edit of the source (relabel, add, remove, connect, restyle):   *)
(* worked out with the last scene on the text of now, current or not.      *)
EditSource(t) ==
    /\ t # text /\ EditText(t) /\ StartRender(t, FALSE)
    /\ UNCHANGED <<overlay, savedOverlay>>

(* placeNodeAt, duplicateSelection, pasteClipboard: a node the last scene  *)
(* does not have is appended, and moved when the render of the text is     *)
(* over; a text that did not parse does not now, and is over at once.      *)
PlaceNode(t, n) ==
    /\ EditText(t)
    /\ n \notin Nodes[scene]
    /\ IF Waits(text) THEN Waits(t) /\ t # text ELSE Kind[t] = "broken"
    /\ Kind[t] = "ok" => Nodes[t] = Nodes[text] \cup {n}
    /\ BeginRender(t, FALSE, n)
    /\ IF Waits(t) THEN UNCHANGED <<overlay, savedOverlay>> ELSE Placed(n)

(* The address names the example from now on.                              *)
LoadExample(t) ==
    /\ Op
    /\ undoStack' = Capped(Append(undoStack, Now)) /\ redoStack' = << >>
    /\ typing' = FALSE /\ typingTimer' = FALSE
    /\ overlay' = [overlay EXCEPT !.pos = Empty.pos]
    /\ Persist(overlay', scene)
    /\ SetSourceValue(t) /\ StartRender(t, FALSE)
    /\ link' = [text |-> t, overlay |-> Empty, identity |-> None]
    /\ UNCHANGED <<drag, ids, timing>>

(* pointerdown on a node: the ids are those of the nodes it moves, and no  *)
(* render changes them.  A drag the browser cancelled is still there until *)
(* the next pointerdown.                                                   *)
DragStart(S) ==
    /\ Op /\ scene # None /\ S # {} /\ S \subseteq Nodes[scene]
    /\ dragging' = S /\ dragRecorded' = FALSE
    /\ UNCHANGED <<editor, history, renders, enabled, ids, timing, armed, stored, link>>

(* pointermove: recorded once, and saved by no one but pointerup.          *)
DragMove ==
    /\ dragging # {}
    /\ IF dragRecorded THEN UNCHANGED history ELSE Record(Now)
    /\ dragRecorded' = TRUE /\ overlay' = Pinned(overlay, dragging)
    /\ UNCHANGED <<text, renders, enabled, dragging, ids, timing, armed, stored, link, ops, reloads>>

(* pointerup saves what there is, moved or not; a second finger drops the  *)
(* drag without saving.                                                    *)
DragOver ==
    /\ dragging # {}
    /\ dragging' = {} /\ dragRecorded' = FALSE
    /\ UNCHANGED <<editor, history, renders, enabled, ids, timing, armed, saved, link, ops, reloads>>
DragEnd == DragOver /\ Persist(overlay, scene)
Pinch == DragOver /\ scene # None /\ UNCHANGED savedOverlay

(* A recorded change of the overlay alone.                                 *)
EditOverlay(next) ==
    /\ Record(Now) /\ overlay' = next /\ Persist(next, scene)
    /\ UNCHANGED <<text, drag, ids, timing, armed, link>>

GroupNodes(S) ==
    /\ Op /\ scene # None /\ S \subseteq Nodes[scene] /\ Cardinality(S) >= 2
    /\ S # overlay.group
    /\ EditOverlay([overlay EXCEPT !.group = S])
    /\ UNCHANGED <<renders, enabled, saved>>

(* relax: every node of the scene that is not pinned gets a free override. *)
Relax ==
    /\ Op /\ enabled /\ scene # None
    /\ \E n \in Nodes[scene] : overlay.pos[n] # "pinned"
    /\ EditOverlay([overlay EXCEPT !.pos = [n \in Node |->
           IF n \in Nodes[scene] /\ @[n] # "pinned" THEN "free"
           ELSE IF @[n] = "pinned" THEN @[n] ELSE "none"]])
    /\ UNCHANGED <<renders, enabled, saved>>

(* togglePin on one selected node.                                         *)
TogglePin(n) ==
    /\ Op /\ scene # None /\ n \in Nodes[scene]
    /\ EditOverlay([overlay EXCEPT !.pos[n] = IF @ = "pinned" THEN "free" ELSE "pinned"])
    /\ UNCHANGED <<renders, enabled, saved>>

(* The button, or the hook of the page, which is never disabled.           *)
ResetPositions ==
    /\ Op /\ dragging = {} /\ Overridden(overlay) # {}
    /\ EditOverlay([overlay EXCEPT !.pos = Empty.pos])
    /\ StartRender(text, FALSE)

(* Regenerate records in the document's own history, which undo does not   *)
(* read outside a shared room.                                             *)
PinnedOverrides(o) ==
    [o EXCEPT !.pos = [n \in Node |-> IF @[n] = "pinned" THEN @[n] ELSE "none"]]
Regenerate ==
    /\ Op /\ enabled
    /\ overlay' = PinnedOverrides(overlay)
    /\ Persist(overlay', scene) /\ UNCHANGED armed
    /\ StartRender(text, FALSE)
    /\ UNCHANGED <<text, history, drag, ids, timing, link>>

(* Theme, sketch, style, icons, collapse: the same text is laid out again. *)
Rerender ==
    /\ Op /\ UNCHANGED armed /\ StartRender(text, FALSE)
    /\ UNCHANGED <<editor, history, drag, ids, timing, savedOverlay, link>>

(* Sharing puts the snapshot into the address, with its overlay if any.    *)
Share ==
    /\ Op
    /\ link' = [text |-> text, overlay |-> overlay, identity |-> scene]
    /\ UNCHANGED <<editor, history, renders, enabled, drag, ids, timing, armed, stored>>

(* undoOverlay, redoOverlay.                                               *)
Restore(e) ==
    /\ Op
    /\ text' = e.text /\ overlay' = e.overlay
    /\ armed' = (armed \/ text # e.text)
    /\ lastText' = e.text /\ typing' = FALSE
    /\ Persist(e.overlay, scene)
    /\ StartRender(e.text, TRUE)
    /\ UNCHANGED <<typingTimer, drag, ids, timing, link>>

Undo ==
    /\ undoStack # << >>
    /\ redoStack' = Append(redoStack, Now)
    /\ undoStack' = SubSeq(undoStack, 1, Len(undoStack) - 1)
    /\ Restore(undoStack[Len(undoStack)])

Redo ==
    /\ redoStack # << >>
    /\ undoStack' = Append(undoStack, Now)
    /\ redoStack' = SubSeq(redoStack, 1, Len(redoStack) - 1)
    /\ Restore(redoStack[Len(redoStack)])

-----------------------------------------------------------------------------
(* Boot: the address wins over the stored source, and brings its own       *)
(* overlay.  savedText and store are what local storage holds.             *)

BootText(l, savedText) == IF l # None THEN l.text ELSE savedText
BootOverlay(l, store) ==
    IF l # None THEN [overlay |-> l.overlay, identity |-> l.identity] ELSE store

(* The initial render.                                                     *)
FirstRender(t) ==
    IF Waits(t)
    THEN {[seq |-> 1, text |-> t, stage |-> "layout", restore |-> FALSE, place |-> None]} ELSE {}

NoStore == [overlay |-> Empty, identity |-> None]

(* A first visit, or a link another author shared.                         *)
Init ==
    /\ link \in {None} \cup {[text |-> t, overlay |-> Empty, identity |-> None] :
                             t \in {u \in Text : Kind[u] = "ok"}}
    /\ text = BootText(link, Sample) /\ overlay = Empty
    /\ undoStack = << >> /\ redoStack = << >>
    /\ typing = FALSE /\ typingTimer = FALSE /\ lastText = text
    /\ seq = 1 /\ valid = FALSE /\ scene = None /\ restoring = FALSE
    /\ enabled = TRUE /\ dragging = {} /\ dragRecorded = FALSE
    /\ inflight = FirstRender(text)
    /\ activeId = None /\ loadedId = None
    /\ cooldown = FALSE /\ queued = FALSE
    /\ armed = (link = None) /\ saved = Sample /\ savedOverlay = NoStore
    /\ ops = 0 /\ reloads = 0

Reload ==
    /\ reloads < MaxReloads /\ reloads' = reloads + 1
    /\ text' = BootText(link, saved)
    /\ LET o == BootOverlay(link, savedOverlay) IN
       /\ overlay' = o.overlay /\ activeId' = o.identity /\ loadedId' = o.identity
    /\ undoStack' = << >> /\ redoStack' = << >>
    /\ typing' = FALSE /\ typingTimer' = FALSE /\ lastText' = text'
    /\ seq' = 1 /\ valid' = FALSE /\ scene' = None /\ restoring' = FALSE
    /\ enabled' = TRUE /\ dragging' = {} /\ dragRecorded' = FALSE
    /\ inflight' = FirstRender(text')
    /\ cooldown' = FALSE /\ queued' = FALSE
    /\ armed' = (link = None)
    /\ UNCHANGED <<stored, link, ops>>

User ==
    \/ \E t \in Text : Type(t) \/ EditSource(t)
    \/ \E t \in Text : Kind[t] = "ok" /\ LoadExample(t)
    \/ \E t \in Text, n \in Node : PlaceNode(t, n)
    \/ \E n \in Node : TogglePin(n)
    \/ \E S \in SUBSET Node : DragStart(S) \/ GroupNodes(S)
    \/ DragMove \/ DragEnd \/ Pinch
    \/ Relax \/ ResetPositions \/ Regenerate \/ Rerender \/ Share
    \/ Undo \/ Redo \/ Reload

LayoutEnds == \E r \in inflight : LayoutDropped(r) \/ Publish(r)
IconsEnd == \E r \in inflight : IconsDone(r)
Next == User \/ LayoutEnds \/ IconsEnd \/ CooldownEnds \/ TypingEnds

Spec == Init /\ [][Next]_vars
(* The worker and the icon loader answer every request; timers fire.       *)
FairSpec == Spec /\ WF_vars(LayoutEnds) /\ WF_vars(IconsEnd)
                 /\ WF_vars(CooldownEnds) /\ WF_vars(TypingEnds)

-----------------------------------------------------------------------------
(* Properties.                                                             *)

Link == [text : Text, overlay : Overlay, identity : Text \cup {None}]
Store == [overlay : Overlay, identity : Text \cup {None}]
Renders == [seq : Nat, text : Text, stage : {"layout", "icons"}, restore : BOOLEAN,
            place : Node \cup {None}]

(* Every variable has its type, and the two stacks together their bound    *)
(* (recordHistory; proved in SourceHistoryProofs).                         *)
TypeOK ==
    /\ text \in Text /\ overlay \in Overlay
    /\ undoStack \in Seq(Entry) /\ redoStack \in Seq(Entry)
    /\ Len(undoStack) + Len(redoStack) <= HistoryCap
    /\ typing \in BOOLEAN /\ typingTimer \in BOOLEAN /\ lastText \in Text
    /\ seq \in Nat /\ inflight \in SUBSET Renders /\ restoring \in BOOLEAN
    /\ valid \in BOOLEAN /\ scene \in Text \cup {None}
    /\ enabled \in BOOLEAN /\ dragging \in SUBSET Node /\ dragRecorded \in BOOLEAN
    /\ activeId \in Text \cup {None} /\ loadedId \in Text \cup {None}
    /\ cooldown \in BOOLEAN /\ queued \in BOOLEAN
    /\ armed \in BOOLEAN /\ saved \in Text /\ savedOverlay \in Store
    /\ link \in Link \cup {None}
    /\ ops \in Nat /\ reloads \in Nat

Quiet == inflight = {} /\ ~queued

(* When nothing is under way the canvas shows the text of the editor: a    *)
(* layout that ends late never replaces a newer one (renderSeq).           *)
LastTextShown == Quiet /\ Kind[text] = "ok" => valid /\ scene = text

(* Whatever the user has made is stored with the next keystroke (saveSource *)
(* in onTextChange and renderFromText).                                    *)
OwnTextSaved == armed => saved = text

(* In the end the text of the editor is shown, if it can be (the trailing  *)
(* render of the cooldown).                                                *)
Settles == <>[](Quiet /\ (Kind[text] = "ok" => scene = text))

(* A gesture that has been recorded and still writes: a drag that has      *)
(* moved, a node that waits for its place.                                 *)
Placing == dragRecorded \/ \E r \in inflight : r.place # None
OnlyPins(p, q) ==
    /\ q.text = p.text /\ q.overlay.group = p.overlay.group
    /\ \A n \in Node : q.overlay.pos[n] \in {p.overlay.pos[n], "pinned"}
(* A keystroke of the burst under way.                                     *)
OnlyTypes(p, q) == q.overlay = p.overlay
(* What goes without an entry of its own: the overrides Regenerate drops   *)
(* (though main.ts:6760 calls it undoable) and the groups a render prunes  *)
(* (though main.ts:3461 calls the prune undoable).                         *)
Forgets(p, q) ==
    /\ q.text = p.text
    /\ \/ q.overlay.pos = p.overlay.pos /\ q.overlay.group \subseteq p.overlay.group
       \/ q.overlay = PinnedOverrides(p.overlay)

(* Every step is a change that undo can take back, the rest of a burst of  *)
(* typing or of a recorded gesture, an undo, a redo, or one of the two     *)
(* losses; a burst goes back to the text before it (recordTypingStart,     *)
(* setSourceValue).                                                        *)
History == INSTANCE UndoHistory WITH Cap <- HistoryCap,
    past <- undoStack, present <- Now, future <- redoStack,
    typing <- typing, placing <- Placing
IsHistory == History!Spec
==============================================================================
