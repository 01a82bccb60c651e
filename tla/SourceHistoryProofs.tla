------------------------- MODULE SourceHistoryProofs -------------------------
(***************************************************************************)
(* For any set of texts, nodes and length of the history: the types of     *)
(* SourceHistory, that the text of the editor is what is shown and stored, *)
(* and that every step is one of UndoHistory's.                            *)
(***************************************************************************)
EXTENDS SourceHistory, SequenceTheorems, TLAPS

-----------------------------------------------------------------------------
(* The inductive invariant.                                                *)

Laying(r) == Current(r) /\ r.stage = "layout"

(* The current render is of the text of the editor, unless a keystroke     *)
(* waits for the end of the window; it is under way, or has been shown.    *)
RenderInv ==
    /\ \A r \in inflight : r.seq <= seq
    /\ ~queued => \A r \in inflight : Current(r) => r.text = text
    /\ ~queued /\ Kind[text] = "ok" =>
           (valid /\ scene = text) \/ \E r \in inflight : Laying(r)

(* Outside a burst of typing the snapshot is the text.                     *)
SnapInv == ~typing => lastText = text

(* The parts of the type invariant.                                        *)
EditorOK == text \in Text /\ overlay \in Overlay
HistoryOK ==
    /\ undoStack \in Seq(Entry) /\ redoStack \in Seq(Entry)
    /\ Len(undoStack) + Len(redoStack) <= HistoryCap
    /\ typing \in BOOLEAN /\ typingTimer \in BOOLEAN /\ lastText \in Text
RenderOK ==
    /\ seq \in Nat /\ inflight \in SUBSET Renders /\ restoring \in BOOLEAN
    /\ valid \in BOOLEAN /\ scene \in Text \cup {None} /\ saved \in Text
    /\ enabled \in BOOLEAN
RestOK ==
    /\ activeId \in Text \cup {None} /\ loadedId \in Text \cup {None}
    /\ cooldown \in BOOLEAN /\ queued \in BOOLEAN /\ armed \in BOOLEAN
    /\ savedOverlay \in Store /\ link \in Link \cup {None}
    /\ ops \in Nat /\ reloads \in Nat
    /\ dragging \in SUBSET Node /\ dragRecorded \in BOOLEAN

IInv == TypeOK /\ RenderInv /\ OwnTextSaved /\ SnapInv

-----------------------------------------------------------------------------
(* The overlay and the stacks.                                             *)

LEMMA EmptyIsOverlay == Empty \in Overlay
BY DEF Empty, Overlay

LEMMA NowIsEntry == TypeOK => Now \in Entry
BY DEF TypeOK, Now, Entry

(* What Capped(Append(s, e)) is: recordHistory's push and shift.           *)
LEMMA PushFacts ==
    ASSUME NEW s \in Seq(Entry), NEW e \in Entry, Len(s) <= HistoryCap
    PROVE  LET t == Capped(Append(s, e)) IN
           /\ t \in Seq(Entry) /\ Len(t) \in Nat /\ Len(t) <= HistoryCap
           /\ t # << >> /\ t[Len(t)] = e
<1>1. HistoryCap \in Nat \ {0} BY HistoryAssumption
<1> DEFINE a == Append(s, e)
<1>2. a \in Seq(Entry) /\ Len(a) = Len(s) + 1 /\ a[Len(a)] = e /\ Len(s) \in Nat
  OBVIOUS
<1>3. CASE Len(a) > HistoryCap
  <2>1. Tail(a) \in Seq(Entry) /\ Len(Tail(a)) = Len(s) BY <1>2
  <2>2. Len(s) >= 1 BY <1>1, <1>2, <1>3
  <2>3. Tail(a)[Len(s)] = a[Len(s) + 1] BY <1>2, <2>2
  <2> QED BY <1>2, <1>3, <2>1, <2>2, <2>3 DEF Capped
<1>4. CASE ~(Len(a) > HistoryCap)
  BY <1>1, <1>2, <1>4 DEF Capped
<1> QED BY <1>3, <1>4

(* What an undo leaves of the stack it pops.                               *)
LEMMA PopFacts ==
    ASSUME NEW s \in Seq(Entry), s # << >>
    PROVE  /\ s[Len(s)] \in Entry
           /\ SubSeq(s, 1, Len(s) - 1) \in Seq(Entry)
           /\ Len(SubSeq(s, 1, Len(s) - 1)) = Len(s) - 1
<1>1. Len(s) \in Nat \ {0} BY EmptySeq
<1>2. \A i \in 1..Len(s) : s[i] \in Entry BY ElementOfSeq
<1>3. \A i \in 1..(Len(s) - 1) : s[i] \in Entry BY <1>1, <1>2
<1>4. /\ SubSeq(s, 1, Len(s) - 1) \in Seq(Entry)
      /\ Len(SubSeq(s, 1, Len(s) - 1)) = IF 1 <= Len(s) - 1 THEN (Len(s) - 1) - 1 + 1 ELSE 0
  BY <1>1, <1>3, SubSeqProperties, SMT
<1>5. Len(s) \in 1..Len(s) BY <1>1
<1>6. s[Len(s)] \in Entry BY <1>2, <1>5
<1>7. Len(SubSeq(s, 1, Len(s) - 1)) = Len(s) - 1
  <2> DEFINE p == SubSeq(s, 1, Len(s) - 1)
  <2>1. ASSUME NEW n \in Nat, NEW m, n >= 1,
               m = IF 1 <= n - 1 THEN (n - 1) - 1 + 1 ELSE 0
        PROVE  m = n - 1
    <3>1. CASE n = 1 BY <2>1, <3>1
    <3>2. CASE n > 1 BY <2>1, <3>2
    <3> QED BY <2>1, <3>1, <3>2
  <2>2. Len(s) \in Nat /\ Len(s) >= 1 BY <1>1
  <2>3. Len(p) = IF 1 <= Len(s) - 1 THEN (Len(s) - 1) - 1 + 1 ELSE 0 BY <1>4
  <2> HIDE DEF p
  <2>4. Len(p) = Len(s) - 1 BY <2>1, <2>2, <2>3
  <2> QED BY <2>4 DEF p
<1> QED BY <1>4, <1>6, <1>7, Zenon

LEMMA RecordTypes ==
    ASSUME TypeOK, NEW e \in Entry, Record(e)
    PROVE  /\ undoStack' \in Seq(Entry) /\ redoStack' \in Seq(Entry)
           /\ Len(undoStack') + Len(redoStack') <= HistoryCap
           /\ typing' = FALSE /\ typingTimer' = FALSE /\ lastText' = text
<1>1. Len(undoStack) <= HistoryCap BY HistoryAssumption DEF TypeOK
<1>2. redoStack' = << >> /\ Len(redoStack') = 0 BY DEF Record
<1>3. undoStack' = Capped(Append(undoStack, e)) BY DEF Record
<1>4. undoStack' \in Seq(Entry) /\ Len(undoStack') \in Nat /\ Len(undoStack') <= HistoryCap
  BY <1>1, <1>3, PushFacts DEF TypeOK
<1>5. redoStack' \in Seq(Entry) BY <1>2, EmptySeq
<1>6. typing' = FALSE /\ typingTimer' = FALSE /\ lastText' = text BY DEF Record
<1>7. Len(undoStack') + Len(redoStack') <= HistoryCap BY <1>2, <1>4
<1> QED BY <1>4, <1>5, <1>6, <1>7, Zenon

(* What renderFromText does to its own state, whatever it is called for.   *)
LEMMA StartFacts ==
    ASSUME TypeOK, RenderInv, NEW t \in Text, NEW restore \in BOOLEAN,
           NEW place \in Node \cup {None}, BeginRender(t, restore, place), armed' \in BOOLEAN
    PROVE  /\ seq' \in Nat /\ valid' = FALSE /\ scene' \in Text \cup {None}
           /\ inflight' \in SUBSET Renders /\ restoring' \in BOOLEAN /\ enabled' \in BOOLEAN
           /\ saved' \in Text /\ (armed' => saved' = t) /\ (~armed' => saved' = saved)
           /\ \A r \in inflight' : r.seq <= seq'
           /\ \A r \in inflight' : Current(r)' => r.text = t
           /\ Kind[t] = "ok" => \E r \in inflight' : Laying(r)'
<1> DEFINE new == [seq |-> seq + 1, text |-> t, stage |-> "layout", restore |-> restore,
                   place |-> place]
<1>1. seq \in Nat /\ seq' = seq + 1 BY DEF BeginRender, TypeOK
<1>2. new \in Renders BY <1>1 DEF Renders
<1>3. inflight' = inflight \cup {new} \/ inflight' = inflight
  BY DEF BeginRender
<1>4. \A r \in inflight : r.seq \in Nat /\ r.seq <= seq
  BY DEF TypeOK, RenderInv, Renders
<1>5. Kind[t] = "ok" => inflight' = inflight \cup {new}
  BY DEF BeginRender, Waits
<1>6. inflight' \in SUBSET Renders BY <1>2, <1>3 DEF TypeOK
<1>7. \A r \in inflight' : r.seq <= seq' BY <1>1, <1>3, <1>4
<1>8. \A r \in inflight' : r.seq = seq' => r = new BY <1>1, <1>3, <1>4
<1>9. valid' = FALSE BY DEF BeginRender
<1>13. scene' \in Text \cup {None} BY DEF BeginRender, TypeOK
<1>14. restoring' \in BOOLEAN
  <2>1. CASE restore
    <3>1. restoring' = (Kind[t] \in {"ok", "unlayable"}) BY <2>1 DEF BeginRender, Waits
    <3> QED BY <3>1
  <2>2. CASE ~restore BY <2>2, Zenon DEF BeginRender, TypeOK
  <2> QED BY <2>1, <2>2, Zenon
<1>10. saved' \in Text /\ (armed' => saved' = t) /\ (~armed' => saved' = saved)
  BY DEF BeginRender, SavedSource, TypeOK
<1>11. \A r \in inflight' : Current(r)' => r.text = t BY <1>8 DEF Current
<1>12. Kind[t] = "ok" => \E r \in inflight' : Laying(r)'
  <2>1. \A r \in inflight' : r = new => r.seq = seq' /\ r.stage = "layout" BY <1>1
  <2>2. \A r \in inflight' : r = new => Laying(r)' BY <2>1 DEF Laying, Current
  <2> QED BY <1>5, <2>2
<1>15. seq' \in Nat BY <1>1
<1>16. enabled' \in BOOLEAN BY Zenon DEF BeginRender
<1> QED BY <1>6, <1>16, <1>7, <1>9, <1>10, <1>11, <1>12, <1>13, <1>14, <1>15, Zenon

-----------------------------------------------------------------------------
(* Steps of two kinds: those that start a render of the text they leave in *)
(* the editor, and those that leave the renders alone.                     *)

LEMMA TypeParts == TypeOK <=> EditorOK /\ HistoryOK /\ RenderOK /\ RestOK
BY Zenon DEF TypeOK, EditorOK, HistoryOK, RenderOK, RestOK

LEMMA TypePartsNext == TypeOK' <=> EditorOK' /\ HistoryOK' /\ RenderOK' /\ RestOK'
BY TypeParts, PTL

LEMMA Begun ==
    ASSUME IInv, NEW t \in Text, NEW restore \in BOOLEAN, NEW place \in Node \cup {None},
           BeginRender(t, restore, place), text' = t, EditorOK', HistoryOK', RestOK', SnapInv'
    PROVE  IInv'
<1>1. armed' \in BOOLEAN BY DEF RestOK
<1>2. /\ seq' \in Nat /\ valid' = FALSE /\ scene' \in Text \cup {None}
      /\ inflight' \in SUBSET Renders /\ restoring' \in BOOLEAN /\ enabled' \in BOOLEAN
      /\ saved' \in Text /\ (armed' => saved' = t) /\ (~armed' => saved' = saved)
      /\ \A r \in inflight' : r.seq <= seq'
      /\ \A r \in inflight' : Current(r)' => r.text = t
      /\ Kind[t] = "ok" => \E r \in inflight' : Laying(r)'
  BY <1>1, StartFacts, Zenon DEF IInv
<1>3. RenderOK' BY <1>2, Zenon DEF RenderOK
<1>4. RenderInv' BY <1>2, Zenon DEF RenderInv
<1>5. OwnTextSaved' BY <1>2, Zenon DEF OwnTextSaved
<1> QED BY <1>3, <1>4, <1>5, TypePartsNext, Zenon DEF IInv

LEMMA Started ==
    ASSUME IInv, NEW t \in Text, NEW restore \in BOOLEAN, StartRender(t, restore), text' = t,
           EditorOK', HistoryOK', RestOK', SnapInv'
    PROVE  IInv'
<1>1. BeginRender(t, restore, None) BY Zenon DEF StartRender
<1> QED BY <1>1, Begun, Zenon

LEMMA Rested ==
    ASSUME IInv, UNCHANGED <<text, seq, inflight, valid, scene, restoring, enabled, saved, armed>>,
           queued => queued', EditorOK', HistoryOK', RestOK', SnapInv'
    PROVE  IInv'
<1>1. RenderOK' BY Zenon DEF IInv, TypeOK, RenderOK
<1>2. RenderInv' BY Zenon DEF IInv, RenderInv, Current, Laying
<1>3. OwnTextSaved' BY Zenon DEF IInv, OwnTextSaved
<1> QED BY <1>1, <1>2, <1>3, TypePartsNext, Zenon DEF IInv

(* A recorded change of the overlay, of nodes that are on show.            *)
LEMMA Edited ==
    ASSUME IInv, NEW next \in Overlay, EditOverlay(next), Op,
           cooldown' = cooldown, queued' = queued
    PROVE  /\ EditorOK' /\ HistoryOK' /\ RestOK' /\ SnapInv'
           /\ text' = text /\ armed' = armed
<1>1. /\ Record(Now) /\ overlay' = next /\ text' = text /\ armed' = armed
      /\ savedOverlay' = [overlay |-> next, identity |-> scene]
      /\ UNCHANGED <<activeId, loadedId, cooldown, queued, link, dragging, dragRecorded>>
  BY Zenon DEF EditOverlay, Persist, ids, drag
<1>2. EditorOK' BY <1>1 DEF IInv, TypeOK, EditorOK
<1>3. /\ undoStack' \in Seq(Entry) /\ redoStack' \in Seq(Entry)
      /\ Len(undoStack') + Len(redoStack') <= HistoryCap
      /\ typing' = FALSE /\ typingTimer' = FALSE /\ lastText' = text
  BY <1>1, NowIsEntry, RecordTypes, Zenon DEF IInv
<1>4. HistoryOK' BY <1>3, Zenon DEF HistoryOK, IInv, TypeOK
<1>5. savedOverlay' \in Store BY <1>1 DEF Store, IInv, TypeOK
<1>6. ops' \in Nat /\ reloads' \in Nat BY DEF Op, IInv, TypeOK
<1>7. RestOK' BY <1>1, <1>5, <1>6, Zenon DEF RestOK, IInv, TypeOK
<1>8. SnapInv' BY <1>1, <1>3, Zenon DEF SnapInv
<1> QED BY <1>1, <1>2, <1>4, <1>7, <1>8, Zenon

-----------------------------------------------------------------------------
(* The user's actions.                                                     *)

LEMMA TypeStep == ASSUME IInv, NEW t \in Text, Type(t) PROVE IInv'
<1> DEFINE e == [text |-> lastText, overlay |-> overlay]
<1>1. /\ text' = t /\ overlay' = overlay /\ armed' = TRUE /\ lastText' = lastText
      /\ typing' = TRUE /\ typingTimer' = TRUE
      /\ UNCHANGED <<activeId, loadedId, savedOverlay, link, reloads, dragging, dragRecorded>>
      /\ ops' = ops + 1
  BY Zenon DEF Type, RecordTypingStart, Op, ids, drag
<1>2. EditorOK' BY <1>1 DEF EditorOK, IInv, TypeOK
<1>3. /\ undoStack' \in Seq(Entry) /\ redoStack' \in Seq(Entry)
      /\ Len(undoStack') + Len(redoStack') <= HistoryCap
  <2>1. CASE typing
    BY <2>1, Zenon DEF Type, RecordTypingStart, IInv, TypeOK
  <2>2. CASE ~typing
    <3>1. undoStack' = Capped(Append(undoStack, e)) /\ redoStack' = << >>
      BY <2>2, Zenon DEF Type, RecordTypingStart
    <3>2. e \in Entry BY DEF Entry, IInv, TypeOK
    <3>3. Len(undoStack) <= HistoryCap /\ undoStack \in Seq(Entry)
      BY HistoryAssumption DEF IInv, TypeOK
    <3>4. undoStack' \in Seq(Entry) /\ Len(undoStack') \in Nat /\ Len(undoStack') <= HistoryCap
      BY <3>1, <3>2, <3>3, PushFacts
    <3>5. redoStack' \in Seq(Entry) /\ Len(redoStack') = 0 BY <3>1, EmptySeq
    <3> QED BY <3>4, <3>5
  <2> QED BY <2>1, <2>2, Zenon
<1>4. HistoryOK' BY <1>1, <1>3, Zenon DEF HistoryOK, IInv, TypeOK
<1>5. cooldown' \in BOOLEAN /\ queued' \in BOOLEAN
  BY Zenon DEF Type, IInv, TypeOK
<1>6. ops' \in Nat BY <1>1 DEF IInv, TypeOK
<1>7. RestOK' BY <1>1, <1>5, <1>6, Zenon DEF RestOK, IInv, TypeOK
<1>8. SnapInv' BY <1>1, Zenon DEF SnapInv
<1>9. CASE cooldown
  <2>1. queued' = TRUE /\ saved' = t /\ UNCHANGED <<renders, enabled>>
    BY <1>9, Zenon DEF Type, SaveTyped
  <2>2. UNCHANGED <<seq, inflight, valid, scene, restoring, enabled>> BY <2>1, Zenon DEF renders
  <2>3. RenderOK' BY <2>1, <2>2, Zenon DEF RenderOK, IInv, TypeOK
  <2>4. RenderInv' BY <2>1, <2>2, Zenon DEF RenderInv, IInv
  <2>5. OwnTextSaved' BY <1>1, <2>1, Zenon DEF OwnTextSaved
  <2> QED BY <1>2, <1>4, <1>7, <1>8, <2>3, <2>4, <2>5, TypePartsNext, Zenon DEF IInv
<1>10. CASE ~cooldown
  <2>1. StartRender(t, FALSE) BY <1>10, Zenon DEF Type
  <2> QED BY <1>1, <1>2, <1>4, <1>7, <1>8, <2>1, Started, Zenon
<1> QED BY <1>9, <1>10

(* What a canvas edit of the text or an example does to the history.       *)
LEMMA PushNow ==
    ASSUME TypeOK, undoStack' = Capped(Append(undoStack, Now)), redoStack' = << >>,
           typing' = FALSE, typingTimer' = FALSE, lastText' \in Text, lastText' = text'
    PROVE  HistoryOK' /\ SnapInv'
<1>1. Len(undoStack) <= HistoryCap /\ undoStack \in Seq(Entry)
  BY HistoryAssumption DEF TypeOK
<1>2. undoStack' \in Seq(Entry) /\ Len(undoStack') \in Nat /\ Len(undoStack') <= HistoryCap
  BY <1>1, NowIsEntry, PushFacts
<1>3. redoStack' \in Seq(Entry) /\ Len(redoStack') = 0 BY EmptySeq
<1>4. Len(undoStack') + Len(redoStack') <= HistoryCap BY <1>2, <1>3
<1> QED BY <1>2, <1>3, <1>4, Zenon DEF HistoryOK, SnapInv

LEMMA EditTextFacts ==
    ASSUME IInv, NEW t \in Text, EditText(t)
    PROVE  /\ text' = t /\ armed' = TRUE /\ HistoryOK' /\ SnapInv'
           /\ UNCHANGED <<activeId, loadedId, cooldown, queued, link, dragging, dragRecorded>>
           /\ ops' \in Nat /\ reloads' \in Nat
<1>1. /\ text' = t /\ lastText' = t /\ armed' = TRUE /\ scene # None
      /\ UNCHANGED <<activeId, loadedId, cooldown, queued, link, dragging, dragRecorded, reloads>>
      /\ ops' = ops + 1
  BY Zenon DEF EditText, Op, SetSourceValue, drag, ids, timing
<1>2. HistoryOK' /\ SnapInv'
  BY <1>1, PushNow, Zenon DEF EditText, IInv
<1>3. ops' \in Nat /\ reloads' \in Nat BY <1>1 DEF IInv, TypeOK
<1> QED BY <1>1, <1>2, <1>3, Zenon

LEMMA EditSourceStep == ASSUME IInv, NEW t \in Text, EditSource(t) PROVE IInv'
<1>1. EditText(t) /\ StartRender(t, FALSE) /\ UNCHANGED <<overlay, savedOverlay>>
  BY Zenon DEF EditSource
<1>2. /\ text' = t /\ armed' = TRUE /\ HistoryOK' /\ SnapInv'
      /\ UNCHANGED <<activeId, loadedId, cooldown, queued, link, dragging, dragRecorded>>
      /\ ops' \in Nat /\ reloads' \in Nat
  BY <1>1, EditTextFacts, Zenon
<1>3. EditorOK' BY <1>1, <1>2, Zenon DEF EditorOK, IInv, TypeOK
<1>4. RestOK' BY <1>1, <1>2, Zenon DEF RestOK, IInv, TypeOK
<1> QED BY <1>1, <1>2, <1>3, <1>4, Started, Zenon

(* What a placement, a drag and the pin of one node do to the overlay.     *)
LEMMA PinnedOverlay ==
    ASSUME NEW o \in Overlay, NEW S
    PROVE  /\ Pinned(o, S) \in Overlay /\ Pinned(o, S).group = o.group
           /\ \A n \in Node : Pinned(o, S).pos[n] \in {o.pos[n], "pinned"}
BY DEF Pinned, Overlay

LEMMA PlacedFacts ==
    ASSUME TypeOK, NEW n, Placed(n)
    PROVE  overlay' \in Overlay /\ savedOverlay' \in Store
<1>1. overlay \in Overlay /\ savedOverlay \in Store /\ scene \in Text \cup {None}
  BY Zenon DEF TypeOK
<1>2. CASE n # None /\ scene # None
  <2>1. overlay' = Pinned(overlay, {n}) /\ savedOverlay' = [overlay |-> overlay', identity |-> scene]
    BY <1>2, Zenon DEF Placed, Persist
  <2>2. overlay' \in Overlay BY <1>1, <2>1, PinnedOverlay, Zenon
  <2>3. savedOverlay' \in Store BY <1>1, <2>1, <2>2 DEF Store
  <2> QED BY <2>2, <2>3
<1>3. CASE ~(n # None /\ scene # None)
  BY <1>1, <1>3, Zenon DEF Placed
<1> QED BY <1>2, <1>3, Zenon

LEMMA PlaceNodeStep ==
    ASSUME IInv, NEW t \in Text, NEW n \in Node, PlaceNode(t, n)
    PROVE  IInv'
<1>1. EditText(t) /\ BeginRender(t, FALSE, n)
  BY Zenon DEF PlaceNode
<1>2. /\ text' = t /\ armed' = TRUE /\ HistoryOK' /\ SnapInv'
      /\ UNCHANGED <<activeId, loadedId, cooldown, queued, link, dragging, dragRecorded>>
      /\ ops' \in Nat /\ reloads' \in Nat
  BY <1>1, EditTextFacts, Zenon
<1>3. overlay' \in Overlay /\ savedOverlay' \in Store
  <2>1. CASE Waits(t) BY <2>1, Zenon DEF PlaceNode, IInv, TypeOK
  <2>2. CASE ~Waits(t)
    <3>1. Placed(n) BY <2>2, Zenon DEF PlaceNode
    <3> QED BY <3>1, PlacedFacts, Zenon DEF IInv
  <2> QED BY <2>1, <2>2
<1>4. EditorOK' BY <1>2, <1>3, Zenon DEF EditorOK
<1>5. RestOK' BY <1>2, <1>3, Zenon DEF RestOK, IInv, TypeOK
<1>6. n \in Node \cup {None} BY Zenon
<1> QED BY <1>1, <1>2, <1>4, <1>5, <1>6, Begun, Zenon

LEMMA LoadExampleStep == ASSUME IInv, NEW t \in Text, LoadExample(t) PROVE IInv'
<1>1. /\ text' = t /\ lastText' = t /\ armed' = TRUE
      /\ overlay' = [overlay EXCEPT !.pos = Empty.pos]
      /\ savedOverlay' = [overlay |-> overlay', identity |-> scene]
      /\ link' = [text |-> t, overlay |-> Empty, identity |-> None]
      /\ UNCHANGED <<activeId, loadedId, cooldown, queued, reloads, dragging, dragRecorded>>
      /\ ops' = ops + 1 /\ StartRender(t, FALSE)
  BY Zenon DEF LoadExample, Op, SetSourceValue, Persist, ids, timing, drag
<1>2. EditorOK' BY <1>1, EmptyIsOverlay DEF EditorOK, IInv, TypeOK, Overlay
<1>3. HistoryOK' /\ SnapInv'
  BY <1>1, PushNow, Zenon DEF LoadExample, IInv
<1>4. ops' \in Nat BY <1>1 DEF IInv, TypeOK
<1>5. link' \in Link /\ savedOverlay' \in Store
  BY <1>1, <1>2, EmptyIsOverlay DEF Link, Store, EditorOK, IInv, TypeOK
<1>6. RestOK' BY <1>1, <1>4, <1>5, Zenon DEF RestOK, IInv, TypeOK
<1> QED BY <1>1, <1>2, <1>3, <1>6, Started, Zenon

LEMMA DragStartStep == ASSUME IInv, NEW S \in SUBSET Node, DragStart(S) PROVE IInv'
<1>1. /\ dragging' = S /\ dragRecorded' = FALSE /\ ops' = ops + 1
      /\ UNCHANGED <<text, overlay, undoStack, redoStack, typing, lastText, typingTimer, seq,
                     inflight, valid, scene, restoring, enabled, activeId, loadedId, cooldown,
                     queued, armed, saved, savedOverlay, link, reloads>>
  BY Zenon DEF DragStart, Op, editor, history, renders, ids, timing, stored
<1>2. EditorOK' /\ HistoryOK' /\ SnapInv'
  BY <1>1, Zenon DEF EditorOK, HistoryOK, SnapInv, IInv, TypeOK
<1>3. ops' \in Nat BY <1>1 DEF IInv, TypeOK
<1>4. RestOK' BY <1>1, <1>3, Zenon DEF RestOK, IInv, TypeOK
<1> QED BY <1>1, <1>2, <1>4, Rested, Zenon

LEMMA DragMoveStep == ASSUME IInv, DragMove PROVE IInv'
<1>1. /\ overlay' = Pinned(overlay, dragging) /\ dragRecorded' = TRUE
      /\ UNCHANGED <<text, seq, inflight, valid, scene, restoring, enabled, dragging, activeId,
                     loadedId, cooldown, queued, armed, saved, savedOverlay, link, ops, reloads>>
  BY Zenon DEF DragMove, renders, ids, timing, stored
<1>2. overlay \in Overlay BY Zenon DEF IInv, TypeOK
<1>3. EditorOK' BY <1>1, <1>2, PinnedOverlay, Zenon DEF EditorOK, IInv, TypeOK
<1>4. HistoryOK' /\ SnapInv'
  <2>1. CASE dragRecorded
    <3>1. UNCHANGED <<undoStack, redoStack, typing, lastText, typingTimer>>
      BY <2>1, Zenon DEF DragMove, history
    <3> QED BY <1>1, <3>1, Zenon DEF HistoryOK, SnapInv, IInv, TypeOK
  <2>2. CASE ~dragRecorded
    <3>1. Record(Now) BY <2>2, Zenon DEF DragMove
    <3> QED BY <1>1, <3>1, NowIsEntry, RecordTypes, Zenon DEF HistoryOK, SnapInv, IInv, TypeOK
  <2> QED BY <2>1, <2>2
<1>5. RestOK' BY <1>1, Zenon DEF RestOK, IInv, TypeOK
<1> QED BY <1>1, <1>3, <1>4, <1>5, Rested, Zenon

LEMMA DragOverStep == ASSUME IInv, DragEnd \/ Pinch PROVE IInv'
<1>1. /\ dragging' = {} /\ dragRecorded' = FALSE
      /\ savedOverlay' \in {savedOverlay, [overlay |-> overlay, identity |-> scene]}
      /\ UNCHANGED <<text, overlay, undoStack, redoStack, typing, lastText, typingTimer, seq,
                     inflight, valid, scene, restoring, enabled, activeId, loadedId, cooldown,
                     queued, armed, saved, link, ops, reloads>>
  BY Zenon DEF DragEnd, Pinch, DragOver, Persist, editor, history, renders, ids, timing
<1>2. EditorOK' /\ HistoryOK' /\ SnapInv'
  BY <1>1, Zenon DEF EditorOK, HistoryOK, SnapInv, IInv, TypeOK
<1>3. savedOverlay' \in Store BY <1>1 DEF Store, IInv, TypeOK
<1>4. dragging' \in SUBSET Node /\ dragRecorded' \in BOOLEAN BY <1>1
<1>5. RestOK' BY <1>1, <1>3, <1>4, Zenon DEF RestOK, IInv, TypeOK
<1> QED BY <1>1, <1>2, <1>5, Rested, Zenon

LEMMA GroupNodesStep == ASSUME IInv, NEW S \in SUBSET Node, GroupNodes(S) PROVE IInv'
<1> DEFINE next == [overlay EXCEPT !.group = S]
<1>1. /\ Op /\ scene # None /\ S \subseteq Nodes[scene] /\ EditOverlay(next)
      /\ UNCHANGED <<renders, enabled, saved, cooldown, queued>>
  BY Zenon DEF GroupNodes, EditOverlay, timing
<1>2. next \in Overlay BY DEF IInv, TypeOK, Overlay
<1>3. EditorOK' /\ HistoryOK' /\ RestOK' /\ SnapInv' /\ text' = text /\ armed' = armed
  BY <1>1, <1>2, Edited, Zenon
<1>4. overlay' = next /\ UNCHANGED <<seq, inflight, valid, scene, restoring, enabled, saved, queued>>
  BY <1>1, Zenon DEF EditOverlay, renders
<1> QED BY <1>3, <1>4, Rested, Zenon

LEMMA RelaxStep == ASSUME IInv, Relax PROVE IInv'
<1> DEFINE next == [overlay EXCEPT !.pos = [n \in Node |->
               IF n \in Nodes[scene] /\ @[n] # "pinned" THEN "free"
               ELSE IF @[n] = "pinned" THEN @[n] ELSE "none"]]
<1>1. /\ Op /\ EditOverlay(next) /\ UNCHANGED <<renders, enabled, saved, cooldown, queued>>
  BY Zenon DEF Relax, EditOverlay, timing
<1>2. next \in Overlay BY DEF IInv, TypeOK, Overlay
<1>3. EditorOK' /\ HistoryOK' /\ RestOK' /\ SnapInv' /\ text' = text /\ armed' = armed
  BY <1>1, <1>2, Edited, Zenon
<1>4. overlay' = next /\ UNCHANGED <<seq, inflight, valid, scene, restoring, enabled, saved, queued>>
  BY <1>1, Zenon DEF EditOverlay, renders
<1> QED BY <1>3, <1>4, Rested, Zenon

LEMMA TogglePinStep == ASSUME IInv, NEW n \in Node, TogglePin(n) PROVE IInv'
<1> DEFINE next == [overlay EXCEPT !.pos[n] = IF @ = "pinned" THEN "free" ELSE "pinned"]
<1>1. /\ Op /\ n \in Nodes[scene] /\ EditOverlay(next)
      /\ UNCHANGED <<renders, enabled, saved, cooldown, queued>>
  BY Zenon DEF TogglePin, EditOverlay, timing
<1>2. next \in Overlay BY DEF IInv, TypeOK, Overlay
<1>3. EditorOK' /\ HistoryOK' /\ RestOK' /\ SnapInv' /\ text' = text /\ armed' = armed
  BY <1>1, <1>2, Edited, Zenon
<1>4. overlay' = next /\ UNCHANGED <<seq, inflight, valid, scene, restoring, enabled, saved, queued>>
  BY <1>1, Zenon DEF EditOverlay, renders
<1> QED BY <1>3, <1>4, Rested, Zenon

LEMMA ResetPositionsStep == ASSUME IInv, ResetPositions PROVE IInv'
<1> DEFINE next == [overlay EXCEPT !.pos = Empty.pos]
<1>1. /\ Op /\ EditOverlay(next) /\ StartRender(text, FALSE)
      /\ UNCHANGED <<cooldown, queued>>
  BY Zenon DEF ResetPositions, EditOverlay, timing
<1>2. next \in Overlay BY EmptyIsOverlay DEF IInv, TypeOK, Overlay
<1>3. EditorOK' /\ HistoryOK' /\ RestOK' /\ SnapInv' /\ text' = text
  BY <1>1, <1>2, Edited, Zenon
<1>4. text \in Text BY Zenon DEF IInv, TypeOK
<1> QED BY <1>1, <1>3, <1>4, Started, Zenon

LEMMA RegenerateStep == ASSUME IInv, Regenerate PROVE IInv'
<1> DEFINE next == PinnedOverrides(overlay)
<1>1. /\ overlay' = next /\ savedOverlay' = [overlay |-> next, identity |-> scene]
      /\ UNCHANGED <<text, armed, undoStack, redoStack, typing, lastText, typingTimer,
                     activeId, loadedId, cooldown, queued, link, reloads, dragging, dragRecorded>>
      /\ ops' = ops + 1 /\ StartRender(text, FALSE)
  BY Zenon DEF Regenerate, Op, Persist, history, drag, ids, timing
<1>2. next \in Overlay BY DEF IInv, TypeOK, Overlay, PinnedOverrides
<1> HIDE DEF next
<1>3. EditorOK' BY <1>1, <1>2 DEF EditorOK, IInv, TypeOK
<1>4. HistoryOK' /\ SnapInv' BY <1>1, Zenon DEF HistoryOK, SnapInv, IInv, TypeOK
<1>5. savedOverlay' \in Store /\ ops' \in Nat BY <1>1, <1>2 DEF Store, IInv, TypeOK
<1>6. RestOK' BY <1>1, <1>5, Zenon DEF RestOK, IInv, TypeOK
<1>7. text \in Text BY Zenon DEF IInv, TypeOK
<1> QED BY <1>1, <1>3, <1>4, <1>6, <1>7, Started, Zenon

LEMMA RerenderStep == ASSUME IInv, Rerender PROVE IInv'
<1>1. /\ UNCHANGED <<text, overlay, armed, undoStack, redoStack, typing, lastText,
                     typingTimer, activeId, loadedId, cooldown, queued, savedOverlay, link, reloads,
                     dragging, dragRecorded>>
      /\ ops' = ops + 1 /\ StartRender(text, FALSE)
  BY Zenon DEF Rerender, Op, editor, history, drag, ids, timing
<1>2. EditorOK' BY <1>1, Zenon DEF EditorOK, IInv, TypeOK
<1>3. HistoryOK' /\ SnapInv' BY <1>1, Zenon DEF HistoryOK, SnapInv, IInv, TypeOK
<1>4. ops' \in Nat BY <1>1 DEF IInv, TypeOK
<1>5. RestOK' BY <1>1, <1>4, Zenon DEF RestOK, IInv, TypeOK
<1>6. text \in Text BY Zenon DEF IInv, TypeOK
<1> QED BY <1>1, <1>2, <1>3, <1>5, <1>6, Started, Zenon

LEMMA ShareStep == ASSUME IInv, Share PROVE IInv'
<1>1. /\ UNCHANGED <<text, overlay, armed, undoStack, redoStack, typing, lastText,
                     typingTimer, activeId, loadedId, cooldown, queued, savedOverlay, reloads,
                     seq, inflight, valid, scene, restoring, enabled, saved, dragging, dragRecorded>>
      /\ ops' = ops + 1 /\ link' = [text |-> text, overlay |-> overlay, identity |-> scene]
  BY Zenon DEF Share, Op, editor, history, renders, drag, ids, timing, stored
<1>2. EditorOK' BY <1>1, Zenon DEF EditorOK, IInv, TypeOK
<1>3. HistoryOK' /\ SnapInv' BY <1>1, Zenon DEF HistoryOK, SnapInv, IInv, TypeOK
<1>4. ops' \in Nat /\ link' \in Link BY <1>1 DEF Link, IInv, TypeOK
<1>5. RestOK' BY <1>1, <1>4, Zenon DEF RestOK, IInv, TypeOK
<1> QED BY <1>1, <1>2, <1>3, <1>5, Rested, Zenon

(* An undo or a redo of entry e, which leaves the stacks u and d.          *)
LEMMA RestoreStep ==
    ASSUME IInv, NEW e \in Entry, Restore(e),
           undoStack' \in Seq(Entry), redoStack' \in Seq(Entry),
           Len(undoStack') + Len(redoStack') <= HistoryCap
    PROVE  IInv'
<1>1. /\ text' = e.text /\ overlay' = e.overlay /\ lastText' = e.text /\ typing' = FALSE
      /\ savedOverlay' = [overlay |-> e.overlay, identity |-> scene]
      /\ armed' = (armed \/ text # e.text)
      /\ UNCHANGED <<typingTimer, activeId, loadedId, cooldown, queued, link, reloads,
                     dragging, dragRecorded>>
      /\ ops' = ops + 1 /\ StartRender(e.text, TRUE)
  BY Zenon DEF Restore, Op, Persist, drag, ids, timing
<1>2. e.text \in Text /\ e.overlay \in Overlay BY DEF Entry
<1>3. EditorOK' BY <1>1, <1>2, Zenon DEF EditorOK
<1>4. HistoryOK' /\ SnapInv' BY <1>1, <1>2, Zenon DEF HistoryOK, SnapInv, IInv, TypeOK
<1>5. savedOverlay' \in Store /\ ops' \in Nat BY <1>1, <1>2 DEF Store, IInv, TypeOK
<1>6. armed' \in BOOLEAN BY <1>1, Zenon
<1>7. RestOK' BY <1>1, <1>5, <1>6, Zenon DEF RestOK, IInv, TypeOK
<1> QED BY <1>1, <1>2, <1>3, <1>4, <1>7, Started, Zenon

LEMMA UndoStep == ASSUME IInv, Undo PROVE IInv'
<1> DEFINE e == undoStack[Len(undoStack)]
<1>1. /\ undoStack # << >> /\ redoStack' = Append(redoStack, Now) /\ Restore(e)
      /\ undoStack' = SubSeq(undoStack, 1, Len(undoStack) - 1)
  BY Zenon DEF Undo
<1>2. undoStack \in Seq(Entry) /\ redoStack \in Seq(Entry) /\ Now \in Entry
      /\ Len(undoStack) + Len(redoStack) <= HistoryCap
  BY NowIsEntry, Zenon DEF IInv, TypeOK
<1>3. e \in Entry /\ undoStack' \in Seq(Entry) /\ Len(undoStack') = Len(undoStack) - 1
  BY <1>1, <1>2, PopFacts, Zenon
<1>4. redoStack' \in Seq(Entry) /\ Len(redoStack') = Len(redoStack) + 1
  BY <1>1, <1>2, AppendProperties, Zenon
<1>5. Len(undoStack) \in Nat /\ Len(redoStack) \in Nat /\ HistoryCap \in Nat
  BY <1>2, HistoryAssumption
<1>6. Len(undoStack') + Len(redoStack') <= HistoryCap BY <1>2, <1>3, <1>4, <1>5
<1> QED BY <1>1, <1>3, <1>4, <1>6, RestoreStep, Zenon

LEMMA RedoStep == ASSUME IInv, Redo PROVE IInv'
<1> DEFINE e == redoStack[Len(redoStack)]
<1>1. /\ redoStack # << >> /\ undoStack' = Append(undoStack, Now) /\ Restore(e)
      /\ redoStack' = SubSeq(redoStack, 1, Len(redoStack) - 1)
  BY Zenon DEF Redo
<1>2. undoStack \in Seq(Entry) /\ redoStack \in Seq(Entry) /\ Now \in Entry
      /\ Len(undoStack) + Len(redoStack) <= HistoryCap
  BY NowIsEntry, Zenon DEF IInv, TypeOK
<1>3. e \in Entry /\ redoStack' \in Seq(Entry) /\ Len(redoStack') = Len(redoStack) - 1
  BY <1>1, <1>2, PopFacts, Zenon
<1>4. undoStack' \in Seq(Entry) /\ Len(undoStack') = Len(undoStack) + 1
  BY <1>1, <1>2, AppendProperties, Zenon
<1>5. Len(undoStack) \in Nat /\ Len(redoStack) \in Nat /\ HistoryCap \in Nat
  BY <1>2, HistoryAssumption
<1>6. Len(undoStack') + Len(redoStack') <= HistoryCap BY <1>2, <1>3, <1>4, <1>5
<1> QED BY <1>1, <1>3, <1>4, <1>6, RestoreStep, Zenon

(* The first render of a page, and the state of a page just loaded.        *)
LEMMA FirstFacts ==
    ASSUME NEW t \in Text
    PROVE  /\ FirstRender(t) \in SUBSET Renders
           /\ \A r \in FirstRender(t) : r.seq = 1 /\ r.stage = "layout" /\ r.text = t
           /\ Kind[t] = "ok" => FirstRender(t) # {}
<1> DEFINE new == [seq |-> 1, text |-> t, stage |-> "layout", restore |-> FALSE, place |-> None]
<1>1. new \in Renders BY DEF Renders
<1>2. FirstRender(t) = {new} \/ FirstRender(t) = {} BY DEF FirstRender
<1>3. Kind[t] = "ok" => FirstRender(t) = {new} BY DEF FirstRender, Waits
<1>4. new.seq = 1 /\ new.stage = "layout" /\ new.text = t OBVIOUS
<1> HIDE DEF new
<1> QED BY <1>1, <1>2, <1>3, <1>4, Zenon

LEMMA ReloadStep == ASSUME IInv, Reload PROVE IInv'
<1> DEFINE o == BootOverlay(link, savedOverlay)
<1>1. /\ reloads' = reloads + 1 /\ text' = BootText(link, saved)
      /\ overlay' = o.overlay /\ activeId' = o.identity /\ loadedId' = o.identity
      /\ undoStack' = << >> /\ redoStack' = << >>
      /\ typing' = FALSE /\ typingTimer' = FALSE /\ lastText' = text'
      /\ seq' = 1 /\ valid' = FALSE /\ scene' = None /\ restoring' = FALSE
      /\ inflight' = FirstRender(text') /\ cooldown' = FALSE /\ queued' = FALSE
      /\ enabled' = TRUE /\ dragging' = {} /\ dragRecorded' = FALSE
      /\ armed' = (link = None) /\ UNCHANGED <<saved, savedOverlay, link, ops>>
  BY Zenon DEF Reload, stored
<1>2. text' \in Text /\ o.overlay \in Overlay /\ o.identity \in Text \cup {None}
  BY <1>1 DEF BootText, BootOverlay, Link, Store, IInv, TypeOK
<1>3. EditorOK' BY <1>1, <1>2, Zenon DEF EditorOK
<1>4. undoStack' \in Seq(Entry) /\ redoStack' \in Seq(Entry)
      /\ Len(undoStack') + Len(redoStack') <= HistoryCap
  <2>1. Len(undoStack') = 0 /\ Len(redoStack') = 0 BY <1>1, EmptySeq
  <2>2. Len(undoStack') + Len(redoStack') <= HistoryCap BY <2>1, HistoryAssumption
  <2> QED BY <1>1, <2>2, EmptySeq, Zenon
<1>5. HistoryOK' /\ SnapInv' BY <1>1, <1>2, <1>4, Zenon DEF HistoryOK, SnapInv
<1>6. reloads' \in Nat BY <1>1 DEF IInv, TypeOK
<1>7. armed' \in BOOLEAN BY <1>1, Zenon
<1>11. dragging' \in SUBSET Node BY <1>1
<1>8. RestOK' BY <1>1, <1>2, <1>6, <1>7, <1>11, Zenon DEF RestOK, IInv, TypeOK
<1>9. RenderOK' /\ RenderInv'
  <2>1. /\ inflight' \in SUBSET Renders
        /\ \A r \in inflight' : r.seq = 1 /\ r.stage = "layout" /\ r.text = text'
        /\ Kind[text'] = "ok" => inflight' # {}
    BY <1>1, <1>2, FirstFacts, Zenon
  <2>2. RenderOK' BY <1>1, <2>1 DEF RenderOK, IInv, TypeOK
  <2>3. \A r \in inflight' : Laying(r)' BY <1>1, <2>1 DEF Laying, Current
  <2>4. RenderInv' BY <1>1, <2>1, <2>3 DEF RenderInv
  <2> QED BY <2>2, <2>4
<1>10. OwnTextSaved' BY <1>1, Zenon DEF OwnTextSaved, BootText
<1> QED BY <1>3, <1>5, <1>8, <1>9, <1>10, TypePartsNext, Zenon DEF IInv

-----------------------------------------------------------------------------
(* The ends of renders, and the timers.                                    *)

(* A render that ends without being shown was not the current one, or its  *)
(* text does not lay out.                                                  *)
LEMMA EndFacts ==
    ASSUME TypeOK, NEW r \in inflight, Ends(r)
    PROVE  /\ inflight' = inflight \ {r} /\ inflight' \in SUBSET Renders /\ restoring' \in BOOLEAN
           /\ overlay' \in Overlay /\ savedOverlay' \in Store
<1>1. inflight' = inflight \ {r} /\ restoring' = (restoring /\ ~r.restore) /\ Placed(r.place)
  BY Zenon DEF Ends
<1>2. inflight' \in SUBSET Renders BY <1>1, Zenon DEF TypeOK
<1>3. restoring' \in BOOLEAN BY <1>1, Zenon
<1>4. overlay' \in Overlay /\ savedOverlay' \in Store BY <1>1, PlacedFacts, Zenon
<1> QED BY <1>1, <1>2, <1>3, <1>4

LEMMA LayoutDroppedStep == ASSUME IInv, NEW r \in inflight, LayoutDropped(r) PROVE IInv'
<1>1. /\ r.stage = "layout" /\ (~Current(r) \/ Kind[r.text] = "unlayable") /\ Ends(r)
      /\ enabled' \in BOOLEAN
      /\ UNCHANGED <<text, undoStack, redoStack, typing, lastText, typingTimer, seq,
                     valid, scene, dragging, dragRecorded, activeId, loadedId, cooldown, queued,
                     armed, saved, link, ops, reloads>>
  BY Zenon DEF LayoutDropped, history, drag, ids, timing
<1>2. /\ inflight' = inflight \ {r} /\ inflight' \in SUBSET Renders /\ restoring' \in BOOLEAN
      /\ overlay' \in Overlay /\ savedOverlay' \in Store
  BY <1>1, EndFacts, Zenon DEF IInv
<1>3. TypeOK' BY <1>1, <1>2, Zenon DEF IInv, TypeOK
<1>4. RenderInv'
  <2>1. \A s \in inflight' : s.seq <= seq' BY <1>1, <1>2, Zenon DEF IInv, RenderInv
  <2>2. ~queued' => \A s \in inflight' : Current(s)' => s.text = text'
    BY <1>1, <1>2, Zenon DEF IInv, RenderInv, Current
  <2>3. ASSUME ~queued', Kind[text'] = "ok"
        PROVE  (valid' /\ scene' = text') \/ \E s \in inflight' : Laying(s)'
    <3>1. ~queued /\ Kind[text] = "ok" BY <1>1, <2>3, Zenon
    <3>2. CASE valid /\ scene = text BY <1>1, <3>2, Zenon
    <3>3. CASE \E s \in inflight : Laying(s)
      <4>1. PICK s \in inflight : Laying(s) BY <3>3
      <4>2. s.text = text BY <3>1, <4>1, Zenon DEF IInv, RenderInv, Laying
      <4>3. s # r
        <5>1. Kind[s.text] # "unlayable" BY <3>1, <4>2
        <5> QED BY <1>1, <4>1, <5>1, Zenon DEF Laying
      <4>4. s \in inflight' /\ Laying(s)' BY <1>1, <1>2, <4>1, <4>3, Zenon DEF Laying, Current
      <4> QED BY <4>4
    <3> QED BY <3>1, <3>2, <3>3, Zenon DEF IInv, RenderInv
  <2> QED BY <2>1, <2>2, <2>3, Zenon DEF RenderInv
<1>5. OwnTextSaved' /\ SnapInv' BY <1>1, Zenon DEF OwnTextSaved, SnapInv, IInv
<1> QED BY <1>3, <1>4, <1>5, Zenon DEF IInv

LEMMA IconsDoneStep == ASSUME IInv, NEW r \in inflight, IconsDone(r) PROVE IInv'
<1>1. /\ r.stage = "icons" /\ Ends(r)
      /\ UNCHANGED <<text, undoStack, redoStack, typing, lastText, typingTimer, seq,
                     valid, scene, enabled, dragging, dragRecorded, activeId, loadedId, cooldown,
                     queued, armed, saved, link, ops, reloads>>
  BY Zenon DEF IconsDone, history, drag, ids, timing
<1>2. /\ inflight' = inflight \ {r} /\ inflight' \in SUBSET Renders /\ restoring' \in BOOLEAN
      /\ overlay' \in Overlay /\ savedOverlay' \in Store
  BY <1>1, EndFacts, Zenon DEF IInv
<1>3. TypeOK'
  <2>1. EditorOK' BY <1>1, <1>2, Zenon DEF EditorOK, IInv, TypeOK
  <2>2. HistoryOK' BY <1>1, Zenon DEF HistoryOK, IInv, TypeOK
  <2>3. RenderOK' BY <1>1, <1>2, Zenon DEF RenderOK, IInv, TypeOK
  <2>4. RestOK' BY <1>1, <1>2, Zenon DEF RestOK, IInv, TypeOK
  <2> QED BY <2>1, <2>2, <2>3, <2>4, TypePartsNext, Zenon
<1>4. ~Laying(r) BY <1>1 DEF Laying
<1>5. \A s \in inflight : Laying(s) => s \in inflight' /\ Laying(s)'
  BY <1>1, <1>2, <1>4, Zenon DEF Laying, Current
<1>6. RenderInv'
  BY <1>1, <1>2, <1>5, Zenon DEF IInv, RenderInv, Current
<1>7. OwnTextSaved' /\ SnapInv' BY <1>1, Zenon DEF OwnTextSaved, SnapInv, IInv
<1> QED BY <1>3, <1>6, <1>7, Zenon DEF IInv

LEMMA CooldownEndsStep == ASSUME IInv, CooldownEnds PROVE IInv'
<1>1. UNCHANGED <<text, overlay, undoStack, redoStack, typing, lastText, typingTimer,
                  dragging, dragRecorded, activeId, loadedId, armed, savedOverlay, link, ops,
                  reloads>>
  BY Zenon DEF CooldownEnds, editor, history, drag, ids
<1>2. EditorOK' /\ HistoryOK' /\ SnapInv'
  BY <1>1, Zenon DEF EditorOK, HistoryOK, SnapInv, IInv, TypeOK
<1>3. CASE queued
  <2>1. queued' = FALSE /\ cooldown' = cooldown /\ StartRender(text, FALSE)
    BY <1>3, Zenon DEF CooldownEnds, TrailingRender
  <2>2. RestOK' BY <1>1, <2>1, Zenon DEF RestOK, IInv, TypeOK
  <2>3. text \in Text BY Zenon DEF IInv, TypeOK
  <2> QED BY <1>1, <1>2, <2>1, <2>2, <2>3, Started, Zenon
<1>4. CASE ~queued
  <2>1. /\ cooldown' = FALSE /\ queued' = queued
        /\ UNCHANGED <<seq, inflight, valid, scene, restoring, enabled, saved>>
    BY <1>4, Zenon DEF CooldownEnds, TrailingRender, renders
  <2>2. RestOK' BY <1>1, <2>1, Zenon DEF RestOK, IInv, TypeOK
  <2> QED BY <1>1, <1>2, <2>1, <2>2, Rested, Zenon
<1> QED BY <1>3, <1>4

LEMMA TypingEndsStep == ASSUME IInv, TypingEnds PROVE IInv'
<1>1. /\ typing' = FALSE /\ typingTimer' = FALSE /\ lastText' = text
      /\ UNCHANGED <<text, overlay, undoStack, redoStack, seq, inflight, valid, scene,
                     restoring, enabled, dragging, dragRecorded, activeId, loadedId, cooldown,
                     queued, armed, saved, savedOverlay, link, ops, reloads>>
  BY Zenon DEF TypingEnds, editor, renders, drag, ids, timing, stored
<1>2. EditorOK' /\ HistoryOK' /\ RestOK' /\ SnapInv'
  BY <1>1, Zenon DEF EditorOK, HistoryOK, RestOK, SnapInv, IInv, TypeOK
<1> QED BY <1>1, <1>2, Rested, Zenon

(* The overlay a render leaves speaks of the nodes of its diagram only.    *)
LEMMA PublishedOverlay ==
    ASSUME NEW o \in Overlay, NEW live \in SUBSET Node, NEW kept \in {Empty, LiveGroup(o, live)}
    PROVE  /\ kept \in Overlay /\ LivePos(kept, live) \in Overlay
           /\ Overridden(LivePos(kept, live)) \subseteq live
           /\ LivePos(kept, live).group \subseteq live
           /\ kept.group \subseteq live /\ LivePos(kept, live).group = kept.group
           /\ \A n \in Node : LivePos(kept, live).pos[n] \in {kept.pos[n], "none"}
           /\ kept = LiveGroup(o, live) => kept.pos = o.pos /\ kept.group \subseteq o.group
<1>1. kept \in Overlay BY EmptyIsOverlay DEF LiveGroup, Overlay
<1>2. kept.group \subseteq live BY DEF LiveGroup, Empty, Overlay
<1>3. LivePos(kept, live) \in Overlay /\ LivePos(kept, live).group = kept.group
  BY <1>1 DEF LivePos, Overlay
<1>4. Overridden(LivePos(kept, live)) \subseteq live
  BY <1>1 DEF LivePos, Overlay, Overridden
<1>5. \A n \in Node : LivePos(kept, live).pos[n] \in {kept.pos[n], "none"}
  BY <1>1 DEF LivePos, Overlay
<1>6. kept = LiveGroup(o, live) => kept.pos = o.pos /\ kept.group \subseteq o.group
  BY DEF LiveGroup, Overlay
<1> QED BY <1>1, <1>2, <1>3, <1>4, <1>5, <1>6

LEMMA PublishStep == ASSUME IInv, NEW r \in inflight, Publish(r) PROVE IInv'
<1> DEFINE live == Nodes[r.text]
           kept == IF Wipes(r) THEN Empty ELSE LiveGroup(overlay, live)
           next == LivePos(kept, live)
           shown == [r EXCEPT !.stage = "icons"]
<1>1. /\ r.stage = "layout" /\ Current(r) /\ valid' = TRUE /\ scene' = r.text
      /\ activeId' = r.text /\ loadedId' = None /\ overlay' = next /\ enabled' = TRUE
      /\ inflight' = (inflight \ {r}) \cup {shown}
      /\ UNCHANGED <<text, seq, restoring, dragging, dragRecorded, cooldown, queued, armed, saved,
                     link, ops, reloads>>
  BY Zenon DEF Publish, drag, timing
<1>2. r.text \in Text /\ live \in SUBSET Node
  BY HistoryAssumption DEF IInv, TypeOK, Renders
<1>3. /\ kept \in Overlay /\ next \in Overlay /\ kept.group \subseteq live
      /\ Overridden(next) \subseteq live /\ next.group \subseteq live
  <2>1. overlay \in Overlay BY DEF IInv, TypeOK
  <2>2. kept \in {Empty, LiveGroup(overlay, live)} BY Zenon
  <2> HIDE DEF live, kept
  <2>3. /\ kept \in Overlay /\ LivePos(kept, live) \in Overlay
        /\ Overridden(LivePos(kept, live)) \subseteq live
        /\ LivePos(kept, live).group \subseteq live /\ kept.group \subseteq live
    BY <1>2, <2>1, <2>2, PublishedOverlay
  <2> QED BY <2>3
<1>4. EditorOK' BY <1>1, <1>3, Zenon DEF EditorOK, IInv, TypeOK
<1>5. HistoryOK' /\ SnapInv'
  <2>1. ASSUME NEW e \in Entry, Record(e) PROVE HistoryOK' /\ SnapInv'
    BY <1>1, <2>1, RecordTypes, Zenon DEF HistoryOK, SnapInv, IInv, TypeOK
  <2>2. CASE Wipes(r)
    BY <2>1, <2>2, NowIsEntry, Zenon DEF Publish, IInv
  <2>3. CASE ~Wipes(r) /\ next # kept
    <3>1. [text |-> text, overlay |-> kept] \in Entry BY <1>3 DEF Entry, IInv, TypeOK
    <3>2. Record([text |-> text, overlay |-> kept]) BY <2>3, Zenon DEF Publish
    <3> QED BY <2>1, <3>1, <3>2, Zenon
  <2>4. CASE ~Wipes(r) /\ next = kept
    <3>1. UNCHANGED <<undoStack, redoStack, typing, lastText, typingTimer>>
      BY <2>4, Zenon DEF Publish, history
    <3> QED BY <1>1, <3>1, Zenon DEF HistoryOK, SnapInv, IInv, TypeOK
  <2> QED BY <2>2, <2>3, <2>4
<1>6. savedOverlay' \in Store
  <2>1. savedOverlay' = savedOverlay \/ savedOverlay' = [overlay |-> next, identity |-> r.text]
    BY Zenon DEF Publish, Persist
  <2>2. [overlay |-> next, identity |-> r.text] \in Store BY <1>2, <1>3 DEF Store
  <2> QED BY <2>1, <2>2, Zenon DEF IInv, TypeOK
<1>7. RestOK' BY <1>1, <1>2, <1>6, Zenon DEF RestOK, IInv, TypeOK
<1>8. shown \in Renders /\ shown.seq = r.seq /\ shown.text = r.text
  BY DEF IInv, TypeOK, Renders
<1>9. RenderOK' BY <1>1, <1>2, <1>8, Zenon DEF RenderOK, IInv, TypeOK
<1>10. RenderInv'
  <2>1. \A s \in inflight' : s.seq <= seq'
    BY <1>1, <1>8, Zenon DEF IInv, RenderInv
  <2>2. ~queued' => \A s \in inflight' : Current(s)' => s.text = text'
    BY <1>1, <1>8, Zenon DEF IInv, RenderInv, Current
  <2>3. ~queued' => valid' /\ scene' = text'
    BY <1>1, Zenon DEF IInv, RenderInv, Current
  <2> QED BY <2>1, <2>2, <2>3, Zenon DEF RenderInv
<1>11. OwnTextSaved' BY <1>1, Zenon DEF OwnTextSaved, IInv
<1> QED BY <1>4, <1>5, <1>7, <1>9, <1>10, <1>11, TypePartsNext, Zenon DEF IInv

-----------------------------------------------------------------------------
(* The invariant.                                                          *)

LEMMA InitIInv == Init => IInv
<1> SUFFICES ASSUME Init PROVE IInv OBVIOUS
<1>1. /\ text \in Text /\ link \in Link \cup {None}
      /\ (link = None => text = Sample)
  BY HistoryAssumption, EmptyIsOverlay DEF Init, BootText, Link
<1>2. overlay \in Overlay /\ savedOverlay \in Store
  BY EmptyIsOverlay DEF Init, NoStore, Store
<1>3. /\ inflight \in SUBSET Renders
      /\ \A r \in inflight : r.seq = 1 /\ r.stage = "layout" /\ r.text = text
      /\ Kind[text] = "ok" => inflight # {}
  BY <1>1, FirstFacts, Zenon DEF Init
<1>4. HistoryOK
  <2>1. Len(undoStack) = 0 /\ Len(redoStack) = 0 BY EmptySeq DEF Init
  <2>2. Len(undoStack) + Len(redoStack) <= HistoryCap BY <2>1, HistoryAssumption
  <2>3. undoStack = << >> /\ redoStack = << >> /\ typing = FALSE /\ typingTimer = FALSE
        /\ lastText = text
    BY Zenon DEF Init
  <2> QED BY <1>1, <2>2, <2>3, EmptySeq, Zenon DEF HistoryOK
<1>5. EditorOK BY <1>1, <1>2, Zenon DEF EditorOK
<1>6. RenderOK
  <2>1. seq \in Nat /\ saved \in Text BY HistoryAssumption DEF Init
  <2> QED BY <1>3, <2>1, Zenon DEF RenderOK, Init
<1>7. RestOK
  <2>1. ops \in Nat /\ reloads \in Nat BY DEF Init
  <2>2. armed \in BOOLEAN BY Zenon DEF Init
  <2>3. dragging \in SUBSET Node BY DEF Init
  <2> QED BY <1>1, <1>2, <2>1, <2>2, <2>3, Zenon DEF RestOK, Init
<1>8. RenderInv
  <2>1. seq = 1 BY DEF Init
  <2> QED BY <1>3, <2>1 DEF RenderInv, Laying, Current
<1>9. SnapInv BY Zenon DEF Init, SnapInv
<1>10. OwnTextSaved BY <1>1, Zenon DEF Init, OwnTextSaved
<1> QED BY <1>4, <1>5, <1>6, <1>7, <1>8, <1>9, <1>10, TypeParts, Zenon DEF IInv

LEMMA StutterStep == ASSUME IInv, UNCHANGED vars PROVE IInv'
<1>1. UNCHANGED <<text, overlay, undoStack, redoStack, typing, lastText, typingTimer, seq,
                  inflight, valid, scene, restoring, enabled, dragging, dragRecorded, activeId,
                  loadedId, cooldown, queued, armed, saved, savedOverlay, link, ops, reloads>>
  BY Zenon DEF vars, editor, history, renders, drag, ids, timing, stored
<1>2. EditorOK' /\ HistoryOK' /\ RestOK' /\ SnapInv'
  BY <1>1, Zenon DEF EditorOK, HistoryOK, RestOK, SnapInv, IInv, TypeOK
<1> QED BY <1>1, <1>2, Rested, Zenon

LEMMA IInvStep == IInv /\ [Next]_vars => IInv'
<1> SUFFICES ASSUME IInv, [Next]_vars PROVE IInv' OBVIOUS
<1>1. ASSUME NEW t \in Text, Type(t) \/ EditSource(t) \/ LoadExample(t) PROVE IInv'
  BY <1>1, TypeStep, EditSourceStep, LoadExampleStep, Zenon
<1>2. ASSUME NEW n \in Node, TogglePin(n) PROVE IInv'
  BY <1>2, TogglePinStep, Zenon
<1>3. ASSUME NEW S \in SUBSET Node, DragStart(S) \/ GroupNodes(S) PROVE IInv'
  BY <1>3, DragStartStep, GroupNodesStep, Zenon
<1>9. ASSUME NEW t \in Text, NEW n \in Node, PlaceNode(t, n) PROVE IInv'
  BY <1>9, PlaceNodeStep, Zenon
<1>10. CASE DragMove \/ DragEnd \/ Pinch
  BY <1>10, DragMoveStep, DragOverStep, Zenon
<1>4. CASE Relax \/ ResetPositions \/ Regenerate \/ Rerender \/ Share
  BY <1>4, RelaxStep, ResetPositionsStep, RegenerateStep, RerenderStep, ShareStep, Zenon
<1>5. CASE Undo \/ Redo \/ Reload
  BY <1>5, UndoStep, RedoStep, ReloadStep, Zenon
<1>6. CASE LayoutEnds \/ IconsEnd
  BY <1>6, LayoutDroppedStep, PublishStep, IconsDoneStep, Zenon DEF LayoutEnds, IconsEnd
<1>7. CASE CooldownEnds \/ TypingEnds
  BY <1>7, CooldownEndsStep, TypingEndsStep, Zenon
<1>8. CASE UNCHANGED vars
  BY <1>8, StutterStep
<1> QED BY <1>1, <1>2, <1>3, <1>4, <1>5, <1>6, <1>7, <1>8, <1>9, <1>10, Zenon DEF Next, User

(* In every reachable state the variables have their types, the current    *)
(* render is of the editor's text and under way or shown, and the text is  *)
(* stored (renderFromText).                                                *)
THEOREM Invariant == Spec => []IInv
BY InitIInv, IInvStep, PTL DEF Spec

(* Every variable has its type, and the two stacks their bound.            *)
THEOREM TypesHold == Spec => []TypeOK
<1>1. IInv => TypeOK BY DEF IInv
<1> QED BY <1>1, Invariant, PTL

(* A layout that ends late never replaces a newer one: when nothing is     *)
(* under way the text of the editor is on show (renderSeq, main.ts).       *)
THEOREM LastTextHolds == Spec => []LastTextShown
<1>1. IInv => LastTextShown
  BY Zenon DEF IInv, RenderInv, LastTextShown, Quiet
<1> QED BY <1>1, Invariant, PTL

(* What the user has made is stored with the keystroke (saveSource).       *)
THEOREM OwnTextHolds == Spec => []OwnTextSaved
<1>1. IInv => OwnTextSaved BY DEF IInv
<1> QED BY <1>1, Invariant, PTL

-----------------------------------------------------------------------------
(* The refinement: every step is one of UndoHistory's.                     *)

LEMMA PushIsChange ==
    ASSUME TypeOK, NEW e \in Entry, e = Now \/ Forgets(Now, e),
           undoStack' = Capped(Append(undoStack, e)), redoStack' = << >>
    PROVE  History!Change
<1>1. Len(undoStack) <= HistoryCap /\ undoStack \in Seq(Entry)
  BY HistoryAssumption DEF TypeOK
<1>2. undoStack' # << >> /\ undoStack'[Len(undoStack')] = e
  BY <1>1, PushFacts
<1>3. Capped(Append(undoStack, e)) = History!Capped(Append(undoStack, e))
  BY DEF Capped, History!Capped
<1> QED BY <1>2, <1>3 DEF History!Change

LEMMA RecordIsChange ==
    ASSUME TypeOK, NEW e \in Entry, e = Now \/ Forgets(Now, e), Record(e)
    PROVE  History!Change
BY PushIsChange, Zenon DEF Record

(* A step opens no gesture if it begins no placing render and no drag.     *)
LEMMA NoneOpensFacts ==
    ASSUME typing' => typing, dragRecorded' => dragRecorded,
           \A r \in inflight' : r.place # None => \E q \in inflight : q.place # None
    PROVE  History!NoneOpens
BY Zenon DEF History!NoneOpens, Placing

LEMMA StartOpensNone ==
    ASSUME NEW t, NEW restore, StartRender(t, restore)
    PROVE  \A r \in inflight' : r.place # None => \E q \in inflight : q.place # None
BY DEF StartRender, BeginRender

LEMMA KeepRefines ==
    ASSUME UNCHANGED <<text, overlay, undoStack, redoStack>>, History!NoneOpens
    PROVE  History!Next
BY Zenon DEF History!Next, History!Amend, Now

LEMMA TypeRefines == ASSUME IInv, NEW t \in Text, Type(t) PROVE History!Next
<1>1. overlay' = overlay /\ UNCHANGED dragRecorded BY Zenon DEF Type, drag
<1>2. CASE typing
  <2>1. UNCHANGED <<undoStack, redoStack>> BY <1>2, Zenon DEF Type, RecordTypingStart
  <2>2. OnlyTypes(Now, Now') BY <1>1 DEF OnlyTypes, Now
  <2>3. \A r \in inflight' : r.place # None => \E q \in inflight : q.place # None
    <3>1. CASE cooldown BY <3>1, Zenon DEF Type, renders
    <3>2. CASE ~cooldown BY <3>2, StartOpensNone, Zenon DEF Type
    <3> QED BY <3>1, <3>2
  <2>4. History!NoneOpens BY <1>1, <1>2, <2>3, NoneOpensFacts, Zenon
  <2> QED BY <1>2, <2>1, <2>2, <2>4, Zenon DEF History!Next, History!Amend
<1>3. CASE ~typing
  <2>1. undoStack' = Capped(Append(undoStack, Now)) /\ redoStack' = << >>
    BY <1>3, Zenon DEF Type, RecordTypingStart, Now, SnapInv, IInv
  <2> QED BY <2>1, NowIsEntry, PushIsChange, Zenon DEF IInv, History!Next
<1> QED BY <1>2, <1>3

LEMMA EditRefines ==
    ASSUME IInv, NEW t, EditText(t) \/ LoadExample(t)
    PROVE  History!Next
<1>1. undoStack' = Capped(Append(undoStack, Now)) /\ redoStack' = << >>
  BY Zenon DEF EditText, LoadExample
<1> QED BY <1>1, NowIsEntry, PushIsChange, Zenon DEF IInv, History!Next

LEMMA RecordRefines == ASSUME IInv, Record(Now) PROVE History!Next
BY NowIsEntry, RecordIsChange, Zenon DEF IInv, History!Next

LEMMA DragStartRefines == ASSUME IInv, NEW S, DragStart(S) PROVE History!Next
<1>1. UNCHANGED <<text, overlay, undoStack, redoStack, typing, inflight>> /\ ~dragRecorded'
  BY Zenon DEF DragStart, editor, history, renders
<1> QED BY <1>1, NoneOpensFacts, KeepRefines, Zenon

LEMMA DragMoveRefines == ASSUME IInv, DragMove PROVE History!Next
<1>1. CASE dragRecorded
  <2>1. /\ UNCHANGED <<text, undoStack, redoStack, typing, inflight>>
        /\ overlay' = Pinned(overlay, dragging)
    BY <1>1, Zenon DEF DragMove, history, renders
  <2>2. overlay \in Overlay BY Zenon DEF IInv, TypeOK
  <2>3. OnlyPins(Now, Now') BY <2>1, <2>2, PinnedOverlay DEF OnlyPins, Now
  <2>4. Placing /\ History!NoneOpens BY <1>1, <2>1, NoneOpensFacts, Zenon DEF Placing
  <2> QED BY <2>1, <2>3, <2>4, Zenon DEF History!Next, History!Amend
<1>2. CASE ~dragRecorded
  <2>1. Record(Now) BY <1>2, Zenon DEF DragMove
  <2> QED BY <2>1, RecordRefines
<1> QED BY <1>1, <1>2

LEMMA DragOverRefines == ASSUME IInv, DragEnd \/ Pinch PROVE History!Next
<1>1. UNCHANGED <<text, overlay, undoStack, redoStack, typing, inflight>> /\ ~dragRecorded'
  BY Zenon DEF DragEnd, Pinch, DragOver, editor, history, renders
<1> QED BY <1>1, NoneOpensFacts, KeepRefines, Zenon

LEMMA RegenerateRefines == ASSUME IInv, Regenerate PROVE History!Next
<1>1. /\ overlay' = PinnedOverrides(overlay) /\ StartRender(text, FALSE)
      /\ UNCHANGED <<text, undoStack, redoStack, typing, dragRecorded>>
  BY Zenon DEF Regenerate, history, drag
<1>2. Forgets(Now, Now') BY <1>1 DEF Forgets, Now
<1>3. History!NoneOpens BY <1>1, StartOpensNone, NoneOpensFacts, Zenon
<1> QED BY <1>1, <1>2, <1>3, Zenon DEF History!Next, History!Amend

LEMMA RerenderRefines == ASSUME IInv, Rerender \/ Share \/ CooldownEnds \/ TypingEnds
                         PROVE  History!Next
<1>1. UNCHANGED <<text, overlay, undoStack, redoStack, dragRecorded>> /\ (typing' => typing)
  <2>1. CASE Rerender BY <2>1, Zenon DEF Rerender, editor, history, drag
  <2>2. CASE Share BY <2>2, Zenon DEF Share, editor, history, drag
  <2>3. CASE CooldownEnds BY <2>3, Zenon DEF CooldownEnds, editor, history, drag
  <2>4. CASE TypingEnds BY <2>4, Zenon DEF TypingEnds, editor, drag
  <2> QED BY <2>1, <2>2, <2>3, <2>4
<1>2. \A r \in inflight' : r.place # None => \E q \in inflight : q.place # None
  <2>1. CASE Rerender BY <2>1, StartOpensNone, Zenon DEF Rerender
  <2>2. CASE Share \/ TypingEnds BY <2>2, Zenon DEF Share, TypingEnds, renders
  <2>3. CASE CooldownEnds
    BY <2>3, StartOpensNone, Zenon DEF CooldownEnds, TrailingRender, renders
  <2> QED BY <2>1, <2>2, <2>3
<1> QED BY <1>1, <1>2, NoneOpensFacts, KeepRefines, Zenon

LEMMA UndoRefines == ASSUME IInv, Undo \/ Redo PROVE History!Next
<1>1. \A e \in Entry : [text |-> e.text, overlay |-> e.overlay] = e
  BY DEF Entry
<1>2. \A e \in Entry : Restore(e) => Now' = e
  BY <1>1, Zenon DEF Restore, Now
<1>3. undoStack \in Seq(Entry) /\ redoStack \in Seq(Entry)
  BY Zenon DEF IInv, TypeOK
<1>4. ASSUME NEW e, Restore(e) PROVE ~typing' /\ History!NoneOpens
  <2>1. StartRender(e.text, TRUE) /\ ~typing' /\ UNCHANGED dragRecorded
    BY <1>4, Zenon DEF Restore, drag
  <2> QED BY <2>1, StartOpensNone, NoneOpensFacts, Zenon
<1>5. CASE Undo
  <2>1. undoStack[Len(undoStack)] \in Entry BY <1>3, <1>5, PopFacts, Zenon DEF Undo
  <2> QED BY <1>2, <1>4, <1>5, <2>1, Zenon DEF Undo, History!Next, History!Undo, History!Front1
<1>6. CASE Redo
  <2>1. redoStack[Len(redoStack)] \in Entry BY <1>3, <1>6, PopFacts, Zenon DEF Redo
  <2> QED BY <1>2, <1>4, <1>6, <2>1, Zenon DEF Redo, History!Next, History!Redo, History!Front1
<1> QED BY <1>5, <1>6

(* A render that ends moves the node it was begun for, and nothing else.   *)
LEMMA EndRefines ==
    ASSUME IInv, NEW r \in inflight, Ends(r),
           UNCHANGED <<text, undoStack, redoStack, typing, dragRecorded>>
    PROVE  History!Next
<1>1. inflight' = inflight \ {r} /\ Placed(r.place) BY Zenon DEF Ends
<1>2. History!NoneOpens BY <1>1, NoneOpensFacts, Zenon
<1>3. CASE r.place # None /\ scene # None
  <2>1. overlay' = Pinned(overlay, {r.place}) BY <1>1, <1>3, Zenon DEF Placed
  <2>2. overlay \in Overlay BY Zenon DEF IInv, TypeOK
  <2>3. OnlyPins(Now, Now') BY <2>1, <2>2, PinnedOverlay DEF OnlyPins, Now
  <2>4. Placing BY <1>3, Zenon DEF Placing
  <2> QED BY <1>2, <2>3, <2>4, Zenon DEF History!Next, History!Amend
<1>4. CASE ~(r.place # None /\ scene # None)
  <2>1. overlay' = overlay BY <1>1, <1>4, Zenon DEF Placed
  <2> QED BY <1>2, <2>1, KeepRefines, Zenon
<1> QED BY <1>3, <1>4

LEMMA PublishRefines == ASSUME IInv, NEW r \in inflight, Publish(r) PROVE History!Next
<1> DEFINE live == Nodes[r.text]
           kept == IF Wipes(r) THEN Empty ELSE LiveGroup(overlay, live)
           next == LivePos(kept, live)
<1>1. /\ overlay' = next /\ text' = text /\ UNCHANGED dragRecorded
      /\ inflight' = (inflight \ {r}) \cup {[r EXCEPT !.stage = "icons"]}
      /\ IF Wipes(r) THEN Record(Now)
         ELSE IF next # kept THEN Record([text |-> text, overlay |-> kept])
         ELSE UNCHANGED history
  BY Zenon DEF Publish, drag
<1>2. live \in SUBSET Node /\ overlay \in Overlay /\ text \in Text
  BY HistoryAssumption DEF IInv, TypeOK, Renders
<1>3. CASE Wipes(r)
  BY <1>1, <1>3, RecordRefines, Zenon
<1>4. CASE ~Wipes(r)
  <2>1. kept = LiveGroup(overlay, live) BY <1>4, Zenon
  <2>2. kept \in {Empty, LiveGroup(overlay, live)} BY <2>1, Zenon
  <2>3. [r EXCEPT !.stage = "icons"].place = r.place
    BY DEF IInv, TypeOK, Renders
  <2> HIDE DEF live, kept
  <2>4. kept \in Overlay /\ kept.pos = overlay.pos /\ kept.group \subseteq overlay.group
    BY <1>2, <2>1, <2>2, PublishedOverlay
  <2> DEFINE e == [text |-> text, overlay |-> kept]
  <2>5. e \in Entry BY <1>2, <2>4 DEF Entry
  <2>6. Forgets(Now, e) BY <2>4 DEF Forgets, Now
  <2>7. CASE next # kept
    <3>1. Record(e) BY <1>1, <1>4, <2>7, Zenon
    <3> QED BY <2>5, <2>6, <3>1, RecordIsChange, Zenon DEF IInv, History!Next
  <2>8. CASE next = kept
    <3>1. UNCHANGED <<undoStack, redoStack, typing>> BY <1>1, <1>4, <2>8, Zenon DEF history
    <3>2. Now' = e BY <1>1, <2>8 DEF Now
    <3>3. \A q \in inflight' : q.place # None => \E s \in inflight : s.place # None
      BY <1>1, <2>3, Zenon
    <3>4. History!NoneOpens BY <1>1, <3>1, <3>3, NoneOpensFacts, Zenon
    <3> QED BY <2>6, <3>1, <3>2, <3>4, Zenon DEF History!Next, History!Amend
  <2> QED BY <2>7, <2>8
<1> QED BY <1>3, <1>4

LEMMA ReloadRefines == Reload => History!Next
<1> SUFFICES ASSUME Reload PROVE History!Next OBVIOUS
<1>1. /\ undoStack' = << >> /\ redoStack' = << >> /\ ~typing' /\ ~dragRecorded'
      /\ inflight' = FirstRender(text')
  BY Zenon DEF Reload
<1>2. \A r \in inflight' : r.place = None BY <1>1 DEF FirstRender
<1>3. ~Placing' BY <1>1, <1>2, Zenon DEF Placing
<1>4. History!Restart BY <1>1, <1>3, Zenon DEF History!Restart, History!Init
<1> QED BY <1>4, Zenon DEF History!Next

LEMMA StepRefines == IInv /\ [Next]_vars => [History!Next]_(History!hist)
<1> SUFFICES ASSUME IInv, [Next]_vars PROVE [History!Next]_(History!hist) OBVIOUS
<1>1. ASSUME NEW t \in Text, Type(t) \/ EditSource(t) \/ LoadExample(t) PROVE History!Next
  BY <1>1, TypeRefines, EditRefines, Zenon DEF EditSource
<1>2. ASSUME NEW t \in Text, NEW n \in Node, PlaceNode(t, n) PROVE History!Next
  BY <1>2, EditRefines, Zenon DEF PlaceNode
<1>3. ASSUME NEW n \in Node, TogglePin(n) PROVE History!Next
  BY <1>3, RecordRefines, Zenon DEF TogglePin, EditOverlay
<1>4. ASSUME NEW S \in SUBSET Node, DragStart(S) \/ GroupNodes(S) PROVE History!Next
  BY <1>4, DragStartRefines, RecordRefines, Zenon DEF GroupNodes, EditOverlay
<1>5. CASE Relax \/ ResetPositions
  BY <1>5, RecordRefines, Zenon DEF Relax, ResetPositions, EditOverlay
<1>6. CASE DragMove \/ DragEnd \/ Pinch \/ Regenerate
  BY <1>6, DragMoveRefines, DragOverRefines, RegenerateRefines, Zenon
<1>7. CASE Undo \/ Redo \/ Reload BY <1>7, UndoRefines, ReloadRefines, Zenon
<1>8. ASSUME NEW r \in inflight, Publish(r) PROVE History!Next
  BY <1>8, PublishRefines
<1>9. CASE Rerender \/ Share \/ CooldownEnds \/ TypingEnds
  BY <1>9, RerenderRefines, Zenon
<1>10. ASSUME NEW r \in inflight, LayoutDropped(r) \/ IconsDone(r) PROVE History!Next
  BY <1>10, EndRefines, Zenon DEF LayoutDropped, IconsDone, history, drag
<1>11. CASE UNCHANGED vars
  <2>1. UNCHANGED <<text, overlay, undoStack, redoStack, typing, dragRecorded, inflight>>
    BY <1>11, Zenon DEF vars, editor, history, renders, drag
  <2>2. UNCHANGED History!hist BY <2>1, Zenon DEF History!hist, Now, Placing
  <2> QED BY <2>2
<1> QED BY <1>1, <1>2, <1>3, <1>4, <1>5, <1>6, <1>7, <1>8, <1>9, <1>10, <1>11, Zenon
        DEF Next, User, LayoutEnds, IconsEnd

(* The playground's history implements UndoHistory, for any texts, nodes   *)
(* and cap: whatever the renders do, an undo goes back to the present the  *)
(* last change remembered, and nothing changes without being remembered    *)
(* but the rest of a burst or of a gesture and what the prune of groups    *)
(* and Regenerate lose (recordHistory, undoOverlay, redoOverlay).          *)
THEOREM HistoryRefined == Spec => IsHistory
<1>1. Init => History!Init
  <2> SUFFICES ASSUME Init PROVE History!Init OBVIOUS
  <2>1. \A r \in inflight : r.place = None BY DEF Init, FirstRender
  <2>2. ~Placing BY <2>1, Zenon DEF Placing, Init
  <2> QED BY <2>2, Zenon DEF Init, History!Init
<1> QED BY <1>1, Invariant, StepRefines, PTL DEF Spec, IsHistory, History!Spec
==============================================================================
