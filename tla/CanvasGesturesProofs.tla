------------------------- MODULE CanvasGesturesProofs -------------------------
(***************************************************************************)
(* For any families, roles and bounds: the types of CanvasGestures, that a *)
(* gesture leaves one entry in the history, and that nothing can be redone *)
(* while a run of nudges goes on.                                          *)
(***************************************************************************)
EXTENDS CanvasGestures, SequenceTheorems, WellFoundedInduction, TLAPS

-----------------------------------------------------------------------------
(* The inductive invariant.                                                *)

(* Until its first move a gesture has changed nothing since it began, and  *)
(* from then on the last entry is what was there when it began; unless     *)
(* other input came in between (the *Recorded flags, recordHistory). Two   *)
(* gestures may be under way: pointercancel ends none.                     *)
Claimed(slot) ==
    IF slot \in recorded
    THEN /\ Len(undoStack) = began[slot].entries + 1
         /\ undoStack[Len(undoStack)].layout = began[slot].layout
    ELSE /\ Len(undoStack) = began[slot].entries
         /\ layout = began[slot].layout
EntryTaken ==
    \A slot \in active \cap Recording : began[slot] # NoGesture => Claimed(slot)

(* While a run of nudges goes on there is nothing to redo (nudgeSelection, *)
(* applyRestored).                                                         *)
RunHasNoRedo == nudging => redoStack = << >>

(* The parts of the type invariant.                                        *)
InputOK ==
    /\ family \in Family /\ viewerMode \in Viewer
    /\ tool \in Tool /\ spaceHeld \in BOOLEAN /\ selected \in Selection
    /\ nudging \in BOOLEAN /\ keyboardResizing \in BOOLEAN /\ downs \in Nat
PointerOK ==
    /\ pointers \in 0..2 /\ isPinching \in BOOLEAN /\ (isPinching <=> pointers = 2)
    /\ active \subseteq Slot /\ recorded \subseteq Recording
DocumentOK ==
    /\ layout \in Nat /\ source \in Nat /\ stored \in Nat /\ changes \in Nat
    /\ rendering \in BOOLEAN /\ placing \in BOOLEAN
HistoryOK ==
    /\ undoStack \in Seq(Entries) /\ redoStack \in Seq(Entries)
BeganOK == began \in [Recording -> [entries : Nat, layout : Nat] \cup {NoGesture}]

GestureInv ==
    /\ InputOK /\ PointerOK /\ DocumentOK /\ HistoryOK /\ BeganOK
    /\ EntryTaken /\ RunHasNoRedo

LEMMA TypeParts == GestureInv => GesturesTypeOK
BY DEF GestureInv, GesturesTypeOK, InputOK, PointerOK, DocumentOK, HistoryOK, BeganOK

-----------------------------------------------------------------------------
(* The history and the selected.                                          *)

LEMMA EntryOK == InputOK /\ DocumentOK => Entry \in Entries
BY DEF InputOK, DocumentOK, Entry, Entries

(* recordHistory adds the present state and forgets what was undone.       *)
LEMMA RecordFacts ==
    ASSUME GestureInv, Record
    PROVE  /\ undoStack' \in Seq(Entries) /\ redoStack' \in Seq(Entries)
           /\ redoStack' = << >>
           /\ Len(undoStack') = Len(undoStack) + 1 /\ Len(undoStack) \in Nat
           /\ undoStack'[Len(undoStack')].layout = layout
<1>1. Entry \in Entries /\ undoStack \in Seq(Entries) BY EntryOK DEF HistoryOK, GestureInv
<1>2. undoStack' = Append(undoStack, Entry) /\ redoStack' = << >> BY DEF Record
<1>3. /\ Append(undoStack, Entry) \in Seq(Entries)
      /\ Len(Append(undoStack, Entry)) = Len(undoStack) + 1
      /\ Append(undoStack, Entry)[Len(undoStack) + 1] = Entry
  BY <1>1, AppendProperties
<1>4. Len(undoStack) \in Nat BY <1>1, LenProperties
<1>5. Entry.layout = layout BY DEF Entry
<1>6. << >> \in Seq(Entries) BY EmptySeq
<1> QED BY <1>2, <1>3, <1>4, <1>5, <1>6

(* What an undo or a redo leaves of the stack it pops.                     *)
LEMMA PopFacts ==
    ASSUME NEW s \in Seq(Entries), s # << >>
    PROVE  s[Len(s)] \in Entries /\ SubSeq(s, 1, Len(s) - 1) \in Seq(Entries)
<1>1. Len(s) \in Nat \ {0} BY EmptySeq
<1>2. \A i \in 1..Len(s) : s[i] \in Entries BY ElementOfSeq
<1>3. \A i \in 1..(Len(s) - 1) : s[i] \in Entries BY <1>1, <1>2
<1>4. SubSeq(s, 1, Len(s) - 1) \in Seq(Entries) BY <1>1, <1>3, SubSeqProperties, SMT
<1>5. s[Len(s)] \in Entries BY <1>1, <1>2
<1> QED BY <1>4, <1>5

LEMMA SelectedByOK ==
    ASSUME InputOK, NEW hit \in Hit, NEW additive \in BOOLEAN, NEW starts
    PROVE  SelectedBy(hit, additive, starts) \in Selection
BY DEF SelectedBy, Selection, Hit, InputOK

(* A set of numbers has a least one.                                       *)
LEMMA LeastNat ==
    ASSUME NEW S, S \subseteq Nat, S # {}
    PROVE  \E m \in S : \A k \in S : m <= k
<1>1. IsWellFoundedOn(OpToRel(<, Nat), Nat) BY NatLessThanWellFounded
<1>2. PICK m \in S : \A k \in S : ~ (<<k, m>> \in OpToRel(<, Nat)) BY <1>1, WFMin
<1>3. \A k \in S : ~ (k < m) BY <1>2 DEF OpToRel
<1> QED BY <1>3

(* The first gesture of the handlers' order is one of those under way.     *)
LEMMA FirstActive ==
    ASSUME PointerOK, active # {}
    PROVE  First(active) \in active /\ First(active) \in Slot
<1> DEFINE at == [connect |-> 1, endpoint |-> 2, waypoint |-> 3, label |-> 4,
                  resize |-> 5, marquee |-> 6, pan |-> 7, drag |-> 8]
<1>1. active \subseteq Slot BY DEF PointerOK
<1>2. \E s \in active : \A u \in active : at[s] <= at[u]
  <2>1. /\ at["connect"] = 1 /\ at["endpoint"] = 2 /\ at["waypoint"] = 3 /\ at["label"] = 4
        /\ at["resize"] = 5 /\ at["marquee"] = 6 /\ at["pan"] = 7 /\ at["drag"] = 8
    OBVIOUS
  <2> HIDE DEF at
  <2>2. \A s \in Slot : at[s] \in 1..8 BY <2>1 DEF Slot
  <2>3. PICK s \in active : TRUE OBVIOUS
  <2>4. DEFINE ranks == {at[u] : u \in active}
  <2>5. ranks \subseteq Nat /\ ranks # {} BY <1>1, <2>2, <2>3
  <2>6. PICK r \in ranks : \A q \in ranks : r <= q BY <2>5, LeastNat
  <2> QED BY <2>6
<1>3. First(active) = CHOOSE s \in active : \A u \in active : at[s] <= at[u]
  BY DEF First
<1>4. First(active) \in active BY <1>2, <1>3
<1> QED BY <1>1, <1>4

-----------------------------------------------------------------------------
(* The claims about gestures.                                              *)

(* A step that leaves the history and the layout alone keeps the claims it *)
(* does not give up.                                                       *)
Kept ==
    \A slot \in active' \cap Recording : began'[slot] # NoGesture =>
        /\ slot \in active /\ began'[slot] = began[slot]
        /\ slot \in recorded' <=> slot \in recorded
        /\ undoStack' = undoStack /\ layout' = layout

LEMMA ClaimsKept == GestureInv /\ Kept => EntryTaken'
<1> SUFFICES ASSUME GestureInv, Kept,
                    NEW slot \in active' \cap Recording, began'[slot] # NoGesture
             PROVE  Claimed(slot)'
  BY DEF EntryTaken, NoGesture
<1>1. /\ slot \in active /\ began'[slot] = began[slot]
      /\ slot \in recorded' <=> slot \in recorded
      /\ undoStack' = undoStack /\ layout' = layout
  BY DEF Kept
<1>2. Claimed(slot) BY <1>1 DEF GestureInv, EntryTaken
<1> QED BY <1>1, <1>2 DEF Claimed

(* What is given up.                                                       *)
LEMMA Forgets ==
    ASSUME BeganOK, NEW slots, Forget(slots)
    PROVE  /\ BeganOK'
           /\ \A slot \in Recording :
                 began'[slot] = IF slot \in slots THEN NoGesture ELSE began[slot]
<1>1. \A slot \in Recording :
         began'[slot] = IF slot \in slots THEN NoGesture ELSE began[slot]
  BY DEF Forget
<1>2. BeganOK' BY <1>1 DEF Forget, BeganOK, NoGesture
<1> QED BY <1>1, <1>2

LEMMA ForgetsAll == BeganOK /\ Forget(Recording) => BeganOK' /\ Kept
BY Forgets DEF Kept

LEMMA NoneBeganOK == began' = NoneBegan => BeganOK' /\ Kept
BY DEF NoneBegan, BeganOK, Kept, NoGesture

-----------------------------------------------------------------------------
(* Initially.                                                              *)

LEMMA InitInv == GesturesInit => GestureInv
<1> SUFFICES ASSUME GesturesInit PROVE GestureInv OBVIOUS
<1>1. InputOK BY DEF GesturesInit, InputOK, Tool, Selection
<1>2. PointerOK
  <2>1. pointers \in 0..2 /\ pointers # 2 BY DEF GesturesInit
  <2>2. isPinching = FALSE /\ active = {} /\ recorded = {} BY DEF GesturesInit
  <2> QED BY <2>1, <2>2, Zenon DEF PointerOK
<1>3. DocumentOK BY DEF GesturesInit, DocumentOK
<1>4. HistoryOK BY EmptySeq DEF GesturesInit, HistoryOK
<1>5. BeganOK BY DEF GesturesInit, BeganOK, NoneBegan
<1>6. EntryTaken /\ RunHasNoRedo BY DEF GesturesInit, EntryTaken, RunHasNoRedo
<1> QED BY <1>1, <1>2, <1>3, <1>4, <1>5, <1>6 DEF GestureInv

-----------------------------------------------------------------------------
(* The pointer goes down.                                                  *)

(* A pinch drops the gestures of the node and gives up what is said of     *)
(* them; a bend or a label stays under way.                                *)
LEMMA PinchKeeps == GestureInv /\ PointerDown /\ Pinch => GestureInv'
<1> SUFFICES ASSUME GestureInv, PointerDown, Pinch PROVE GestureInv'
  OBVIOUS
<1>0. InputOK /\ PointerOK /\ DocumentOK /\ HistoryOK /\ BeganOK /\ RunHasNoRedo
  BY DEF GestureInv
<1>1. InputOK' BY <1>0 DEF InputOK, PointerDown, Pinch, keyboard, mode
<1>2. PointerOK'
  <2>1. pointers' \in 0..2 /\ pointers' = 2 BY DEF Pinch
  <2>2. isPinching' = TRUE BY DEF Pinch
  <2>3. active' \subseteq Slot /\ recorded' \subseteq Recording BY <1>0 DEF Pinch, PointerOK
  <2> QED BY <2>1, <2>2, <2>3, Zenon DEF PointerOK
<1>3. DocumentOK' /\ HistoryOK' BY <1>0 DEF DocumentOK, HistoryOK, Pinch, content
<1>4. Forget(Cancelled) BY DEF Pinch
<1>5. BeganOK' BY <1>0, <1>4, Forgets
<1>6. \A slot \in Recording : began'[slot] = IF slot \in Cancelled THEN NoGesture ELSE began[slot]
  BY <1>0, <1>4, Forgets
<1>7. Kept BY <1>6 DEF Kept, Pinch, content
<1>8. RunHasNoRedo' BY <1>0 DEF RunHasNoRedo, Pinch, keyboard, content
<1> QED BY <1>1, <1>2, <1>3, <1>5, <1>7, <1>8, ClaimsKept DEF GestureInv

(* A gesture begins: nothing has changed since.                            *)
LEMMA BeginKeeps ==
    ASSUME GestureInv, NEW slot \in Slot, Begins(slot), UNCHANGED content
    PROVE  BeganOK' /\ EntryTaken'
<1>0. HistoryOK /\ DocumentOK /\ BeganOK /\ EntryTaken BY DEF GestureInv
<1>1. Len(undoStack) \in Nat /\ layout \in Nat
  BY <1>0, LenProperties DEF HistoryOK, DocumentOK
<1>2. \A s \in Recording :
         began'[s] = IF s = slot THEN [entries |-> Len(undoStack), layout |-> layout]
                     ELSE began[s]
  BY DEF Begins
<1>3. BeganOK' BY <1>0, <1>1, <1>2 DEF BeganOK, Begins, NoGesture
<1>4. undoStack' = undoStack /\ layout' = layout BY DEF content
<1>5. active' = active \cup {slot} /\ recorded' = recorded \ {slot} BY DEF Begins
<1>6. ASSUME NEW s \in active' \cap Recording, began'[s] # NoGesture PROVE Claimed(s)'
  <2>1. CASE s = slot
    <3>1. began'[s] = [entries |-> Len(undoStack), layout |-> layout] BY <1>2, <2>1
    <3> QED BY <1>4, <1>5, <2>1, <3>1 DEF Claimed
  <2>2. CASE s # slot
    <3>1. s \in active /\ began'[s] = began[s] /\ (s \in recorded' <=> s \in recorded)
      BY <1>2, <1>5, <1>6, <2>2
    <3>2. Claimed(s) BY <1>0, <1>6, <3>1 DEF EntryTaken
    <3> QED BY <1>4, <3>1, <3>2 DEF Claimed
  <2> QED BY <2>1, <2>2
<1>7. EntryTaken' BY <1>6 DEF EntryTaken, NoGesture
<1> QED BY <1>3, <1>7

LEMMA DownKeeps ==
    ASSUME GestureInv, PointerDown, NEW hit \in Hit, NEW additive \in BOOLEAN,
           NEW alt \in BOOLEAN, NEW touch \in BOOLEAN, Down(hit, additive, alt, touch)
    PROVE  GestureInv'
<1> DEFINE starts == Starts(hit, additive, alt, touch)
<1>0. InputOK /\ PointerOK /\ DocumentOK /\ HistoryOK /\ BeganOK BY DEF GestureInv
<1>1. InputOK'
  <2>1. selected' \in Selection BY <1>0, SelectedByOK DEF Down, Selects
  <2>2. nudging' \in BOOLEAN /\ keyboardResizing' \in BOOLEAN BY DEF Down, RunsEnd
  <2>3. downs' \in Nat BY <1>0 DEF PointerDown, InputOK
  <2>4. /\ family' = family /\ viewerMode' = viewerMode
        /\ tool' = tool /\ spaceHeld' = spaceHeld
    BY DEF PointerDown, mode
  <2> QED BY <1>0, <2>1, <2>2, <2>3, <2>4, Zenon DEF InputOK
<1>2. pointers = 0 /\ pointers' = 1 /\ isPinching' = isPinching BY DEF Down
<1>3. pointers' \in 0..2 /\ pointers' # 2 /\ pointers # 2 BY <1>2
<1>4. RunHasNoRedo' BY DEF Down, RunsEnd, RunHasNoRedo
<1>5. CASE starts = "place"
  <2>1. /\ ChangeSource /\ placing' = TRUE /\ Forget(Recording)
        /\ active' = active /\ recorded' = recorded
    BY <1>5 DEF Down
  <2>2. HistoryOK' BY <2>1, RecordFacts DEF ChangeSource, HistoryOK
  <2>3. DocumentOK' BY <1>0, <2>1 DEF ChangeSource, Fresh, DocumentOK
  <2>4. PointerOK' BY <1>0, <1>2, <1>3, <2>1, Zenon DEF PointerOK
  <2>5. BeganOK' /\ EntryTaken' BY <1>0, <2>1, ForgetsAll, ClaimsKept
  <2> QED BY <1>1, <1>4, <2>2, <2>3, <2>4, <2>5 DEF GestureInv
<1>6. CASE starts # "place" /\ starts \in Slot
  <2>1. Begins(starts) /\ UNCHANGED content BY <1>6 DEF Down
  <2>2. DocumentOK' /\ HistoryOK' BY <1>0, <2>1 DEF DocumentOK, HistoryOK, content
  <2>3. active' \subseteq Slot /\ recorded' \subseteq Recording
    BY <1>0, <1>6, <2>1 DEF Begins, PointerOK
  <2>4. PointerOK' BY <1>0, <1>2, <1>3, <2>3, Zenon DEF PointerOK
  <2>5. BeganOK' /\ EntryTaken' BY <1>6, <2>1, BeginKeeps
  <2> QED BY <1>1, <1>4, <2>2, <2>4, <2>5 DEF GestureInv
<1>7. CASE starts # "place" /\ starts \notin Slot
  <2>1. UNCHANGED <<active, recorded, began>> /\ UNCHANGED content BY <1>7 DEF Down
  <2>2. DocumentOK' /\ HistoryOK' BY <1>0, <2>1 DEF DocumentOK, HistoryOK, content
  <2>3. PointerOK' BY <1>0, <1>2, <1>3, <2>1, Zenon DEF PointerOK
  <2>4. BeganOK' BY <1>0, <2>1 DEF BeganOK, NoGesture
  <2>5. Kept BY <2>1 DEF Kept, content
  <2> QED BY <1>1, <1>4, <2>2, <2>3, <2>4, <2>5, ClaimsKept DEF GestureInv
<1> QED BY <1>5, <1>6, <1>7

-----------------------------------------------------------------------------
(* The pointer moves.                                                      *)

(* The first move takes the entry, later ones find it taken; what is said  *)
(* of another gesture under way is given up.                               *)
LEMMA MoveKeeps == GestureInv /\ PointerMove => GestureInv'
<1> SUFFICES ASSUME GestureInv, PointerMove PROVE GestureInv'
  OBVIOUS
<1>a. PICK slot : slot = First(active) OBVIOUS
<1>0. InputOK /\ PointerOK /\ DocumentOK /\ HistoryOK /\ BeganOK /\ EntryTaken /\ RunHasNoRedo
  BY DEF GestureInv
<1>1. /\ active # {} /\ slot \in Recording /\ RecordOnce(slot)
      /\ Fresh /\ layout' = changes' /\ Forget(Recording \ {slot})
  BY <1>a DEF PointerMove
<1>2. UNCHANGED <<mode, tool, spaceHeld, pointers, isPinching, active, keyboard,
                  selected, source, stored, rendering, placing, downs>>
  BY DEF PointerMove
<1>3. slot \in active BY <1>0, <1>1, <1>a, FirstActive
<1>4. InputOK' BY <1>0, <1>2 DEF InputOK, mode, keyboard
<1>5. recorded' = recorded \cup {slot} BY <1>1 DEF RecordOnce
<1>6. PointerOK'
  <2>1. recorded' \subseteq Recording BY <1>0, <1>1, <1>5 DEF PointerOK
  <2>2. pointers' = pointers /\ isPinching' = isPinching /\ active' = active
    BY <1>2
  <2> QED BY <1>0, <2>1, <2>2, Zenon DEF PointerOK
<1>7. DocumentOK' BY <1>0, <1>1, <1>2 DEF DocumentOK, Fresh
<1>8. BeganOK' BY <1>0, <1>1, Forgets
<1>9. \A s \in Recording : began'[s] = IF s = slot THEN began[slot] ELSE NoGesture
  BY <1>0, <1>1, Forgets
<1>10. began[slot] # NoGesture => Claimed(slot) BY <1>0, <1>1, <1>3 DEF EntryTaken
<1>11. began'[slot] = began[slot] BY <1>1, <1>9
<1>12. HistoryOK' /\ RunHasNoRedo' /\ (began[slot] # NoGesture => Claimed(slot)')
  <2>1. CASE slot \in recorded
    <3>1. undoStack' = undoStack /\ redoStack' = redoStack /\ recorded' = recorded
      BY <1>1, <2>1 DEF RecordOnce
    <3>2. HistoryOK' /\ RunHasNoRedo' BY <1>0, <1>2, <3>1 DEF HistoryOK, RunHasNoRedo, keyboard
    <3>3. slot \in recorded' BY <2>1, <3>1
    <3>4. began[slot] # NoGesture =>
             /\ Len(undoStack') = began'[slot].entries + 1
             /\ undoStack'[Len(undoStack')].layout = began'[slot].layout
      BY <1>10, <1>11, <2>1, <3>1 DEF Claimed
    <3> QED BY <3>2, <3>3, <3>4 DEF Claimed
  <2>2. CASE slot \notin recorded
    <3>1. Record BY <1>1, <2>2 DEF RecordOnce
    <3>2. /\ undoStack' \in Seq(Entries) /\ redoStack' \in Seq(Entries)
          /\ redoStack' = << >>
          /\ Len(undoStack') = Len(undoStack) + 1 /\ Len(undoStack) \in Nat
          /\ undoStack'[Len(undoStack')].layout = layout
      BY <3>1, RecordFacts
    <3>3. HistoryOK' /\ RunHasNoRedo' BY <3>2 DEF HistoryOK, RunHasNoRedo
    <3>4. slot \in recorded' BY <1>5
    <3>5. began[slot] # NoGesture =>
             /\ Len(undoStack') = began'[slot].entries + 1
             /\ undoStack'[Len(undoStack')].layout = began'[slot].layout
      BY <1>10, <1>11, <2>2, <3>2 DEF Claimed
    <3> QED BY <3>3, <3>4, <3>5 DEF Claimed
  <2> QED BY <2>1, <2>2
<1>13. EntryTaken'
  <2>1. SUFFICES ASSUME NEW s \in active' \cap Recording, began'[s] # NoGesture
                 PROVE  Claimed(s)'
    BY DEF EntryTaken, NoGesture
  <2>2. s = slot BY <1>9, <2>1
  <2>3. began[slot] # NoGesture BY <1>11, <2>1, <2>2
  <2> QED BY <1>12, <2>2, <2>3
<1> QED BY <1>4, <1>6, <1>7, <1>8, <1>12, <1>13 DEF GestureInv

-----------------------------------------------------------------------------
(* The pointer goes up, or is taken away.                                  *)

LEMMA CancelKeeps == GestureInv /\ PointerCancel => GestureInv'
<1> SUFFICES ASSUME GestureInv, PointerCancel PROVE GestureInv'
  OBVIOUS
<1>0. InputOK /\ PointerOK /\ DocumentOK /\ HistoryOK /\ BeganOK /\ RunHasNoRedo
  BY DEF GestureInv
<1>1. /\ pointers > 0 /\ pointers' = pointers - 1 /\ isPinching' = FALSE
      /\ UNCHANGED <<mode, tool, spaceHeld, keyboard, active, recorded, began, selected, content, downs>>
  BY DEF PointerCancel
<1>2. InputOK' BY <1>0, <1>1 DEF InputOK, mode, keyboard
<1>3. PointerOK'
  <2>1. pointers' \in 0..2 /\ pointers' # 2 BY <1>0, <1>1 DEF PointerOK
  <2>2. isPinching' = FALSE /\ active' = active /\ recorded' = recorded BY <1>1
  <2> QED BY <1>0, <2>1, <2>2, Zenon DEF PointerOK
<1>4. DocumentOK' /\ HistoryOK' BY <1>0, <1>1 DEF DocumentOK, HistoryOK, content
<1>5. BeganOK' BY <1>0, <1>1 DEF BeganOK, NoGesture
<1>6. Kept BY <1>1 DEF Kept, content
<1>7. RunHasNoRedo' BY <1>0, <1>1 DEF RunHasNoRedo, keyboard, content
<1> QED BY <1>2, <1>3, <1>4, <1>5, <1>6, <1>7, ClaimsKept DEF GestureInv

(* What the end of a gesture may do to the history: nothing, or, for the   *)
(* dates of a gantt bar, one entry more.                                   *)
Tops ==
    \/ undoStack' = undoStack
    \/ undoStack' = Append(undoStack, Entry) /\ family = "gantt" /\ rendering'

(* What letting go does to the document: nothing, a change of the source   *)
(* by a new edge or a new date, or the layout is stored.                   *)
ReleaseOK ==
    /\ DocumentOK' /\ HistoryOK' /\ BeganOK' /\ Kept
    /\ selected' \in Selection
    /\ active' \subseteq active /\ recorded' \subseteq recorded
    /\ redoStack' = redoStack \/ redoStack' = << >>
    /\ (active \ active') \cap Recording # {} => Tops

(* A release that leaves the layout and the history, and of the gestures   *)
(* ends those in `slots`.                                                  *)
LEMMA QuietRelease ==
    ASSUME GestureInv, NEW slots,
           Persist \/ UNCHANGED content,
           Forget(slots) \/ began' = began,
           active' = active \ slots, recorded' = recorded \/ recorded' = recorded \ slots,
           selected' \in Selection
    PROVE  ReleaseOK
<1>0. DocumentOK /\ HistoryOK /\ BeganOK BY DEF GestureInv
<1>1. undoStack' = undoStack /\ redoStack' = redoStack /\ layout' = layout
  BY DEF Persist, content
<1>2. DocumentOK' BY <1>0 DEF Persist, content, DocumentOK
<1>3. HistoryOK' BY <1>0, <1>1 DEF HistoryOK
<1>4. BeganOK' /\ \A slot \in Recording \ slots : began'[slot] = began[slot]
  <2>1. CASE Forget(slots) BY <1>0, <2>1, Forgets
  <2>2. CASE began' = began BY <1>0, <2>2 DEF BeganOK, NoGesture
  <2> QED BY <2>1, <2>2
<1>5. Kept BY <1>1, <1>4 DEF Kept
<1> QED BY <1>1, <1>2, <1>3, <1>4, <1>5 DEF ReleaseOK, Tops

(* A release that gives up every claim.                                    *)
LEMMA LoudRelease ==
    ASSUME GestureInv, Forget(Recording), DocumentOK',
           Record \/ UNCHANGED <<undoStack, redoStack>>,
           (active \ active') \cap Recording # {} => family = "gantt" /\ rendering',
           active' \subseteq active, recorded' = recorded, selected' = selected
    PROVE  ReleaseOK
<1>0. InputOK /\ HistoryOK /\ BeganOK BY DEF GestureInv
<1>1. BeganOK' /\ Kept BY <1>0, ForgetsAll
<1>2. HistoryOK' /\ (redoStack' = redoStack \/ redoStack' = << >>)
  <2>1. CASE Record BY <2>1, RecordFacts DEF HistoryOK
  <2>2. CASE UNCHANGED <<undoStack, redoStack>> BY <1>0, <2>2 DEF HistoryOK
  <2> QED BY <2>1, <2>2
<1>3. undoStack' = undoStack \/ undoStack' = Append(undoStack, Entry) BY DEF Record
<1> QED BY <1>0, <1>1, <1>2, <1>3 DEF ReleaseOK, Tops, InputOK

(* A bar or a node is let go.                                              *)
LEMMA ShapedRelease ==
    ASSUME GestureInv, NEW slots, NodeShaped(slots)
    PROVE  ReleaseOK
<1>0. InputOK /\ DocumentOK BY DEF GestureInv
<1>1. active' = active \ slots /\ selected' = selected /\ recorded' = recorded
  BY DEF NodeShaped, Over
<1>2. CASE Persist /\ Forget(slots)
  BY <1>0, <1>1, <1>2, QuietRelease DEF InputOK
<1>3. ASSUME family = "gantt", NEW slot, Reschedules(slot) PROVE ReleaseOK
  <2>1. layout' \in Nat BY <1>0, <1>3 DEF Reschedules, Cleared, Fresh, DocumentOK
  <2>2. DocumentOK' BY <1>0, <1>3, <2>1 DEF Reschedules, Fresh, DocumentOK
  <2>3. Forget(Recording) /\ Record /\ rendering' BY <1>3 DEF Reschedules
  <2> QED BY <1>1, <1>3, <2>2, <2>3, LoudRelease
<1>4. ASSUME family = "gantt", NEW slot, Refuses(slot) PROVE ReleaseOK
  <2>1. layout' \in Nat BY <1>0, <1>4 DEF Refuses, Cleared, Fresh, DocumentOK
  <2>2. DocumentOK' BY <1>0, <1>4, <2>1 DEF Refuses, Fresh, DocumentOK
  <2>3. /\ Forget(Recording) /\ rendering'
        /\ Record \/ UNCHANGED <<undoStack, redoStack>>
    BY <1>4 DEF Refuses
  <2> QED BY <1>1, <1>4, <2>2, <2>3, LoudRelease
<1> QED BY <1>2, <1>3, <1>4 DEF NodeShaped, BarShaped

LEMMA ReleasedFacts == GestureInv /\ Released => ReleaseOK
<1> SUFFICES ASSUME GestureInv, Released PROVE ReleaseOK OBVIOUS
<1> DEFINE slot == First(active)
<1>0. InputOK /\ PointerOK /\ DocumentOK /\ HistoryOK BY DEF GestureInv
<1>1. CASE active = {}
  <2>1. UNCHANGED <<active, recorded, began, selected, content>> BY <1>1 DEF Released
  <2>2. active' = active \ {} /\ selected' \in Selection BY <1>0, <2>1 DEF InputOK
  <2> QED BY <2>1, <2>2, QuietRelease
<1>2. CASE active # {} /\ slot \in {"connect", "endpoint"}
  <2>1. EdgeDrawn(slot) BY <1>2 DEF Released
  <2>2. active' = active \ {slot} /\ recorded' = recorded /\ selected' = selected
    BY <2>1 DEF EdgeDrawn, Over
  <2>3. CASE UNCHANGED <<content, began>>
    BY <1>0, <2>2, <2>3, QuietRelease DEF InputOK
  <2>4. CASE ChangeSource /\ Forget(Recording) /\ UNCHANGED placing
    <3>1. DocumentOK' BY <1>0, <2>4 DEF ChangeSource, Fresh, DocumentOK
    <3>2. (active \ active') \cap Recording = {} BY <1>2, <2>2 DEF Recording
    <3> QED BY <2>2, <2>4, <3>1, <3>2, LoudRelease DEF ChangeSource
  <2> QED BY <2>1, <2>3, <2>4 DEF EdgeDrawn
<1>3. CASE active # {} /\ slot \in {"waypoint", "label"}
  <2>1. EdgeShaped(slot) BY <1>3 DEF Released
  <2>2. /\ active' = active \ {slot} /\ recorded' = recorded \ {slot}
        /\ selected' = selected /\ Forget({slot}) /\ (Persist \/ UNCHANGED content)
    BY <2>1 DEF EdgeShaped, Over
  <2> QED BY <1>0, <2>2, QuietRelease DEF InputOK
<1>4. CASE active # {} /\ slot \in {"resize", "drag"}
  <2>1. NodeShaped({slot}) BY <1>4 DEF Released
  <2> QED BY <2>1, ShapedRelease
<1>5. CASE active # {} /\ slot = "marquee"
  <2>1. BoxSelected BY <1>5 DEF Released
  <2>2. active' = active \ {slot} /\ UNCHANGED <<content, recorded, began>>
    BY <1>5, <2>1 DEF BoxSelected, Over
  <2>3. selected' \in Selection BY <1>0, <2>1 DEF BoxSelected, Selection, InputOK
  <2> QED BY <2>2, <2>3, QuietRelease
<1>6. CASE active # {} /\ slot = "pan"
  <2>1. CASE "drag" \in active
    <3>1. NodeShaped({"pan", "drag"}) BY <1>6, <2>1 DEF Released
    <3> QED BY <3>1, ShapedRelease
  <2>2. CASE "drag" \notin active
    <3>1. active' = active \ {slot} /\ UNCHANGED <<recorded, began, selected, content>>
      BY <1>6, <2>2 DEF Released, Over
    <3> QED BY <1>0, <3>1, QuietRelease DEF InputOK
  <2> QED BY <2>1, <2>2
<1>7. active # {} => slot \in Slot BY <1>0, FirstActive
<1> QED BY <1>1, <1>2, <1>3, <1>4, <1>5, <1>6, <1>7 DEF Slot

LEMMA UpKeeps == GestureInv /\ PointerUp => GestureInv'
<1> SUFFICES ASSUME GestureInv, PointerUp PROVE GestureInv'
  OBVIOUS
<1>0. InputOK /\ PointerOK /\ DocumentOK /\ HistoryOK /\ BeganOK /\ RunHasNoRedo
  BY DEF GestureInv
<1>1. /\ pointers > 0 /\ pointers' = pointers - 1
      /\ UNCHANGED <<mode, tool, spaceHeld, keyboard, downs>>
  BY DEF PointerUp
<1>2. pointers' \in 0..2 /\ pointers' # 2 BY <1>0, <1>1 DEF PointerOK
<1>3. CASE isPinching
  <2>1. /\ isPinching' = FALSE
        /\ UNCHANGED <<active, recorded, began, selected, content>>
    BY <1>2, <1>3 DEF PointerUp
  <2>2. InputOK' BY <1>0, <1>1, <2>1 DEF InputOK, mode, keyboard
  <2>3. PointerOK' BY <1>0, <1>2, <2>1, Zenon DEF PointerOK
  <2>4. DocumentOK' /\ HistoryOK' BY <1>0, <2>1 DEF DocumentOK, HistoryOK, content
  <2>5. BeganOK' BY <1>0, <2>1 DEF BeganOK, NoGesture
  <2>6. Kept BY <2>1 DEF Kept, content
  <2>7. RunHasNoRedo' BY <1>0, <1>1, <2>1 DEF RunHasNoRedo, keyboard, content
  <2> QED BY <2>2, <2>3, <2>4, <2>5, <2>6, <2>7, ClaimsKept DEF GestureInv
<1>4. CASE ~isPinching
  <2>1. Released /\ isPinching' = isPinching BY <1>4 DEF PointerUp
  <2>2. ReleaseOK BY <2>1, ReleasedFacts
  <2>3. InputOK' BY <1>0, <1>1, <2>2 DEF InputOK, ReleaseOK, mode, keyboard
  <2>4. PointerOK'
    <3>1. active' \subseteq Slot /\ recorded' \subseteq Recording
      BY <1>0, <2>2 DEF PointerOK, ReleaseOK
    <3>2. pointers # 2 BY <1>0, <1>4, Zenon DEF PointerOK
    <3> QED BY <1>0, <1>2, <2>1, <3>1, <3>2, Zenon DEF PointerOK
  <2>5. RunHasNoRedo' BY <1>0, <1>1, <2>2 DEF RunHasNoRedo, ReleaseOK, keyboard
  <2> QED BY <2>2, <2>3, <2>4, <2>5, ClaimsKept DEF GestureInv, ReleaseOK
<1> QED BY <1>3, <1>4

-----------------------------------------------------------------------------
(* The keyboard, a render, and a node that is placed.                      *)

(* A step that is not of a gesture keeps the claims about gestures: it     *)
(* leaves the document alone, or ends what a gesture may claim.            *)
LEMMA OtherInput ==
    ASSUME GestureInv, InputOK', DocumentOK', HistoryOK',
           UNCHANGED touching,
           \/ began' = NoneBegan
           \/ began' = began /\ undoStack' = undoStack /\ layout' = layout,
           RunHasNoRedo'
    PROVE  GestureInv'
<1>0. PointerOK /\ BeganOK BY DEF GestureInv
<1>1. PointerOK' BY <1>0 DEF PointerOK, touching
<1>2. BeganOK' /\ Kept
  <2>1. CASE began' = NoneBegan BY <2>1, NoneBeganOK
  <2>2. CASE began' = began /\ undoStack' = undoStack /\ layout' = layout
    BY <1>0, <2>2 DEF BeganOK, Kept, NoGesture, touching
  <2> QED BY <2>1, <2>2
<1> QED BY <1>1, <1>2, ClaimsKept DEF GestureInv

LEMMA KeysKeep ==
    GestureInv /\ ((\E t \in Tool : SetTool(t)) \/ Space \/ Escape \/ Rendered \/ UNCHANGED gvars)
        => GestureInv'
<1> SUFFICES ASSUME GestureInv,
                    (\E t \in Tool : SetTool(t)) \/ Space \/ Escape \/ Rendered \/ UNCHANGED gvars
             PROVE  GestureInv'
  OBVIOUS
<1>0. InputOK /\ DocumentOK /\ HistoryOK /\ RunHasNoRedo BY DEF GestureInv
<1>1. UNCHANGED touching /\ began' = began /\ undoStack' = undoStack
      /\ redoStack' = redoStack /\ layout' = layout
  BY DEF SetTool, Space, Escape, Rendered, gvars, pointing, content
<1>2. DocumentOK' BY <1>0 DEF DocumentOK, SetTool, Space, Escape, Rendered, gvars, content
<1>3. InputOK'
  <2>1. CASE \E t \in Tool : SetTool(t)
    BY <1>0, <2>1 DEF InputOK, SetTool, mode, keyboard
  <2>2. CASE Space BY <1>0, <2>2 DEF InputOK, Space, mode, keyboard
  <2>3. CASE Escape
    <3>1. tool' \in Tool /\ selected' \in Selection /\ nudging' \in BOOLEAN
          /\ keyboardResizing' \in BOOLEAN
      BY <1>0, <2>3 DEF InputOK, Escape, RunsEnd, keyboard, Tool, Selection
    <3>2. UNCHANGED <<mode, spaceHeld, downs>> BY <2>3 DEF Escape
    <3> QED BY <1>0, <3>1, <3>2 DEF InputOK, mode
  <2>4. CASE Rendered
    <3>1. selected' \in Selection /\ nudging' = FALSE
      BY <1>0, <2>4 DEF InputOK, Rendered, Selection
    <3>2. UNCHANGED <<mode, tool, spaceHeld, keyboardResizing, downs>> BY <2>4 DEF Rendered
    <3> QED BY <1>0, <3>1, <3>2 DEF InputOK, mode
  <2>5. CASE UNCHANGED gvars BY <1>0, <2>5 DEF InputOK, gvars, mode, keyboard
  <2> QED BY <2>1, <2>2, <2>3, <2>4, <2>5
<1>4. nudging' => nudging
  BY DEF SetTool, Space, Escape, Rendered, RunsEnd, gvars, keyboard
<1>5. RunHasNoRedo' BY <1>0, <1>1, <1>4 DEF RunHasNoRedo
<1> QED BY <1>0, <1>1, <1>2, <1>3, <1>5, OtherInput DEF HistoryOK

(* A nudge either begins a run, with an entry, or goes on with one.        *)
LEMMA NudgeKeeps ==
    GestureInv /\ (Nudge \/ KeyboardResize) => GestureInv' /\ (Nudge => redoStack' = << >>)
<1> SUFFICES ASSUME GestureInv, Nudge \/ KeyboardResize
             PROVE  GestureInv' /\ (Nudge => redoStack' = << >>)
  OBVIOUS
<1>0. InputOK /\ DocumentOK /\ HistoryOK /\ RunHasNoRedo BY DEF GestureInv
<1>1. /\ UNCHANGED touching /\ began' = NoneBegan
      /\ Fresh /\ layout' = changes' /\ stored' = changes'
      /\ UNCHANGED <<mode, tool, spaceHeld, selected, source, rendering, placing, downs>>
      /\ nudging' \in BOOLEAN /\ keyboardResizing' \in BOOLEAN
  BY DEF Nudge, KeyboardResize
<1>2. InputOK' BY <1>0, <1>1 DEF InputOK, mode
<1>3. DocumentOK' BY <1>0, <1>1 DEF DocumentOK, Fresh
<1>4. Record \/ UNCHANGED <<undoStack, redoStack>>
  BY DEF Nudge, KeyboardResize, InRun
<1>5. undoStack' \in Seq(Entries) /\ redoStack' \in Seq(Entries)
  BY <1>0, <1>4, RecordFacts DEF HistoryOK
<1>6. Nudge => redoStack' = << >>
  BY <1>0 DEF Nudge, InRun, Record, RunHasNoRedo
<1>7. RunHasNoRedo' BY <1>6 DEF RunHasNoRedo, KeyboardResize
<1> QED BY <1>1, <1>2, <1>3, <1>5, <1>6, <1>7, OtherInput DEF HistoryOK

LEMMA RestoreKeeps == GestureInv /\ (Undo \/ Redo) => GestureInv'
<1> SUFFICES ASSUME GestureInv, Undo \/ Redo PROVE GestureInv'
  OBVIOUS
<1>0. InputOK /\ DocumentOK /\ HistoryOK BY DEF GestureInv
<1>1. Entry \in Entries BY <1>0, EntryOK
<1>2. PICK e \in Entries : Restored(e) /\ undoStack' \in Seq(Entries) /\ redoStack' \in Seq(Entries)
  <2>1. CASE Undo
    <3>1. /\ undoStack[Len(undoStack)] \in Entries
          /\ SubSeq(undoStack, 1, Len(undoStack) - 1) \in Seq(Entries)
      BY <1>0, <2>1, PopFacts DEF Undo, HistoryOK
    <3>2. Append(redoStack, Entry) \in Seq(Entries)
      BY <1>0, <1>1, AppendProperties DEF HistoryOK
    <3> QED BY <2>1, <3>1, <3>2 DEF Undo
  <2>2. CASE Redo
    <3>1. /\ redoStack[Len(redoStack)] \in Entries
          /\ SubSeq(redoStack, 1, Len(redoStack) - 1) \in Seq(Entries)
      BY <1>0, <2>2, PopFacts DEF Redo, HistoryOK
    <3>2. Append(undoStack, Entry) \in Seq(Entries)
      BY <1>0, <1>1, AppendProperties DEF HistoryOK
    <3> QED BY <2>2, <3>1, <3>2 DEF Redo
  <2> QED BY <2>1, <2>2
<1>3. e.layout \in Nat /\ e.source \in Nat /\ e.selected \in Selection
  BY DEF Entries
<1>4. /\ layout' = e.layout /\ source' = e.source /\ selected' = e.selected
      /\ stored' = e.layout /\ nudging' = FALSE /\ rendering' = TRUE
      /\ began' = NoneBegan
      /\ UNCHANGED <<mode, tool, spaceHeld, touching, keyboardResizing, placing, changes, downs>>
  BY <1>2 DEF Restored, NudgingEnds
<1>5. InputOK' BY <1>0, <1>3, <1>4 DEF InputOK, mode
<1>6. DocumentOK' BY <1>0, <1>3, <1>4 DEF DocumentOK
<1>7. RunHasNoRedo' BY <1>4 DEF RunHasNoRedo
<1> QED BY <1>2, <1>4, <1>5, <1>6, <1>7, OtherInput DEF HistoryOK

LEMMA PlacedKeeps == GestureInv /\ Placed => GestureInv'
<1> SUFFICES ASSUME GestureInv, Placed PROVE GestureInv'
  OBVIOUS
<1>0. InputOK /\ DocumentOK /\ HistoryOK /\ RunHasNoRedo BY DEF GestureInv
<1>1. InputOK' BY <1>0 DEF InputOK, Placed, mode, keyboard, Selection, Tool
<1>2. DocumentOK'
  <2>1. /\ changes' = changes + 1 /\ layout' = changes' /\ stored' = changes'
        /\ source' = source
    BY DEF Placed, Fresh
  <2>2. rendering' = rendering /\ placing' = FALSE BY DEF Placed
  <2>3. changes' \in Nat /\ source' \in Nat BY <1>0, <2>1 DEF DocumentOK
  <2> QED BY <1>0, <2>1, <2>2, <2>3, Zenon DEF DocumentOK
<1>3. /\ UNCHANGED touching /\ began' = NoneBegan
      /\ undoStack' = undoStack /\ redoStack' = redoStack /\ nudging' = nudging
  BY DEF Placed, keyboard
<1>4. RunHasNoRedo' BY <1>0, <1>3 DEF RunHasNoRedo
<1> QED BY <1>0, <1>1, <1>2, <1>3, <1>4, OtherInput DEF HistoryOK

-----------------------------------------------------------------------------
LEMMA StepKeeps == GestureInv /\ [GesturesNext]_gvars => GestureInv'
<1> SUFFICES ASSUME GestureInv, [GesturesNext]_gvars PROVE GestureInv'
  OBVIOUS
<1>1. CASE PointerDown
  <2>1. CASE Pinch BY <1>1, <2>1, PinchKeeps
  <2>2. ASSUME NEW hit \in Hit, NEW additive \in BOOLEAN, NEW alt \in BOOLEAN,
               NEW touch \in BOOLEAN, Down(hit, additive, alt, touch)
        PROVE  GestureInv'
    BY <1>1, <2>2, DownKeeps
  <2> QED BY <1>1, <2>1, <2>2 DEF PointerDown
<1>2. CASE PointerMove BY <1>2, MoveKeeps
<1>3. CASE PointerUp BY <1>3, UpKeeps
<1>4. CASE PointerCancel BY <1>4, CancelKeeps
<1>5. CASE (\E t \in Tool : SetTool(t)) \/ Space \/ Escape \/ Rendered \/ UNCHANGED gvars
  BY <1>5, KeysKeep
<1>6. CASE Nudge \/ KeyboardResize BY <1>6, NudgeKeeps
<1>7. CASE Undo \/ Redo BY <1>7, RestoreKeeps
<1>8. CASE Placed BY <1>8, PlacedKeeps
<1> QED BY <1>1, <1>2, <1>3, <1>4, <1>5, <1>6, <1>7, <1>8 DEF GesturesNext

(* Every variable keeps its type, and the history has the entry of every   *)
(* gesture under way (main.ts, the pointer handlers).                      *)
THEOREM GestureInvariant == GesturesSpec => [](GesturesTypeOK /\ GestureInv)
<1>1. GesturesInit => GestureInv BY InitInv
<1>2. GestureInv /\ [GesturesNext]_gvars => GestureInv' BY StepKeeps
<1> QED BY <1>1, <1>2, TypeParts, PTL DEF GesturesSpec

(* A gesture that is over and has changed the layout, with no other input  *)
(* meanwhile, has left its entry in the history, also when a pinch has cut *)
(* it short or it went on after a pointercancel; only the dates of a gantt *)
(* bar may have put one more on top (the *Recorded flags).                 *)
THEOREM OneUndoHolds == GesturesSpec => OneUndoPerGesture
<1> DEFINE Claim ==
      \A slot \in (active \ active') \cap Recording :
         began[slot] # NoGesture /\ layout # began[slot].layout
         => LET first == began[slot].entries + 1 IN
            /\ undoStack'[first].layout = began[slot].layout
            /\ Len(undoStack') = first
               \/ (Len(undoStack') = first + 1 /\ family = "gantt" /\ rendering')
<1>1. ASSUME GestureInv, GesturesNext PROVE Claim
  <2>1. SUFFICES ASSUME NEW slot \in (active \ active') \cap Recording,
                        began[slot] # NoGesture, layout # began[slot].layout
                 PROVE  /\ undoStack'[began[slot].entries + 1].layout = began[slot].layout
                        /\ Len(undoStack') = began[slot].entries + 1
                           \/ (/\ Len(undoStack') = began[slot].entries + 2
                               /\ family = "gantt" /\ rendering')
    <3>1. \A slot \in Recording : began[slot] # NoGesture => began[slot].entries \in Nat
      BY <1>1 DEF GestureInv, BeganOK
    <3> QED BY <2>1, <3>1
  <2>2. Tops
    <3>1. CASE PointerDown
      <4>1. CASE Pinch BY <4>1 DEF Pinch, content, Tops
      <4>2. ASSUME NEW hit, NEW additive, NEW alt, NEW touch, Down(hit, additive, alt, touch)
            PROVE  active \subseteq active'
        BY <4>2 DEF Down, Begins
      <4> QED BY <2>1, <3>1, <4>1, <4>2 DEF PointerDown
    <3>2. CASE PointerUp
      <4>1. CASE isPinching BY <2>1, <3>2, <4>1, Zenon DEF PointerUp
      <4>2. CASE ~isPinching
        <5>1. Released BY <3>2, <4>2, Zenon DEF PointerUp
        <5>2. ReleaseOK BY <1>1, <5>1, ReleasedFacts
        <5> QED BY <2>1, <5>2 DEF ReleaseOK
      <4> QED BY <4>1, <4>2
    <3>3. CASE ~PointerDown /\ ~PointerUp
      <4>1. active' = active
        BY <1>1, <3>3 DEF GesturesNext, PointerMove, PointerCancel, SetTool, Space, Escape, Nudge,
           KeyboardResize, Undo, Redo, Restored, Rendered, Placed, pointing, touching
      <4> QED BY <2>1, <4>1
    <3> QED BY <3>1, <3>2, <3>3
  <2>3. /\ Len(undoStack) = began[slot].entries + 1
        /\ undoStack[Len(undoStack)].layout = began[slot].layout
    BY <1>1, <2>1 DEF GestureInv, EntryTaken, Claimed
  <2>4. Entry \in Entries /\ undoStack \in Seq(Entries)
    BY <1>1, EntryOK DEF GestureInv, HistoryOK
  <2>5. CASE undoStack' = undoStack BY <2>3, <2>5
  <2>6. CASE undoStack' = Append(undoStack, Entry) /\ family = "gantt" /\ rendering'
    <3>1. Len(undoStack) \in Nat \ {0}
      <4>1. Len(undoStack) \in Nat BY <2>4, LenProperties
      <4>2. began[slot].entries \in Nat BY <1>1, <2>1 DEF GestureInv, BeganOK
      <4> QED BY <2>3, <4>1, <4>2
    <3>2. /\ Len(undoStack') = Len(undoStack) + 1
          /\ undoStack'[Len(undoStack)] = undoStack[Len(undoStack)]
      BY <2>4, <2>6, <3>1, AppendProperties
    <3>3. began[slot].entries \in Nat BY <1>1, <2>1 DEF GestureInv, BeganOK
    <3> QED BY <2>3, <2>6, <3>1, <3>2, <3>3
  <2> QED BY <2>2, <2>5, <2>6 DEF Tops
<1>2. GestureInv /\ [GesturesNext]_gvars => [Claim]_gvars BY <1>1
<1>3. GesturesSpec => []GestureInv BY GestureInvariant, PTL
<1>4. [][Claim]_gvars => OneUndoPerGesture BY DEF OneUndoPerGesture
<1> QED BY <1>2, <1>3, <1>4, PTL DEF GesturesSpec

(* No nudge is made while something can be redone (applyRestored ends the  *)
(* run, and the next nudge takes its own entry).                           *)
THEOREM NudgesUndoableHolds == GesturesSpec => NudgesUndoable
<1>1. GestureInv => [Nudge => redoStack' = << >>]_gvars BY NudgeKeeps
<1>2. GesturesSpec => []GestureInv BY GestureInvariant, PTL
<1> QED BY <1>1, <1>2, PTL DEF NudgesUndoable
==============================================================================
