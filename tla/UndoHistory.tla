----------------------------- MODULE UndoHistory -----------------------------
(***************************************************************************)
(* What the playground's undo promises: a present, the states an undo goes *)
(* back to, and the undone states a redo returns to.  The present changes  *)
(* without being remembered only while what was last remembered goes on: a *)
(* burst of typing or a gesture; the module that implements it names what  *)
(* else it forgets.  SourceHistory implements it.                          *)
(***************************************************************************)
EXTENDS Naturals, Sequences

CONSTANTS Cap,             \* the number of past states kept
          OnlyTypes(_, _), \* the second state goes on with a burst of typing
          OnlyPins(_, _),  \* the second state goes on with a gesture
          Forgets(_, _)    \* the second state is the first after a loss
VARIABLES past, present, future,
          typing, placing  \* a burst, or a gesture, has been remembered and is open
hist == <<past, present, future, typing, placing>>

Front1(s) == SubSeq(s, 1, Len(s) - 1)
Capped(s) == IF Len(s) > Cap THEN Tail(s) ELSE s

Init == past = << >> /\ future = << >> /\ ~typing /\ ~placing

(* A burst or a gesture is opened by a change only.                        *)
NoneOpens == (typing' => typing) /\ (placing' => placing)

(* The present is remembered, and then changes.                            *)
Change == LET last == past'[Len(past')] IN
          /\ past' # << >>
          /\ last = present \/ Forgets(present, last)
          /\ past' = Capped(Append(past, last)) /\ future' = << >>

Amend == /\ UNCHANGED <<past, future>> /\ NoneOpens
         /\ \/ present' = present
            \/ typing /\ OnlyTypes(present, present')
            \/ placing /\ OnlyPins(present, present')
            \/ Forgets(present, present')

Undo == /\ past # << >>
        /\ present' = past[Len(past)]
        /\ past' = Front1(past)
        /\ future' = Append(future, present)
        /\ ~typing' /\ NoneOpens

Redo == /\ future # << >>
        /\ present' = future[Len(future)]
        /\ future' = Front1(future)
        /\ past' = Append(past, present)
        /\ ~typing' /\ NoneOpens

(* The page is loaded anew.                                                *)
Restart == Init'

Next == Change \/ Amend \/ Undo \/ Redo \/ Restart
Spec == Init /\ [][Next]_hist
==============================================================================
