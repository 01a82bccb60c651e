------------------------- MODULE OverlayGroupsProofs -------------------------
(***************************************************************************)
(* Proofs about OverlayGroups, for any nodes, contents, saved groups and   *)
(* bounds: the groups stay a forest over the drawn nodes, a drag, a nudge  *)
(* or an alignment keeps the shape of a group, and pins hold.              *)
(***************************************************************************)
EXTENDS OverlayGroups, FiniteSetTheorems, WellFoundedInduction, TLAPS

-----------------------------------------------------------------------------
(* Iterations.                                                             *)

(* A set of numbers has a least one.                                       *)
LEMMA LeastNat ==
    ASSUME NEW S, S \subseteq Nat, S # {}
    PROVE  \E m \in S : \A k \in S : m <= k
<1>1. IsWellFoundedOn(OpToRel(<, Nat), Nat) BY NatLessThanWellFounded
<1>2. PICK m \in S : \A k \in S : ~ (<<k, m>> \in OpToRel(<, Nat)) BY <1>1, WFMin
<1>3. \A k \in S : ~ (k < m) BY <1>2 DEF OpToRel
<1> QED BY <1>3

(* What holds of 0 and passes from each number up to N to the next holds   *)
(* up to N; T is the set of numbers it holds of.                           *)
LEMMA UpTo ==
    ASSUME NEW N \in Nat, NEW T, 0 \in T,
           \A k \in 1..N : k - 1 \in T => k \in T
    PROVE  \A k \in 0..N : k \in T
<1>1. SUFFICES ASSUME (0..N) \ T # {} PROVE FALSE OBVIOUS
<1>2. PICK m \in (0..N) \ T : \A k \in (0..N) \ T : m <= k
  <2>1. (0..N) \ T \subseteq Nat OBVIOUS
  <2> QED BY <1>1, <2>1, LeastNat
<1>3. m # 0 /\ m \in 1..N BY <1>2
<1>4. m - 1 \in 0..N /\ m - 1 < m BY <1>3
<1>5. m - 1 \in T BY <1>2, <1>4
<1> QED BY <1>2, <1>3, <1>5

(* An iteration is a function: F is the step, on the values of S.          *)
LEMMA Iteration ==
    ASSUME NEW N \in Nat, NEW S, NEW a \in S, NEW F \in [S -> S]
    PROVE  \E f \in [0..N -> S] : f = [k \in 0..N |-> IF k = 0 THEN a ELSE F[f[k - 1]]]
<1> DEFINE It(n, f) == f = [k \in 0..n |-> IF k = 0 THEN a ELSE F[f[k - 1]]]
           T == {n \in 0..N : \E f \in [0..n -> S] : It(n, f)}
<1>1. 0 \in T
  <2> DEFINE f == [k \in 0..0 |-> a]
  <2>1. f \in [0..0 -> S] OBVIOUS
  <2>2. It(0, f) /\ 0 \in 0..N OBVIOUS
  <2> HIDE DEF It, f
  <2> QED BY <2>1, <2>2
<1>2. ASSUME NEW n \in 1..N, n - 1 \in T PROVE n \in T
  <2>1. PICK f \in [0..(n - 1) -> S] : It(n - 1, f) BY <1>2
  <2> DEFINE g == [k \in 0..n |-> IF k = n THEN F[f[n - 1]] ELSE f[k]]
  <2>2. n - 1 \in 0..(n - 1) /\ f[n - 1] \in S BY <2>1
  <2>3. g \in [0..n -> S]
    <3>1. ASSUME NEW k \in 0..n, k # n PROVE k \in 0..(n - 1) BY <3>1
    <3> QED BY <2>2, <3>1
  <2>4. ASSUME NEW k \in 0..n
        PROVE  g[k] = IF k = 0 THEN a ELSE F[g[k - 1]]
    <3>1. CASE k = n
      <4>1. n - 1 \in 0..n /\ n - 1 # n /\ n # 0 OBVIOUS
      <4>2. g[n - 1] = f[n - 1] BY <4>1
      <4> QED BY <3>1, <4>1, <4>2
    <3>2. CASE k # n
      <4>1. k \in 0..(n - 1) BY <3>2
      <4>2. g[k] = f[k] /\ f[k] = IF k = 0 THEN a ELSE F[f[k - 1]] BY <2>1, <3>2, <4>1
      <4>3. CASE k = 0 BY <4>2, <4>3
      <4>4. CASE k # 0
        <5>1. k - 1 \in 0..n /\ k - 1 # n BY <4>1, <4>4
        <5>2. g[k - 1] = f[k - 1] BY <5>1
        <5> QED BY <4>2, <4>4, <5>2
      <4> QED BY <4>3, <4>4
    <3> QED BY <3>1, <3>2
  <2>5. It(n, g) BY <2>3, <2>4
  <2>6. n \in 0..N OBVIOUS
  <2> HIDE DEF It, g
  <2> QED BY <2>3, <2>5, <2>6
<1>3. \A k \in 0..N : k \in T
  <2> HIDE DEF T
  <2> QED BY <1>1, <1>2, UpTo
<1>4. N \in 0..N OBVIOUS
<1> QED BY <1>3, <1>4

(* Chain is such an iteration, of at most MaxGroups rounds.                *)
LEMMA ChainUnfold ==
    ASSUME NEW gs, NEW m, DOMAIN gs \subseteq GroupIds, MaxGroups \in Nat
    PROVE  \E up \in [0..MaxGroups -> SUBSET DOMAIN gs] :
              /\ Chain(gs, m) = up[MaxGroups]
              /\ up[0] = ParentsOf(gs, m)
              /\ \A k \in 1..MaxGroups :
                    up[k] = up[k - 1] \cup UNION {ParentsOf(gs, g) : g \in up[k - 1]}
<1> DEFINE S == SUBSET DOMAIN gs
           Above(X) == X \cup UNION {ParentsOf(gs, g) : g \in X}
           F == [X \in S |-> Above(X)]
           Up(up) == up = [k \in 0..MaxGroups |->
                        IF k = 0 THEN ParentsOf(gs, m)
                        ELSE up[k - 1] \cup UNION {ParentsOf(gs, g) : g \in up[k - 1]}]
           u == CHOOSE up : Up(up)
<1>1. \A g : ParentsOf(gs, g) \in S BY DEF ParentsOf
<1>2. F \in [S -> S] BY <1>1
<1>3. PICK f \in [0..MaxGroups -> S] :
            f = [k \in 0..MaxGroups |-> IF k = 0 THEN ParentsOf(gs, m) ELSE F[f[k - 1]]]
  <2>1. ParentsOf(gs, m) \in S BY <1>1
  <2> HIDE DEF F, S
  <2> QED BY <1>2, <2>1, Iteration
<1>4. ASSUME NEW k \in 0..MaxGroups, k # 0
      PROVE  F[f[k - 1]] = Above(f[k - 1])
  <2>1. k - 1 \in 0..MaxGroups BY <1>4
  <2> QED BY <1>3, <2>1
<1>5. Up(f)
  <2> HIDE DEF F, S
  <2> QED BY <1>3, <1>4
<1>6. Up(u) BY <1>5
<1>7. Chain(gs, m) = u[MaxGroups] BY DEF Chain
<1> HIDE DEF u
<1>8. 0 \in 0..MaxGroups /\ u[0] = ParentsOf(gs, m)
  <2>1. 0 \in 0..MaxGroups OBVIOUS
  <2> QED BY <1>6, <2>1
<1>9. u \in [0..MaxGroups -> S]
  <2> DEFINE T == {k \in 0..MaxGroups : u[k] \in S}
  <2>1. 0 \in T BY <1>1, <1>8
  <2>2. ASSUME NEW k \in 1..MaxGroups, k - 1 \in T PROVE k \in T
    <3>1. k \in 0..MaxGroups /\ k # 0 OBVIOUS
    <3>2. u[k] = Above(u[k - 1]) BY <1>6, <3>1
    <3>3. Above(u[k - 1]) \in S BY <1>1, <2>2
    <3> QED BY <3>1, <3>2, <3>3
  <2>3. \A k \in 0..MaxGroups : k \in T
    <3> HIDE DEF T
    <3> QED BY <2>1, <2>2, UpTo
  <2> QED BY <1>6, <2>3
<1>10. ASSUME NEW k \in 1..MaxGroups PROVE u[k] = Above(u[k - 1])
  <2>1. k \in 0..MaxGroups /\ k # 0 OBVIOUS
  <2> QED BY <1>6, <2>1
<1> HIDE DEF Up
<1> QED BY <1>7, <1>8, <1>9, <1>10

(* A group is older than the groups it is in.                              *)
Ordered(gs) ==
    /\ DOMAIN gs \subseteq GroupIds
    /\ \A g \in DOMAIN gs : gs[g].members \cap DOMAIN gs \subseteq 1..(g - 1)

(* A group is made after its members (Saved, GroupSelection).              *)
LEMMA ParentIsNewer ==
    ASSUME NEW gs, Ordered(gs), NEW g \in DOMAIN gs, NEW h \in ParentsOf(gs, g)
    PROVE  h \in DOMAIN gs /\ g \in Nat /\ h \in Nat /\ g >= 1 /\ g < h
BY DEF Ordered, ParentsOf, GroupIds

(* The groups above a node or a group are the least set with its parents   *)
(* that is closed under parents: after MaxGroups rounds nothing is added,  *)
(* since what round k adds is newer than k groups.                         *)
LEMMA ChainFacts ==
    ASSUME MaxGroups \in Nat, NEW gs, Ordered(gs), NEW m
    PROVE  /\ Chain(gs, m) \subseteq DOMAIN gs
           /\ ParentsOf(gs, m) \subseteq Chain(gs, m)
           /\ \A g \in Chain(gs, m) : ParentsOf(gs, g) \subseteq Chain(gs, m)
           /\ \A X : /\ ParentsOf(gs, m) \subseteq X
                     /\ \A g \in X \cap DOMAIN gs : ParentsOf(gs, g) \subseteq X
                     => Chain(gs, m) \subseteq X
<1>1. DOMAIN gs \subseteq GroupIds BY DEF Ordered
<1>2. PICK up \in [0..MaxGroups -> SUBSET DOMAIN gs] :
         /\ Chain(gs, m) = up[MaxGroups]
         /\ up[0] = ParentsOf(gs, m)
         /\ \A k \in 1..MaxGroups :
               up[k] = up[k - 1] \cup UNION {ParentsOf(gs, g) : g \in up[k - 1]}
  BY <1>1, ChainUnfold
<1>3. MaxGroups \in 0..MaxGroups /\ 0 \in 0..MaxGroups OBVIOUS
<1>4. Chain(gs, m) \subseteq DOMAIN gs BY <1>2, <1>3
<1>5. ParentsOf(gs, m) \subseteq Chain(gs, m)
  <2> DEFINE T == {k \in 0..MaxGroups : up[0] \subseteq up[k]}
  <2>1. 0 \in T BY <1>3
  <2>2. ASSUME NEW k \in 1..MaxGroups, k - 1 \in T PROVE k \in T
    <3>1. k \in 0..MaxGroups OBVIOUS
    <3> QED BY <1>2, <2>2, <3>1
  <2>3. \A k \in 0..MaxGroups : k \in T
    <3> HIDE DEF T
    <3> QED BY <2>1, <2>2, UpTo
  <2> QED BY <1>2, <1>3, <2>3
<1>6. ASSUME NEW X, ParentsOf(gs, m) \subseteq X,
             \A g \in X \cap DOMAIN gs : ParentsOf(gs, g) \subseteq X
      PROVE  Chain(gs, m) \subseteq X
  <2> DEFINE T == {k \in 0..MaxGroups : up[k] \subseteq X}
  <2>1. 0 \in T BY <1>2, <1>3, <1>6
  <2>2. ASSUME NEW k \in 1..MaxGroups, k - 1 \in T PROVE k \in T
    <3>1. k \in 0..MaxGroups /\ k - 1 \in 0..MaxGroups OBVIOUS
    <3>2. up[k - 1] \subseteq X \cap DOMAIN gs BY <1>2, <2>2, <3>1
    <3>3. UNION {ParentsOf(gs, g) : g \in up[k - 1]} \subseteq X BY <1>6, <3>2
    <3> QED BY <1>2, <3>1, <3>2, <3>3
  <2>3. \A k \in 0..MaxGroups : k \in T
    <3> HIDE DEF T
    <3> QED BY <2>1, <2>2, UpTo
  <2> QED BY <1>2, <1>3, <2>3
<1>7. ASSUME NEW k \in 1..MaxGroups, NEW h \in up[k], h \notin up[k - 1]
      PROVE  h \in Nat /\ h >= k + 1
  <2> DEFINE T == {j \in 0..MaxGroups : j = 0 \/ \A n \in up[j] \ up[j - 1] : n \in Nat /\ n >= j + 1}
  <2>1. 0 \in T BY <1>3
  <2>2. ASSUME NEW j \in 1..MaxGroups, j - 1 \in T PROVE j \in T
    <3>1. j \in 0..MaxGroups /\ j - 1 \in 0..MaxGroups OBVIOUS
    <3>2. ASSUME NEW n \in up[j] \ up[j - 1] PROVE n \in Nat /\ n >= j + 1
      <4>1. PICK g \in up[j - 1] : n \in ParentsOf(gs, g) BY <1>2, <3>2
      <4>2. g \in DOMAIN gs BY <1>2, <3>1, <4>1
      <4>3. g \in Nat /\ n \in Nat /\ g >= 1 /\ g < n BY <4>1, <4>2, ParentIsNewer
      <4>4. CASE j = 1 BY <4>3, <4>4
      <4>5. CASE j # 1
        <5>1. j - 1 \in 1..MaxGroups /\ j - 1 # 0 BY <4>5
        <5>2. up[j - 1] = up[(j - 1) - 1] \cup UNION {ParentsOf(gs, e) : e \in up[(j - 1) - 1]}
          BY <1>2, <5>1
        <5>3. g \notin up[(j - 1) - 1]
          <6>1. SUFFICES ASSUME g \in up[(j - 1) - 1] PROVE FALSE OBVIOUS
          <6>2. n \in up[j - 1] BY <4>1, <5>2, <6>1
          <6> QED BY <3>2, <6>2
        <5>4. g >= (j - 1) + 1 BY <2>2, <4>1, <5>1, <5>3
        <5> QED BY <4>3, <5>4
      <4> QED BY <4>4, <4>5
    <3> QED BY <3>1, <3>2
  <2>3. \A j \in 0..MaxGroups : j \in T
    <3> HIDE DEF T
    <3> QED BY <2>1, <2>2, UpTo
  <2>4. k \in 0..MaxGroups /\ k # 0 OBVIOUS
  <2> QED BY <1>7, <2>3, <2>4
<1>8. ASSUME NEW g \in Chain(gs, m), NEW h \in ParentsOf(gs, g)
      PROVE  h \in Chain(gs, m)
  <2>1. g \in DOMAIN gs BY <1>4
  <2>2. h \in DOMAIN gs /\ g \in Nat /\ h \in Nat /\ g >= 1 /\ g < h BY <2>1, ParentIsNewer
  <2>3. h \in GroupIds BY <1>1, <2>2
  <2>4. MaxGroups >= 1 /\ MaxGroups \in 1..MaxGroups BY <2>2, <2>3 DEF GroupIds
  <2>5. up[MaxGroups] = up[MaxGroups - 1] \cup UNION {ParentsOf(gs, e) : e \in up[MaxGroups - 1]}
    BY <1>2, <2>4
  <2>6. CASE g \in up[MaxGroups - 1] BY <1>2, <2>5, <2>6
  <2>7. CASE g \notin up[MaxGroups - 1]
    <3>1. g >= MaxGroups + 1 BY <1>2, <1>7, <2>4, <2>7
    <3> QED BY <2>2, <2>3, <3>1 DEF GroupIds
  <2> QED BY <2>6, <2>7
<1> QED BY <1>4, <1>5, <1>6, <1>8

(* No group is above itself.                                               *)
LEMMA ChainIsNewer ==
    ASSUME MaxGroups \in Nat, NEW gs, Ordered(gs), NEW g \in DOMAIN gs
    PROVE  \A h \in Chain(gs, g) : h > g
<1> DEFINE X == {h \in DOMAIN gs : h > g}
<1>1. \A h \in DOMAIN gs : h \in Nat BY DEF Ordered, GroupIds
<1>2. ParentsOf(gs, g) \subseteq X BY ParentIsNewer
<1>3. ASSUME NEW e \in X \cap DOMAIN gs PROVE ParentsOf(gs, e) \subseteq X
  BY <1>1, ParentIsNewer
<1>4. Chain(gs, g) \subseteq X
  <2> HIDE DEF X
  <2> QED BY <1>2, <1>3, ChainFacts
<1> QED BY <1>4

(* What the groups always are: made in order, disjoint, not empty, of the  *)
(* nodes ns and of groups that exist.                                      *)
Group(ns, gs) == [members : (SUBSET (ns \cup DOMAIN gs)) \ {{}}, locked : BOOLEAN]
WellFormed(gs, ns) ==
    /\ Ordered(gs)
    /\ gs \in [DOMAIN gs -> Group(ns, gs)]
    /\ \A g, h \in DOMAIN gs : g # h => gs[g].members \cap gs[h].members = {}

(* A node or a group is in one group at most.                              *)
LEMMA OneParent ==
    ASSUME NEW gs, NEW ns, WellFormed(gs, ns), NEW m,
           NEW g \in ParentsOf(gs, m), NEW h \in ParentsOf(gs, m)
    PROVE  g = h
BY DEF WellFormed, ParentsOf

(* One round of pruning.                                                   *)
LEMMA ShrunkFacts ==
    ASSUME NEW gs, NEW ns, WellFormed(gs, ns), NEW alive
    PROVE  LET ss == Shrunk(gs, alive) IN
           /\ DOMAIN ss \subseteq DOMAIN gs
           /\ \A h \in DOMAIN gs : h \in DOMAIN ss <=> gs[h].members \cap (alive \cup DOMAIN gs) # {}
           /\ \A h \in DOMAIN ss :
                 /\ ss[h].members = gs[h].members \cap (alive \cup DOMAIN gs)
                 /\ ss[h].locked = gs[h].locked
                 /\ ss[h] = [members |-> ss[h].members, locked |-> ss[h].locked]
           /\ ss = [h \in DOMAIN ss |-> ss[h]]
<1> DEFINE left(g) == gs[g].members \cap (alive \cup DOMAIN gs)
           D == {h \in DOMAIN gs : left(h) # {}}
           ss == [g \in D |-> [gs[g] EXCEPT !.members = left(g)]]
<1>1. Shrunk(gs, alive) = ss BY DEF Shrunk
<1>2. DOMAIN ss = D /\ ss = [h \in DOMAIN ss |-> ss[h]] OBVIOUS
<1>3. ASSUME NEW h \in D
      PROVE  /\ ss[h].members = left(h) /\ ss[h].locked = gs[h].locked
             /\ ss[h] = [members |-> ss[h].members, locked |-> ss[h].locked]
  <2>1. gs[h] \in Group(ns, gs) BY DEF WellFormed
  <2>2. ss[h] = [gs[h] EXCEPT !.members = left(h)] OBVIOUS
  <2>3. gs[h] = [members |-> gs[h].members, locked |-> gs[h].locked] BY <2>1 DEF Group
  <2> HIDE DEF ss, left, D
  <2>4. ss[h] = [members |-> left(h), locked |-> gs[h].locked] BY <2>2, <2>3
  <2> QED BY <2>4
<1> QED
  <2> HIDE DEF ss
  <2> QED BY <1>1, <1>2, <1>3

(* A round keeps the shape, but for members that went in the same round.   *)
LEMMA RoundFacts ==
    ASSUME NEW gs, NEW ns, WellFormed(gs, ns), NEW alive
    PROVE  /\ Ordered(Shrunk(gs, alive))
           /\ DOMAIN Shrunk(gs, alive) \subseteq DOMAIN gs
           /\ Shrunk(gs, alive) \in [DOMAIN Shrunk(gs, alive) -> Group(alive, gs)]
           /\ \A h \in DOMAIN Shrunk(gs, alive) :
                 Shrunk(gs, alive)[h].members \subseteq gs[h].members
           /\ \A g, h \in DOMAIN Shrunk(gs, alive) : g # h =>
                 Shrunk(gs, alive)[g].members \cap Shrunk(gs, alive)[h].members = {}
<1> DEFINE ss == Shrunk(gs, alive)
<1>1. /\ DOMAIN ss \subseteq DOMAIN gs
      /\ \A h \in DOMAIN gs : h \in DOMAIN ss <=> gs[h].members \cap (alive \cup DOMAIN gs) # {}
      /\ \A h \in DOMAIN ss :
            /\ ss[h].members = gs[h].members \cap (alive \cup DOMAIN gs)
            /\ ss[h].locked = gs[h].locked
            /\ ss[h] = [members |-> ss[h].members, locked |-> ss[h].locked]
      /\ ss = [h \in DOMAIN ss |-> ss[h]]
  BY ShrunkFacts
<1> HIDE DEF ss
<1>2. Ordered(ss) BY <1>1 DEF Ordered, WellFormed
<1>3. ASSUME NEW h \in DOMAIN ss PROVE ss[h] \in Group(alive, gs)
  <2>1. gs[h].locked \in BOOLEAN BY <1>1 DEF WellFormed, Group
  <2>2. ss[h].members \in (SUBSET (alive \cup DOMAIN gs)) \ {{}} BY <1>1
  <2>3. ss[h].locked \in BOOLEAN BY <1>1, <2>1
  <2>4. ss[h] = [members |-> ss[h].members, locked |-> ss[h].locked] BY <1>1
  <2> QED BY <2>2, <2>3, <2>4 DEF Group
<1>4. \A g, h \in DOMAIN ss : g # h => ss[g].members \cap ss[h].members = {}
  BY <1>1 DEF WellFormed
<1>5. ss \in [DOMAIN ss -> Group(alive, gs)] BY <1>1, <1>3
<1>6. \A h \in DOMAIN ss : ss[h].members \subseteq gs[h].members BY <1>1
<1> QED BY <1>1, <1>2, <1>4, <1>5, <1>6 DEF ss

(* PruneGroups is an iteration too: s has the groups after each round.     *)
LEMMA PruneUnfold ==
    ASSUME MaxGroups \in Nat, NEW gs, NEW ns, WellFormed(gs, ns), NEW alive
    PROVE  \E s :
              /\ s[0] = gs
              /\ \A k \in 1..MaxGroups : s[k] = Shrunk(s[k - 1], alive)
              /\ PruneGroups(gs, alive) =
                    IF \A g \in DOMAIN gs : gs[g].members \cap Nodes \subseteq alive
                    THEN gs ELSE s[MaxGroups]
<1> DEFINE M == ns \cup alive \cup DOMAIN gs
           R == [members : SUBSET M, locked : BOOLEAN]
           S == UNION {[D -> R] : D \in SUBSET DOMAIN gs}
           F == [x \in S |-> Shrunk(x, alive)]
           Down(s) == s = [k \in 0..MaxGroups |->
                              IF k = 0 THEN gs ELSE Shrunk(s[k - 1], alive)]
           u == CHOOSE s : Down(s)
<1>1. gs \in S
  <2>1. gs \in [DOMAIN gs -> R] BY DEF WellFormed, Group
  <2> QED BY <2>1
<1>2. ASSUME NEW x \in S PROVE Shrunk(x, alive) \in S
  <2>1. PICK D \in SUBSET DOMAIN gs : x \in [D -> R] BY <1>2
  <2> DEFINE left(g) == x[g].members \cap (alive \cup DOMAIN x)
             E == {h \in DOMAIN x : left(h) # {}}
  <2>2. \A g \in E : left(g) \in SUBSET M BY <2>1
  <2>3. \A g \in E : x[g] \in R BY <2>1
  <2>4. \A g \in E : [x[g] EXCEPT !.members = left(g)] \in R
    <3> HIDE DEF left, E, M
    <3> QED BY <2>2, <2>3
  <2>5. Shrunk(x, alive) \in [E -> R]
    <3> HIDE DEF R
    <3> QED BY <2>4 DEF Shrunk
  <2>6. E \in SUBSET DOMAIN gs BY <2>1
  <2> HIDE DEF E, R
  <2> QED BY <2>5, <2>6
<1>3. F \in [S -> S]
  <2> HIDE DEF S
  <2> QED BY <1>2
<1>4. PICK f \in [0..MaxGroups -> S] :
            f = [k \in 0..MaxGroups |-> IF k = 0 THEN gs ELSE F[f[k - 1]]]
  <2> HIDE DEF F, S
  <2> QED BY <1>1, <1>3, Iteration
<1>5. ASSUME NEW k \in 0..MaxGroups, k # 0
      PROVE  F[f[k - 1]] = Shrunk(f[k - 1], alive)
  <2>1. k - 1 \in 0..MaxGroups BY <1>5
  <2> HIDE DEF S
  <2> QED BY <1>4, <2>1
<1>6. Down(f)
  <2> HIDE DEF F, S
  <2> QED BY <1>4, <1>5
<1>7. Down(u)
  <2> HIDE DEF F, S
  <2> QED BY <1>6
<1>8. PruneGroups(gs, alive) =
         IF \A g \in DOMAIN gs : gs[g].members \cap Nodes \subseteq alive
         THEN gs ELSE u[MaxGroups]
  BY DEF PruneGroups
<1> HIDE DEF u
<1>9. u[0] = gs
  <2>1. 0 \in 0..MaxGroups OBVIOUS
  <2> QED BY <1>7, <2>1
<1>10. ASSUME NEW k \in 1..MaxGroups PROVE u[k] = Shrunk(u[k - 1], alive)
  <2>1. k \in 0..MaxGroups /\ k # 0 OBVIOUS
  <2> QED BY <1>7, <2>1
<1> HIDE DEF Down
<1> QED BY <1>8, <1>9, <1>10

(* What pruning leaves was there: members of a group that stays were its   *)
(* members, and it keeps those of its subgroups that stay.                 *)
LEMMA PruneKeeps ==
    ASSUME MaxGroups \in Nat, NEW gs, WellFormed(gs, Nodes), NEW alive
    PROVE  LET ss == PruneGroups(gs, alive) IN
           /\ \A m : ParentsOf(ss, m) \subseteq ParentsOf(gs, m)
           /\ \A g \in DOMAIN ss : ParentsOf(ss, g) = ParentsOf(gs, g)
<1>1. PICK s : /\ s[0] = gs
               /\ \A k \in 1..MaxGroups : s[k] = Shrunk(s[k - 1], alive)
               /\ PruneGroups(gs, alive) =
                     IF \A g \in DOMAIN gs : gs[g].members \cap Nodes \subseteq alive
                     THEN gs ELSE s[MaxGroups]
  BY PruneUnfold
<1> DEFINE M == Nodes \cup DOMAIN gs
           Kept(x) == /\ WellFormed(x, M) /\ DOMAIN x \subseteq DOMAIN gs
                      /\ \A h \in DOMAIN x : x[h].members \subseteq gs[h].members
                      /\ \A g \in DOMAIN x : \A h \in DOMAIN gs :
                            g \in gs[h].members => h \in DOMAIN x /\ g \in x[h].members
<1>2. Kept(gs)
  <2>1. WellFormed(gs, M) BY DEF WellFormed, Group
  <2> QED BY <2>1
<1>3. ASSUME NEW a, Kept(a), NEW b, b = Shrunk(a, alive)
      PROVE  Kept(b)
  <2>1. WellFormed(a, M) BY <1>3
  <2>2. /\ Ordered(b) /\ DOMAIN b \subseteq DOMAIN a /\ b \in [DOMAIN b -> Group(alive, a)]
        /\ \A h \in DOMAIN b : b[h].members \subseteq a[h].members
        /\ \A g, h \in DOMAIN b : g # h => b[g].members \cap b[h].members = {}
    BY <1>3, <2>1, RoundFacts
  <2>3. /\ \A h \in DOMAIN a : h \in DOMAIN b <=> a[h].members \cap (alive \cup DOMAIN a) # {}
        /\ \A h \in DOMAIN b : b[h].members = a[h].members \cap (alive \cup DOMAIN a)
    BY <1>3, <2>1, ShrunkFacts
  <2>4. ASSUME NEW h \in DOMAIN b PROVE b[h] \in Group(M, b)
    <3>1. a[h].members \subseteq M
      <4>1. gs[h].members \subseteq M BY <1>3, <2>2 DEF WellFormed, Group
      <4> QED BY <1>3, <2>2, <4>1
    <3>2. b[h] \in Group(alive, a) BY <2>2
    <3>3. b[h].members \subseteq M BY <2>2, <3>1
    <3> HIDE DEF M
    <3> QED BY <3>2, <3>3 DEF Group
  <2>5. WellFormed(b, M) BY <2>2, <2>4 DEF WellFormed
  <2>6. ASSUME NEW g \in DOMAIN b, NEW h \in DOMAIN gs, g \in gs[h].members
        PROVE  h \in DOMAIN b /\ g \in b[h].members
    <3>1. h \in DOMAIN a /\ g \in a[h].members /\ g \in DOMAIN a BY <1>3, <2>2, <2>6
    <3> QED BY <2>3, <3>1
  <2>7. DOMAIN b \subseteq DOMAIN gs /\ \A h \in DOMAIN b : b[h].members \subseteq gs[h].members
    BY <1>3, <2>2
  <2> HIDE DEF M
  <2> QED BY <2>5, <2>6, <2>7
<1> HIDE DEF Kept
<1>4. \A k \in 0..MaxGroups : Kept(s[k])
  <2> DEFINE T == {k \in 0..MaxGroups : Kept(s[k])}
  <2>1. 0 \in T BY <1>1, <1>2
  <2>2. ASSUME NEW k \in 1..MaxGroups, k - 1 \in T PROVE k \in T
    <3>1. k \in 0..MaxGroups /\ s[k] = Shrunk(s[k - 1], alive) /\ Kept(s[k - 1])
      BY <1>1, <2>2
    <3> QED BY <1>3, <3>1
  <2>3. \A k \in 0..MaxGroups : k \in T
    <3> HIDE DEF T
    <3> QED BY <2>1, <2>2, UpTo
  <2> QED BY <2>3
<1>5. MaxGroups \in 0..MaxGroups OBVIOUS
<1>6. Kept(PruneGroups(gs, alive)) BY <1>1, <1>2, <1>4, <1>5
<1> QED BY <1>6 DEF Kept, ParentsOf

(* Fewer parents, fewer groups above.                                      *)
LEMMA ChainShrinks ==
    ASSUME MaxGroups \in Nat, NEW gs, NEW ss, Ordered(gs), Ordered(ss),
           \A m : ParentsOf(ss, m) \subseteq ParentsOf(gs, m), NEW n
    PROVE  Chain(ss, n) \subseteq Chain(gs, n)
<1> DEFINE X == Chain(gs, n)
<1>1. ParentsOf(gs, n) \subseteq X /\ \A g \in X : ParentsOf(gs, g) \subseteq X
  BY ChainFacts
<1>2. ParentsOf(ss, n) \subseteq X /\ \A g \in X \cap DOMAIN ss : ParentsOf(ss, g) \subseteq X
  BY <1>1
<1> HIDE DEF X
<1>3. Chain(ss, n) \subseteq X BY <1>2, ChainFacts
<1> QED BY <1>3 DEF X

(* Pruning leaves a forest over the nodes that are alive: a group that     *)
(* goes in round k is at least the k-th, so after MaxGroups rounds nothing *)
(* is listed that has gone.                                                *)
LEMMA PruneFacts ==
    ASSUME MaxGroups \in Nat, NEW gs, WellFormed(gs, Nodes), NEW alive,
           Nodes \cap Nat = {}, alive \subseteq Nodes
    PROVE  /\ WellFormed(PruneGroups(gs, alive), alive)
           /\ DOMAIN PruneGroups(gs, alive) \subseteq DOMAIN gs
<1>1. PICK s : /\ s[0] = gs
               /\ \A k \in 1..MaxGroups : s[k] = Shrunk(s[k - 1], alive)
               /\ PruneGroups(gs, alive) =
                     IF \A g \in DOMAIN gs : gs[g].members \cap Nodes \subseteq alive
                     THEN gs ELSE s[MaxGroups]
  BY PruneUnfold
<1> DEFINE M == Nodes \cup DOMAIN gs
<1>2. \A k \in 0..MaxGroups : WellFormed(s[k], M) /\ DOMAIN s[k] \subseteq DOMAIN gs
  <2> DEFINE T == {k \in 0..MaxGroups : WellFormed(s[k], M) /\ DOMAIN s[k] \subseteq DOMAIN gs}
  <2>1. 0 \in T
    <3>1. WellFormed(gs, M) BY DEF WellFormed, Group
    <3> QED BY <1>1, <3>1
  <2>2. ASSUME NEW k \in 1..MaxGroups, k - 1 \in T PROVE k \in T
    <3> DEFINE a == s[k - 1]  b == s[k]
    <3>1. b = Shrunk(a, alive) /\ WellFormed(a, M) /\ DOMAIN a \subseteq DOMAIN gs
      BY <1>1, <2>2
    <3> HIDE DEF a, b, M
    <3>2. /\ Ordered(b) /\ DOMAIN b \subseteq DOMAIN a /\ b \in [DOMAIN b -> Group(alive, a)]
          /\ \A g, h \in DOMAIN b : g # h => b[g].members \cap b[h].members = {}
      BY <3>1, RoundFacts
    <3>3. Group(alive, a) \subseteq Group(M, b) BY <3>1 DEF Group, M
    <3>4. WellFormed(b, M) BY <3>2, <3>3 DEF WellFormed
    <3>5. k \in 0..MaxGroups OBVIOUS
    <3> QED BY <3>1, <3>2, <3>4, <3>5 DEF b
  <2>3. \A k \in 0..MaxGroups : k \in T
    <3> HIDE DEF T
    <3> QED BY <2>1, <2>2, UpTo
  <2> QED BY <2>3
<1> HIDE DEF M
<1>3. ASSUME NEW k \in 1..MaxGroups
      PROVE  /\ s[k] = Shrunk(s[k - 1], alive) /\ Ordered(s[k - 1]) /\ WellFormed(s[k - 1], M)
             /\ DOMAIN s[k] \subseteq DOMAIN s[k - 1]
             /\ s[k] \in [DOMAIN s[k] -> Group(alive, s[k - 1])]
             /\ \A h \in DOMAIN s[k] : s[k][h].members \subseteq s[k - 1][h].members
  <2>1. k - 1 \in 0..MaxGroups OBVIOUS
  <2>2. WellFormed(s[k - 1], M) BY <1>2, <2>1
  <2> QED BY <1>1, <2>2, RoundFacts DEF WellFormed
<1>4. \A k \in 0..MaxGroups : k # 0 =>
         \A m \in DOMAIN s[k - 1] \ DOMAIN s[k] : m \in Nat /\ m >= k
  <2> DEFINE T == {k \in 0..MaxGroups : k # 0 =>
                      \A m \in DOMAIN s[k - 1] \ DOMAIN s[k] : m \in Nat /\ m >= k}
  <2>1. 0 \in T OBVIOUS
  <2>2. ASSUME NEW k \in 1..MaxGroups, k - 1 \in T PROVE k \in T
    <3>1. k \in 0..MaxGroups /\ k - 1 \in 0..MaxGroups OBVIOUS
    <3>2. ASSUME NEW m \in DOMAIN s[k - 1] \ DOMAIN s[k] PROVE m \in Nat /\ m >= k
      <4>1. m \in Nat /\ m >= 1 BY <1>2, <3>1, <3>2 DEF WellFormed, Ordered, GroupIds
      <4>2. CASE k = 1 BY <4>1, <4>2
      <4>3. CASE k # 1
        <5>1. k - 1 \in 1..MaxGroups /\ k - 1 # 0 BY <4>3
        <5>2. /\ s[k - 1] \in [DOMAIN s[k - 1] -> Group(alive, s[(k - 1) - 1])]
              /\ s[k - 1][m].members \subseteq s[(k - 1) - 1][m].members
              /\ DOMAIN s[k - 1] \subseteq DOMAIN s[(k - 1) - 1]
              /\ Ordered(s[(k - 1) - 1])
          BY <1>3, <3>2, <5>1
        <5>3. s[k - 1][m].members # {} /\ s[k - 1][m].members \subseteq alive \cup DOMAIN s[(k - 1) - 1]
          BY <3>2, <5>2 DEF Group
        <5>4. s[k - 1][m].members \cap (alive \cup DOMAIN s[k - 1]) = {}
          BY <1>3, <3>2, ShrunkFacts
        <5>5. PICK x : x \in s[k - 1][m].members /\ x \in DOMAIN s[(k - 1) - 1]
                       /\ x \notin DOMAIN s[k - 1]
          BY <5>3, <5>4
        <5>6. x \in Nat /\ x >= k - 1 BY <2>2, <5>1, <5>5
        <5>7. x \in s[(k - 1) - 1][m].members \cap DOMAIN s[(k - 1) - 1] BY <5>2, <5>5
        <5>8. m \in DOMAIN s[(k - 1) - 1] BY <3>2, <5>2
        <5>9. x \in 1..(m - 1) BY <5>2, <5>7, <5>8 DEF Ordered
        <5> QED BY <4>1, <5>6, <5>9
      <4> QED BY <4>2, <4>3
    <3> QED BY <3>1, <3>2
  <2>3. \A k \in 0..MaxGroups : k \in T
    <3> HIDE DEF T
    <3> QED BY <2>1, <2>2, UpTo
  <2> QED BY <2>3
<1>5. CASE \A g \in DOMAIN gs : gs[g].members \cap Nodes \subseteq alive
  <2>1. PruneGroups(gs, alive) = gs BY <1>1, <1>5
  <2>2. gs \in [DOMAIN gs -> Group(alive, gs)] BY <1>5 DEF WellFormed, Group
  <2> QED BY <2>1, <2>2 DEF WellFormed
<1>6. CASE ~ \A g \in DOMAIN gs : gs[g].members \cap Nodes \subseteq alive
  <2> DEFINE n == MaxGroups
             a == s[n - 1]  b == s[n]
  <2>1. PruneGroups(gs, alive) = b BY <1>1, <1>6
  <2>2. n \in 1..n
    <3>1. DOMAIN gs # {} /\ DOMAIN gs \subseteq 1..n
      BY <1>6 DEF WellFormed, Ordered, GroupIds
    <3> QED BY <3>1
  <2>3. n \in 0..n /\ n # 0 BY <2>2
  <2>4. WellFormed(b, M) /\ DOMAIN b \subseteq DOMAIN gs BY <1>2, <2>3
  <2>5. /\ Ordered(a) /\ DOMAIN b \subseteq DOMAIN a /\ b \in [DOMAIN b -> Group(alive, a)]
        /\ \A h \in DOMAIN b : b[h].members \subseteq a[h].members
    BY <1>3, <2>2
  <2>6. \A m \in DOMAIN a \ DOMAIN b : m \in Nat /\ m >= n BY <1>4, <2>3
  <2> HIDE DEF a, b
  <2>7. ASSUME NEW h \in DOMAIN b, NEW x \in b[h].members
        PROVE  x \in alive \cup DOMAIN b
    <3>1. x \in alive \cup DOMAIN a BY <2>5, <2>7 DEF Group
    <3>2. SUFFICES ASSUME x \in DOMAIN a, x \notin DOMAIN b PROVE FALSE BY <3>1
    <3>3. x \in Nat /\ x >= n BY <2>6, <3>2
    <3>4. h \in DOMAIN a /\ x \in a[h].members BY <2>5, <2>7
    <3>5. x \in 1..(h - 1) BY <2>5, <3>2, <3>4 DEF Ordered
    <3>6. h \in 1..n BY <2>5, <3>4 DEF Ordered, GroupIds
    <3> QED BY <3>3, <3>5, <3>6
  <2>8. \A h \in DOMAIN b : b[h].members \subseteq alive \cup DOMAIN b BY <2>7
  <2>9. b \in [DOMAIN b -> Group(alive, b)] BY <2>5, <2>8 DEF Group
  <2>10. WellFormed(b, alive) BY <2>4, <2>9 DEF WellFormed
  <2> QED BY <2>1, <2>4, <2>10
<1> QED BY <1>5, <1>6

(* A set of groups has a newest one.                                       *)
LEMMA GreatestGroup ==
    ASSUME MaxGroups \in Nat, NEW S, S \subseteq GroupIds, S # {}
    PROVE  \E m \in S : \A k \in S : k <= m
<1> DEFINE D == {MaxGroups - k : k \in S}
<1>1. D \subseteq Nat /\ D # {}
  <2>1. \A k \in S : MaxGroups - k \in Nat BY DEF GroupIds
  <2> QED BY <2>1
<1>2. PICK d \in D : \A e \in D : d <= e
  <2> HIDE DEF D
  <2> QED BY <1>1, LeastNat
<1>3. PICK m \in S : d = MaxGroups - m OBVIOUS
<1>4. ASSUME NEW k \in S PROVE k <= m
  <2>1. d <= MaxGroups - k BY <1>2
  <2>2. m \in Nat /\ k \in Nat BY DEF GroupIds
  <2> QED BY <1>3, <2>1, <2>2
<1> QED BY <1>4

(* What is in no group has nothing above it; what is in one has that group *)
(* above it and what is above the group.                                   *)
LEMMA ChainOf ==
    ASSUME MaxGroups \in Nat, NEW gs, Ordered(gs), NEW m
    PROVE  /\ ParentsOf(gs, m) = {} => Chain(gs, m) = {}
           /\ \A q : ParentsOf(gs, m) = {q} => Chain(gs, m) \subseteq {q} \cup Chain(gs, q)
<1>1. /\ \A q : /\ ParentsOf(gs, q) \subseteq Chain(gs, q)
                /\ \A g \in Chain(gs, q) : ParentsOf(gs, g) \subseteq Chain(gs, q)
  BY ChainFacts
<1>2. ASSUME ParentsOf(gs, m) = {} PROVE Chain(gs, m) \subseteq {}
  <2>1. \A g \in {} \cap DOMAIN gs : ParentsOf(gs, g) \subseteq {} OBVIOUS
  <2> QED BY <1>2, <2>1, ChainFacts
<1>3. ASSUME NEW q, ParentsOf(gs, m) = {q} PROVE Chain(gs, m) \subseteq {q} \cup Chain(gs, q)
  <2> DEFINE X == {q} \cup Chain(gs, q)
  <2>1. \A g \in X \cap DOMAIN gs : ParentsOf(gs, g) \subseteq X BY <1>1
  <2>2. ParentsOf(gs, m) \subseteq X BY <1>3
  <2> HIDE DEF X
  <2>3. Chain(gs, m) \subseteq X BY <2>1, <2>2, ChainFacts
  <2> QED BY <2>3 DEF X
<1> QED BY <1>2, <1>3

(* The chain of a node ends in one group that is in no other.              *)
LEMMA SomeTop ==
    ASSUME MaxGroups \in Nat, NEW gs, Ordered(gs), NEW m, ParentsOf(gs, m) # {}
    PROVE  Tops(gs, m) # {}
<1>1. Chain(gs, m) # {} /\ Chain(gs, m) \subseteq DOMAIN gs BY ChainFacts
<1>2. DOMAIN gs \subseteq GroupIds BY DEF Ordered
<1>3. PICK t \in Chain(gs, m) : \A k \in Chain(gs, m) : k <= t
  BY <1>1, <1>2, GreatestGroup
<1>4. ParentsOf(gs, t) \subseteq Chain(gs, m) BY ChainFacts
<1>5. ASSUME NEW h \in ParentsOf(gs, t) PROVE FALSE
  <2>1. t < h /\ t \in Nat /\ h \in Nat BY <1>1, ParentIsNewer
  <2>2. h <= t BY <1>3, <1>4
  <2> QED BY <2>1, <2>2
<1> QED BY <1>5 DEF Tops

(* The top group of a node is the only one: the newest group with two      *)
(* tops above it would have a parent with two.                             *)
LEMMA OneTop ==
    ASSUME MaxGroups \in Nat, NEW gs, NEW ns, WellFormed(gs, ns), NEW m,
           NEW a \in Tops(gs, m), NEW b \in Tops(gs, m)
    PROVE  a = b
<1> DEFINE Roots(p) == {t \in Chain(gs, p) \cup {p} : ParentsOf(gs, t) = {}}
           Bad == {p \in DOMAIN gs : \E t, u \in Roots(p) : t # u}
<1>0. Ordered(gs) /\ DOMAIN gs \subseteq GroupIds BY DEF WellFormed, Ordered
<1>1. ASSUME NEW q, NEW x, q \in ParentsOf(gs, x)
      PROVE  /\ ParentsOf(gs, x) = {q} /\ q \in DOMAIN gs
             /\ Chain(gs, x) \subseteq {q} \cup Chain(gs, q)
  <2>1. ParentsOf(gs, x) = {q} BY <1>1, OneParent
  <2> QED BY <1>0, <1>1, <2>1, ChainOf DEF ParentsOf
<1>2. Bad = {}
  <2>1. SUFFICES ASSUME Bad # {} PROVE FALSE OBVIOUS
  <2>2. Bad \subseteq GroupIds BY <1>0
  <2>3. PICK p \in Bad : \A k \in Bad : k <= p
    <3> HIDE DEF Bad
    <3> QED BY <2>1, <2>2, GreatestGroup
  <2>4. p \in DOMAIN gs OBVIOUS
  <2>5. CASE ParentsOf(gs, p) = {}
    <3>1. Chain(gs, p) = {} BY <1>0, <2>5, ChainOf
    <3>2. \A t, u \in Roots(p) : t = u BY <3>1
    <3> QED BY <3>2
  <2>6. CASE ParentsOf(gs, p) # {}
    <3>1. PICK q : q \in ParentsOf(gs, p) BY <2>6
    <3>2. /\ q \in DOMAIN gs /\ Chain(gs, p) \subseteq {q} \cup Chain(gs, q)
      BY <1>1, <3>1
    <3>3. Roots(p) \subseteq Roots(q) BY <2>6, <3>2
    <3>4. q \in Bad BY <3>2, <3>3
    <3>5. p < q /\ p \in Nat /\ q \in Nat BY <1>0, <2>4, <3>1, ParentIsNewer
    <3>6. q <= p BY <2>3, <3>4
    <3> QED BY <3>5, <3>6
  <2> QED BY <2>5, <2>6
<1>3. a \in Chain(gs, m) /\ b \in Chain(gs, m) /\ ParentsOf(gs, a) = {} /\ ParentsOf(gs, b) = {}
  BY DEF Tops
<1>4. ParentsOf(gs, m) # {} BY <1>0, <1>3, ChainOf
<1>5. PICK q : q \in ParentsOf(gs, m) BY <1>4
<1>6. q \in DOMAIN gs /\ Chain(gs, m) \subseteq {q} \cup Chain(gs, q) BY <1>1, <1>5
<1>7. a \in Roots(q) /\ b \in Roots(q) BY <1>3, <1>6
<1> QED BY <1>2, <1>6, <1>7

-----------------------------------------------------------------------------
(* The leaves of groups and units.                                         *)

(* The leaves of a group are nodes, and a group has some.                  *)
LEMMA LeafFacts ==
    ASSUME MaxGroups \in Nat, NEW gs, NEW ns, WellFormed(gs, ns), NEW g,
           Nodes \cap Nat = {}, ns \subseteq Nodes
    PROVE  /\ LeafNodes(gs, g) \subseteq ns
           /\ g \in DOMAIN gs => LeafNodes(gs, g) # {}
<1>0. Ordered(gs) /\ DOMAIN gs \subseteq GroupIds BY DEF WellFormed, Ordered
<1>1. ASSUME NEW x \in LeafNodes(gs, g) PROVE x \in ns
  <2>1. x \in Nodes /\ ParentsOf(gs, x) # {} BY <1>0, ChainOf DEF LeafNodes
  <2>2. PICK h \in DOMAIN gs : x \in gs[h].members BY <2>1 DEF ParentsOf
  <2>3. x \in ns \cup DOMAIN gs BY <2>2 DEF WellFormed, Group
  <2>4. x \notin DOMAIN gs BY <1>0, <2>1 DEF GroupIds
  <2> QED BY <2>3, <2>4
<1>2. ASSUME g \in DOMAIN gs PROVE LeafNodes(gs, g) # {}
  <2> DEFINE Bad == {h \in DOMAIN gs : LeafNodes(gs, h) = {}}
  <2>1. SUFFICES ASSUME Bad # {} PROVE FALSE BY <1>2
  <2>2. Bad \subseteq Nat BY <1>0 DEF GroupIds
  <2>3. PICK h \in Bad : \A k \in Bad : h <= k
    <3> HIDE DEF Bad
    <3> QED BY <2>1, <2>2, LeastNat
  <2>4. h \in DOMAIN gs /\ LeafNodes(gs, h) = {} OBVIOUS
  <2>5. PICK x : x \in gs[h].members BY <2>4 DEF WellFormed, Group
  <2>6. h \in ParentsOf(gs, x) BY <2>4, <2>5 DEF ParentsOf
  <2>7. h \in Chain(gs, x) BY <1>0, <2>6, ChainFacts
  <2>8. x \in ns \cup DOMAIN gs BY <2>4, <2>5 DEF WellFormed, Group
  <2>9. CASE x \in ns BY <2>4, <2>7, <2>9 DEF LeafNodes
  <2>10. CASE x \in DOMAIN gs
    <3>1. x < h /\ x \in Nat /\ h \in Nat BY <1>0, <2>6, <2>10, ParentIsNewer
    <3>2. LeafNodes(gs, x) # {} BY <2>3, <2>10, <3>1
    <3>3. PICK l \in Nodes : x \in Chain(gs, l) BY <3>2 DEF LeafNodes
    <3>4. h \in Chain(gs, l) BY <1>0, <2>6, <3>3, ChainFacts
    <3> QED BY <2>4, <3>4 DEF LeafNodes
  <2> QED BY <2>8, <2>9, <2>10
<1> QED BY <1>1, <1>2

(* A node stands for itself or for all of its top group.                   *)
LEMMA UnitFacts ==
    ASSUME MaxGroups \in Nat, NEW gs, NEW ns, WellFormed(gs, ns), NEW n \in ns,
           Nodes \cap Nat = {}, ns \subseteq Nodes
    PROVE  /\ n \in UnitNodes(gs, n) /\ UnitNodes(gs, n) \subseteq ns
           /\ Unit(gs, n) \in ns \cup DOMAIN gs /\ ParentsOf(gs, Unit(gs, n)) = {}
<1>0. Ordered(gs) /\ DOMAIN gs \subseteq GroupIds BY DEF WellFormed, Ordered
<1>1. CASE Tops(gs, n) = {}
  BY <1>0, <1>1, SomeTop DEF UnitNodes, Unit
<1>2. CASE Tops(gs, n) # {}
  <2>1. Unit(gs, n) \in Tops(gs, n) BY <1>2 DEF Unit
  <2>2. Unit(gs, n) \in Chain(gs, n) /\ ParentsOf(gs, Unit(gs, n)) = {} BY <2>1 DEF Tops
  <2>3. Unit(gs, n) \in DOMAIN gs BY <1>0, <2>2, ChainFacts
  <2>4. UnitNodes(gs, n) = LeafNodes(gs, Unit(gs, n)) BY <1>2 DEF UnitNodes
  <2>5. n \in LeafNodes(gs, Unit(gs, n)) BY <2>2 DEF LeafNodes
  <2> QED BY <2>2, <2>3, <2>4, <2>5, LeafFacts
<1> QED BY <1>1, <1>2

(* A unit that has one leaf of a top group is that group.                  *)
LEMMA UnitIsGroup ==
    ASSUME MaxGroups \in Nat, NEW gs, NEW ns, WellFormed(gs, ns), NEW n,
           NEW g \in DOMAIN gs, ParentsOf(gs, g) = {},
           NEW x \in UnitNodes(gs, n), x \in LeafNodes(gs, g)
    PROVE  UnitNodes(gs, n) = LeafNodes(gs, g)
<1>1. g \in Tops(gs, x) BY DEF LeafNodes, Tops
<1>2. Tops(gs, n) # {} BY <1>1 DEF UnitNodes
<1>3. Unit(gs, n) \in Tops(gs, n) BY <1>2 DEF Unit
<1>4. UnitNodes(gs, n) = LeafNodes(gs, Unit(gs, n)) BY <1>2 DEF UnitNodes
<1>5. Unit(gs, n) \in Tops(gs, x) BY <1>3, <1>4 DEF LeafNodes, Tops
<1>6. Unit(gs, n) = g BY <1>1, <1>5, OneTop
<1> QED BY <1>4, <1>6

-----------------------------------------------------------------------------
(* The inductive invariant.                                                *)

NodesOK == live \subseteq Nodes /\ selection \subseteq live
GroupsOK ==
    /\ WellFormed(groups, live)
    /\ groupSeq \in 1..(MaxGroups + 1) /\ DOMAIN groups \subseteq 1..(groupSeq - 1)
OverridesOK ==
    /\ DOMAIN overrides \subseteq Nodes
    /\ \A n \in DOMAIN overrides : overrides[n] \in [at : Places, pinned : BOOLEAN]

(* A drag holds all of a top group or none, and what is in a group has     *)
(* come equally far, whatever the text has lost since the drag began.      *)
Far(n) == Shown(overrides, n) - drag.origin[n]
HoldsGroups ==
    \A g \in DOMAIN groups : ParentsOf(groups, g) = {} =>
        \A x \in LeafNodes(groups, g) \ Contents :
            x \in drag.ids => LeafNodes(groups, g) \subseteq drag.ids
Together ==
    \A m, n \in drag.ids :
        ParentsOf(groups, m) # {} /\ ParentsOf(groups, n) # {} => Far(m) = Far(n)
DragOK ==
    \/ drag = NoDrag
    \/ /\ drag.ids \subseteq Nodes
       /\ drag \in [ids : {drag.ids}, origin : [drag.ids -> Places]]
       /\ HoldsGroups /\ Together

LayoutInv == NodesOK /\ GroupsOK /\ OverridesOK /\ DragOK

-----------------------------------------------------------------------------
(* Group, ungroup and lock keep the shape.                                 *)

(* group: units that are in no group yet become one.                       *)
LEMMA GroupedOK ==
    ASSUME NEW gs, NEW ns, WellFormed(gs, ns),
           NEW g \in GroupIds, DOMAIN gs \subseteq 1..(g - 1),
           NEW units, units # {}, units \subseteq ns \cup DOMAIN gs, g \notin ns,
           \A u \in units : ParentsOf(gs, u) = {}
    PROVE  /\ WellFormed(Grouped(gs, g, units), ns)
           /\ DOMAIN Grouped(gs, g, units) = DOMAIN gs \cup {g}
<1> DEFINE gg == Grouped(gs, g, units)
<1>1. /\ DOMAIN gg = DOMAIN gs \cup {g} /\ gg = [h \in DOMAIN gg |-> gg[h]]
      /\ gg[g] = [members |-> units, locked |-> FALSE]
      /\ \A h \in DOMAIN gs : h # g => gg[h] = gs[h]
  BY DEF Grouped
<1>2. g \notin DOMAIN gs /\ g \in Nat BY DEF GroupIds
<1> HIDE DEF gg
<1>4. \A h \in DOMAIN gs : gg[h] = gs[h] BY <1>1, <1>2
<1>5. Ordered(gg)
  <2>1. DOMAIN gg \subseteq GroupIds BY <1>1 DEF WellFormed, Ordered
  <2>2. units \cap DOMAIN gg \subseteq 1..(g - 1)
    <3>1. g \notin units BY <1>2
    <3> QED BY <1>1, <3>1
  <2>3. ASSUME NEW h \in DOMAIN gs PROVE gs[h].members \cap DOMAIN gg \subseteq 1..(h - 1)
    <3>1. gs[h].members \subseteq ns \cup DOMAIN gs BY DEF WellFormed, Group
    <3>2. g \notin gs[h].members BY <1>2, <3>1
    <3> QED BY <1>1, <3>2 DEF WellFormed, Ordered
  <2> QED BY <1>1, <1>4, <2>1, <2>2, <2>3 DEF Ordered
<1>6. gg \in [DOMAIN gg -> Group(ns, gg)]
  <2>1. \A h \in DOMAIN gs : gs[h] \in Group(ns, gg) BY <1>1 DEF WellFormed, Group
  <2>2. gg[g] \in Group(ns, gg) BY <1>1 DEF Group
  <2> QED BY <1>1, <1>4, <2>1, <2>2
<1>7. \A h \in DOMAIN gs : gs[h].members \cap units = {}
  BY DEF ParentsOf
<1>8. \A h, k \in DOMAIN gg : h # k => gg[h].members \cap gg[k].members = {}
  BY <1>1, <1>4, <1>7 DEF WellFormed
<1> QED BY <1>1, <1>5, <1>6, <1>8 DEF WellFormed, gg

(* ungroup: a top group goes and its members are in none.                  *)
LEMMA UngroupedOK ==
    ASSUME NEW gs, NEW ns, WellFormed(gs, ns), NEW g \in DOMAIN gs, ParentsOf(gs, g) = {}
    PROVE  /\ WellFormed(Ungrouped(gs, g), ns)
           /\ DOMAIN Ungrouped(gs, g) \subseteq DOMAIN gs
<1> DEFINE gg == Ungrouped(gs, g)
<1>1. \A h \in DOMAIN gs : g \notin gs[h].members BY DEF ParentsOf
<1>2. DOMAIN gg = DOMAIN gs \ {g} /\ gg = [h \in DOMAIN gg |-> gg[h]]
  BY DEF Ungrouped
<1>3. \A h \in DOMAIN gg : gg[h] = gs[h] BY <1>1 DEF Ungrouped
<1> HIDE DEF gg
<1>4. Ordered(gg) BY <1>2, <1>3 DEF WellFormed, Ordered
<1>5. ASSUME NEW h \in DOMAIN gg PROVE gg[h] \in Group(ns, gg)
  <2>1. gs[h] \in Group(ns, gs) /\ g \notin gs[h].members BY <1>1, <1>2 DEF WellFormed
  <2> QED BY <1>2, <1>3, <2>1 DEF Group
<1>6. \A h, k \in DOMAIN gg : h # k => gg[h].members \cap gg[k].members = {}
  BY <1>2, <1>3 DEF WellFormed
<1> QED BY <1>2, <1>4, <1>5, <1>6 DEF WellFormed, gg

(* setGroupLocked: the members stay.                                       *)
LEMMA LockedOK ==
    ASSUME NEW gs, NEW ns, WellFormed(gs, ns), NEW g \in DOMAIN gs
    PROVE  LET gg == [gs EXCEPT ![g].locked = ~@] IN
           WellFormed(gg, ns) /\ DOMAIN gg = DOMAIN gs
<1> DEFINE gg == [gs EXCEPT ![g].locked = ~@]
<1>1. DOMAIN gg = DOMAIN gs /\ gg = [h \in DOMAIN gg |-> gg[h]]
      /\ gg[g] = [gs[g] EXCEPT !.locked = ~@]
      /\ \A h \in DOMAIN gs : h # g => gg[h] = gs[h]
  BY DEF WellFormed
<1>2. gs[g] \in Group(ns, gs) BY DEF WellFormed
<1> HIDE DEF gg
<1>3. gg[g].members = gs[g].members /\ gg[g] \in Group(ns, gs) BY <1>1, <1>2 DEF Group
<1>4. \A h \in DOMAIN gs : gg[h].members = gs[h].members BY <1>1, <1>3
<1>5. Ordered(gg) BY <1>1, <1>4 DEF WellFormed, Ordered
<1>6. gg \in [DOMAIN gg -> Group(ns, gg)]
  <2>1. \A h \in DOMAIN gs : gg[h] \in Group(ns, gs) BY <1>1, <1>3 DEF WellFormed
  <2>2. Group(ns, gg) = Group(ns, gs) BY <1>1 DEF Group
  <2> QED BY <1>1, <2>1, <2>2
<1>7. \A h, k \in DOMAIN gg : h # k => gg[h].members \cap gg[k].members = {}
  BY <1>1, <1>4 DEF WellFormed
<1> QED BY <1>1, <1>5, <1>6, <1>7 DEF WellFormed, gg

-----------------------------------------------------------------------------
(* Initially.                                                              *)

(* What the proofs use of the constants.                                   *)
LEMMA ConstantFacts ==
    /\ MaxGroups \in Nat /\ MaxAt \in Nat /\ Nodes \cap Nat = {}
    /\ Container \in Nodes /\ Contents \subseteq Nodes \ {Container}
    /\ 0 \in Places /\ Places \subseteq Int
BY OverlayAssumption DEF Places

(* A saved overlay has the shape.                                          *)
LEMMA SavedOK ==
    ASSUME NEW gs \in SavedGroups
    PROVE  /\ WellFormed(gs, Nodes) /\ Max(DOMAIN gs \cup {0}) \in 0..MaxGroups
           /\ DOMAIN gs \subseteq 1..Max(DOMAIN gs \cup {0})
<1>1. Saved(gs) BY OverlayAssumption
<1>2. DOMAIN gs \subseteq GroupIds BY <1>1 DEF Saved, GroupIds
<1>3. \E m \in DOMAIN gs \cup {0} : \A k \in DOMAIN gs \cup {0} : m >= k
  <2>1. CASE DOMAIN gs = {}
    <3>1. DOMAIN gs \cup {0} = {0} BY <2>1
    <3> QED BY <3>1
  <2>2. CASE DOMAIN gs # {}
    <3>1. PICK m \in DOMAIN gs : \A k \in DOMAIN gs : k <= m
      BY <1>2, <2>2, GreatestGroup, ConstantFacts
    <3>2. m >= 0 /\ \A k \in DOMAIN gs : m >= k BY <1>2, <3>1 DEF GroupIds
    <3> QED BY <3>2
  <2> QED BY <2>1, <2>2
<1> DEFINE newest == Max(DOMAIN gs \cup {0})
<1>4. newest \in DOMAIN gs \cup {0} /\ \A k \in DOMAIN gs \cup {0} : newest >= k
  BY <1>3 DEF Max
<1> HIDE DEF newest
<1>5. newest \in 0..MaxGroups /\ DOMAIN gs \subseteq 1..newest
  BY <1>2, <1>4, ConstantFacts DEF GroupIds
<1>7. Ordered(gs)
  <2>1. ASSUME NEW g \in DOMAIN gs PROVE gs[g].members \cap DOMAIN gs \subseteq 1..(g - 1)
    <3>1. \A h \in gs[g].members \cap DOMAIN gs : h < g BY <1>1 DEF Saved
    <3>2. g \in Nat /\ \A h \in DOMAIN gs : h \in Nat /\ h >= 1 BY <1>2 DEF GroupIds
    <3> QED BY <3>1, <3>2
  <2> QED BY <1>2, <2>1 DEF Ordered
<1>8. ASSUME NEW g \in DOMAIN gs PROVE gs[g] \in Group(Nodes, gs)
  BY <1>1 DEF Saved, Group
<1>9. gs = [g \in DOMAIN gs |-> gs[g]] BY <1>1 DEF Saved
<1>10. gs \in [DOMAIN gs -> Group(Nodes, gs)] BY <1>8, <1>9
<1>11. \A g, h \in DOMAIN gs : g # h => gs[g].members \cap gs[h].members = {}
  BY <1>1 DEF Saved
<1> QED BY <1>5, <1>7, <1>10, <1>11 DEF WellFormed, newest

(* The invariant holds when a diagram is opened.                           *)
LEMMA InitInv == Init => LayoutInv
<1> SUFFICES ASSUME Init PROVE LayoutInv OBVIOUS
<1>1. NodesOK BY DEF Init, NodesOK
<1>2. GroupsOK
  <2> DEFINE newest == Max(DOMAIN groups \cup {0})
  <2>1. groups \in SavedGroups /\ live = Nodes /\ groupSeq = 1 + newest
    BY DEF Init
  <2>2. /\ WellFormed(groups, Nodes) /\ newest \in 0..MaxGroups
        /\ DOMAIN groups \subseteq 1..newest
    BY <2>1, SavedOK
  <2> HIDE DEF newest
  <2>3. groupSeq \in 1..(MaxGroups + 1) /\ groupSeq - 1 = newest
    BY <2>1, <2>2, ConstantFacts
  <2> QED BY <2>1, <2>2, <2>3 DEF GroupsOK
<1>3. OverridesOK BY DEF Init, OverridesOK
<1>4. DragOK BY DEF Init, DragOK
<1> QED BY <1>1, <1>2, <1>3, <1>4 DEF LayoutInv

-----------------------------------------------------------------------------
(* The steps.                                                              *)

(* LeafFacts and UnitFacts, under the assumptions on the constants.        *)
LEMMA LeafOK ==
    ASSUME NEW gs, NEW ns, WellFormed(gs, ns), ns \subseteq Nodes, NEW g
    PROVE  /\ LeafNodes(gs, g) \subseteq ns
           /\ g \in DOMAIN gs => LeafNodes(gs, g) # {}
BY LeafFacts, ConstantFacts

(* See LeafOK.                                                             *)
LEMMA UnitOK ==
    ASSUME NEW gs, NEW ns, WellFormed(gs, ns), ns \subseteq Nodes, NEW n \in ns
    PROVE  /\ n \in UnitNodes(gs, n) /\ UnitNodes(gs, n) \subseteq ns
           /\ Unit(gs, n) \in ns \cup DOMAIN gs /\ ParentsOf(gs, Unit(gs, n)) = {}
BY UnitFacts, ConstantFacts

(* What the commands select and take is drawn.                             *)
LEMMA MembersAlive ==
    ASSUME LayoutInv
    PROVE  /\ WellFormed(groups, live) /\ Ordered(groups) /\ live \subseteq Nodes
           /\ \A g : LeafNodes(groups, g) \subseteq live
           /\ \A ns : Taken(ns) \subseteq live
           /\ \A ns : ns \subseteq live => ns \subseteq Taken(ns)
<1>1. WellFormed(groups, live) /\ live \subseteq Nodes BY DEF LayoutInv, NodesOK, GroupsOK
<1>2. ASSUME NEW g PROVE LeafNodes(groups, g) \subseteq live BY <1>1, LeafOK
<1>3. \A ns : Taken(ns) \subseteq live BY DEF Taken
<1>4. ASSUME NEW ns, ns \subseteq live, NEW n \in ns PROVE n \in Taken(ns)
  <2>1. n \in live BY <1>4
  <2>2. n \in UnitNodes(groups, n) BY <1>1, <2>1, UnitOK
  <2>3. n \in WithContents(n) BY DEF WithContents
  <2>4. n \in UNION {WithContents(m) : m \in UnitNodes(groups, n)} BY <2>2, <2>3
  <2> QED BY <1>4, <2>1, <2>4 DEF Taken
<1> QED BY <1>1, <1>2, <1>3, <1>4 DEF WellFormed

(* Ungroup and Lock act on a group that is in no other.                    *)
LEMMA SelectedTopOK ==
    ASSUME LayoutInv, NEW g \in SelectedTop
    PROVE  g \in DOMAIN groups /\ ParentsOf(groups, g) = {}
<1>1. PICK n \in selection : g \in Chain(groups, n) /\ ParentsOf(groups, g) = {}
  BY DEF SelectedTop, Tops
<1>2. Chain(groups, n) \subseteq DOMAIN groups BY MembersAlive, ChainFacts, ConstantFacts
<1> QED BY <1>1, <1>2

(* The selection is of drawn nodes.                                        *)
LEMMA NodesStep == LayoutInv /\ [Next]_vars => NodesOK'
<1> SUFFICES ASSUME LayoutInv, [Next]_vars PROVE NodesOK'
  OBVIOUS
<1>0. NodesOK BY DEF LayoutInv
<1>1. ASSUME NEW n \in Nodes, EditText(n) PROVE NodesOK'
  BY <1>0, <1>1 DEF EditText, NodesOK
<1>2. ASSUME NEW n \in Nodes, ToggleNode(n) PROVE NodesOK'
  BY <1>0, <1>2 DEF ToggleNode, Toggle, NodesOK
<1>3. ASSUME NEW n \in Nodes, DragStarts(n) PROVE NodesOK'
  <2>1. selection' = selection \/ selection' = {n} BY <1>3 DEF DragStarts
  <2>2. n \in live /\ live' = live BY <1>3 DEF DragStarts
  <2> QED BY <1>0, <2>1, <2>2 DEF NodesOK
<1>4. ASSUME NEW g \in GroupIds, ToggleGroup(g) \/ SelectGroup(g) PROVE NodesOK'
  <2>1. LeafNodes(groups, g) \subseteq live BY MembersAlive
  <2> QED BY <1>0, <1>4, <2>1 DEF ToggleGroup, SelectGroup, Toggle, NodesOK
<1>5. CASE UNCHANGED <<live, selection>> BY <1>0, <1>5 DEF NodesOK
<1>6. (\/ DragEnds \/ Moves \/ GroupSelection \/ UngroupSelection \/ ToggleLockSelection
       \/ TogglePin \/ Relax \/ Regenerate \/ ResetPositions \/ UNCHANGED vars)
          => UNCHANGED <<live, selection>>
  BY DEF DragEnds, Moves, DragMoves, NudgeSelection, ApplyArrange, GroupSelection,
         UngroupSelection, ToggleLockSelection, TogglePin, Relax, Regenerate, ResetPositions, vars
<1> QED BY <1>1, <1>2, <1>3, <1>4, <1>5, <1>6 DEF Next

(* The groups keep their shape.                                            *)
LEMMA GroupsStep == LayoutInv /\ [Next]_vars => GroupsOK'
<1> SUFFICES ASSUME LayoutInv, [Next]_vars PROVE GroupsOK'
  OBVIOUS
<1>0. /\ WellFormed(groups, live) /\ live \subseteq Nodes /\ selection \subseteq live
      /\ groupSeq \in 1..(MaxGroups + 1) /\ DOMAIN groups \subseteq 1..(groupSeq - 1)
  BY DEF LayoutInv, NodesOK, GroupsOK
<1>1. ASSUME NEW n \in Nodes, EditText(n) PROVE GroupsOK'
  <2>1. /\ live' \subseteq Nodes /\ groups' = PruneGroups(groups, live') /\ groupSeq' = groupSeq
    BY <1>0, <1>1 DEF EditText
  <2>2. WellFormed(groups, Nodes) BY <1>0 DEF WellFormed, Group
  <2>3. WellFormed(groups', live') /\ DOMAIN groups' \subseteq DOMAIN groups
    BY <2>1, <2>2, PruneFacts, ConstantFacts
  <2> QED BY <1>0, <2>1, <2>3 DEF GroupsOK
<1>2. CASE GroupSelection
  <2> DEFINE units == {Unit(groups, n) : n \in selection}
  <2>1. /\ groups' = Grouped(groups, groupSeq, units) /\ live' = live
        /\ groupSeq' = groupSeq + 1 /\ groupSeq <= MaxGroups /\ Cardinality(units) > 1
    BY <1>2 DEF GroupSelection
  <2>2. selection # {}
    <3>1. SUFFICES ASSUME selection = {} PROVE FALSE OBVIOUS
    <3>2. units = {} BY <3>1
    <3>3. Cardinality(units) = 0 BY <3>2, FS_EmptySet
    <3> QED BY <2>1, <3>3
  <2>3. groupSeq \in GroupIds BY <1>0, <2>1, ConstantFacts DEF GroupIds
  <2>4. units # {} BY <2>2
  <2>5. /\ units \subseteq live \cup DOMAIN groups
        /\ \A u \in units : ParentsOf(groups, u) = {}
    <3>1. ASSUME NEW n \in selection
          PROVE  Unit(groups, n) \in live \cup DOMAIN groups /\ ParentsOf(groups, Unit(groups, n)) = {}
      <4>1. n \in live BY <1>0
      <4> QED BY <1>0, <4>1, UnitOK
    <3> QED BY <3>1
  <2> HIDE DEF units
  <2>6. groupSeq \notin live BY <1>0, <2>3, ConstantFacts DEF GroupIds
  <2>7. /\ WellFormed(groups', live)
        /\ DOMAIN groups' = DOMAIN groups \cup {groupSeq}
    BY <1>0, <2>1, <2>3, <2>4, <2>5, <2>6, GroupedOK
  <2>8. groupSeq' \in 1..(MaxGroups + 1) /\ DOMAIN groups' \subseteq 1..(groupSeq' - 1)
    BY <1>0, <2>1, <2>7, ConstantFacts
  <2> QED BY <2>1, <2>7, <2>8 DEF GroupsOK
<1>3. CASE UngroupSelection
  <2>1. PICK g \in SelectedTop : groups' = Ungrouped(groups, g)
    BY <1>3 DEF UngroupSelection
  <2>2. live' = live /\ groupSeq' = groupSeq BY <1>3 DEF UngroupSelection
  <2>3. WellFormed(groups', live) /\ DOMAIN groups' \subseteq DOMAIN groups
    BY <1>0, <2>1, SelectedTopOK, UngroupedOK
  <2> QED BY <1>0, <2>2, <2>3 DEF GroupsOK
<1>4. CASE ToggleLockSelection
  <2>1. PICK g \in SelectedTop : groups' = [groups EXCEPT ![g].locked = ~@]
    BY <1>4 DEF ToggleLockSelection
  <2>2. live' = live /\ groupSeq' = groupSeq BY <1>4 DEF ToggleLockSelection
  <2>3. WellFormed(groups', live) /\ DOMAIN groups' = DOMAIN groups
    BY <1>0, <2>1, SelectedTopOK, LockedOK
  <2> QED BY <1>0, <2>2, <2>3 DEF GroupsOK
<1>5. CASE UNCHANGED <<live, groups, groupSeq>> BY <1>0, <1>5 DEF GroupsOK
<1>6. (\/ \E n \in Nodes : ToggleNode(n) \/ DragStarts(n)
       \/ \E g \in GroupIds : ToggleGroup(g) \/ SelectGroup(g)
       \/ DragEnds \/ Moves \/ TogglePin \/ Relax \/ Regenerate \/ ResetPositions
       \/ UNCHANGED vars)
          => UNCHANGED <<live, groups, groupSeq>>
  BY DEF ToggleNode, DragStarts, ToggleGroup, SelectGroup, DragEnds, Moves, DragMoves,
         NudgeSelection, ApplyArrange, TogglePin, Relax, Regenerate, ResetPositions, vars
<1> QED BY <1>1, <1>2, <1>3, <1>4, <1>5, <1>6 DEF Next

-----------------------------------------------------------------------------
(* Positions.                                                              *)

(* A node is at a place.                                                   *)
LEMMA ShownOK ==
    ASSUME OverridesOK, NEW n
    PROVE  Shown(overrides, n) \in Places
BY ConstantFacts DEF OverridesOK, Shown

(* What a move pins and where it puts it; the rest stays.                  *)
LEMMA MovedFacts ==
    ASSUME NEW places, NEW ov
    PROVE  /\ \A n \in DOMAIN places :
                 Shown(Moved(ov, places), n) = places[n] /\ n \in Pinned(Moved(ov, places))
           /\ \A n : n \notin DOMAIN places => Shown(Moved(ov, places), n) = Shown(ov, n)
<1> DEFINE mv == Moved(ov, places)
<1>1. /\ DOMAIN mv = DOMAIN ov \cup DOMAIN places
      /\ \A n \in DOMAIN places : mv[n] = Put(n, places[n])
      /\ \A n \in DOMAIN ov \ DOMAIN places : mv[n] = ov[n]
  BY DEF Moved
<1> HIDE DEF mv
<1>2. \A n \in DOMAIN places : mv[n].at = places[n] /\ mv[n].pinned = TRUE
  BY <1>1 DEF Put
<1>3. \A n \in DOMAIN places : Shown(mv, n) = places[n] /\ n \in Pinned(mv)
  BY <1>1, <1>2 DEF Shown, Pinned
<1>4. \A n : n \notin DOMAIN places => Shown(mv, n) = Shown(ov, n)
  BY <1>1 DEF Shown
<1> QED BY <1>3, <1>4 DEF mv

(* An entry of the overrides.                                              *)
LEMMA EntryOK ==
    ASSUME NEW at \in Places, NEW pinned \in BOOLEAN
    PROVE  [at |-> at, pinned |-> pinned] \in [at : Places, pinned : BOOLEAN]
OBVIOUS

(* The direct moves: of what, and to where.                                *)
LEMMA MovesFacts ==
    ASSUME LayoutInv, Moves
    PROVE  \E places : /\ overrides' = Moved(overrides, places)
                       /\ DOMAIN places \subseteq Nodes /\ InPlace(places)
                       /\ UNCHANGED <<live, groups, groupSeq, selection, drag>>
<1>1. ASSUME NEW d \in {-1, 1}, DragMoves(d)
      PROVE  \E places : /\ overrides' = Moved(overrides, places)
                         /\ DOMAIN places \subseteq Nodes /\ InPlace(places)
                         /\ UNCHANGED <<live, groups, groupSeq, selection, drag>>
  <2> DEFINE places == [n \in drag.ids |-> drag.origin[n] + d]
  <2>1. DOMAIN places \subseteq Nodes
    BY <1>1 DEF LayoutInv, DragOK, DragMoves, Idle
  <2>2. /\ overrides' = Moved(overrides, places) /\ InPlace(places)
        /\ UNCHANGED <<live, groups, groupSeq, selection, drag>>
    BY <1>1 DEF DragMoves
  <2> HIDE DEF places
  <2> QED BY <2>1, <2>2
<1>2. ASSUME NEW d \in {-1, 1}, NudgeSelection(d)
      PROVE  \E places : /\ overrides' = Moved(overrides, places)
                         /\ DOMAIN places \subseteq Nodes /\ InPlace(places)
                         /\ UNCHANGED <<live, groups, groupSeq, selection, drag>>
  <2> DEFINE places == [n \in MovableSelectionLeaves |-> Shown(overrides, n) + d]
  <2>1. DOMAIN places \subseteq Nodes BY MembersAlive DEF MovableSelectionLeaves
  <2>2. /\ overrides' = Moved(overrides, places) /\ InPlace(places)
        /\ UNCHANGED <<live, groups, groupSeq, selection, drag>>
    BY <1>2 DEF NudgeSelection
  <2> HIDE DEF places
  <2> QED BY <2>1, <2>2
<1>3. ASSUME NEW kind \in {"left", "right"}, ApplyArrange(kind)
      PROVE  \E places : /\ overrides' = Moved(overrides, places)
                         /\ DOMAIN places \subseteq Nodes /\ InPlace(places)
                         /\ UNCHANGED <<live, groups, groupSeq, selection, drag>>
  <2> DEFINE target == Side(kind, UNION SelectedUnits)
             delta(n) == target - Side(kind, CHOOSE u \in SelectedUnits : n \in u)
             places == [n \in {m \in UNION SelectedUnits : delta(m) # 0} |->
                           Shown(overrides, n) + delta(n)]
  <2>1. UNION SelectedUnits \subseteq Nodes BY MembersAlive DEF SelectedUnits
  <2>2. DOMAIN places \subseteq Nodes BY <2>1
  <2>3. /\ overrides' = Moved(overrides, places) /\ InPlace(places)
        /\ UNCHANGED <<live, groups, groupSeq, selection, drag>>
    BY <1>3 DEF ApplyArrange
  <2> HIDE DEF places
  <2> QED BY <2>2, <2>3
<1> QED BY <1>1, <1>2, <1>3 DEF Moves

(* The overrides are of nodes, at places.                                  *)
LEMMA OverridesStep == LayoutInv /\ [Next]_vars => OverridesOK'
<1> SUFFICES ASSUME LayoutInv, [Next]_vars PROVE OverridesOK'
  OBVIOUS
<1>0. /\ DOMAIN overrides \subseteq Nodes /\ live \subseteq Nodes /\ selection \subseteq live
      /\ \A n \in DOMAIN overrides : overrides[n] \in [at : Places, pinned : BOOLEAN]
  BY DEF LayoutInv, NodesOK, OverridesOK
<1>1. ASSUME NEW n \in Nodes, EditText(n) PROVE OverridesOK'
  <2>1. overrides' = [m \in DOMAIN overrides \cap live' |-> overrides[m]]
    BY <1>1 DEF EditText, Restrict
  <2> QED BY <1>0, <2>1 DEF OverridesOK
<1>2. CASE Moves
  <2>1. PICK places : /\ overrides' = Moved(overrides, places)
                      /\ DOMAIN places \subseteq Nodes /\ InPlace(places)
                      /\ UNCHANGED <<live, groups, groupSeq, selection, drag>>
    BY <1>2, MovesFacts
  <2>2. /\ DOMAIN overrides' = DOMAIN overrides \cup DOMAIN places
        /\ \A n \in DOMAIN places : overrides'[n] = Put(n, places[n])
        /\ \A n \in DOMAIN overrides \ DOMAIN places : overrides'[n] = overrides[n]
    BY <2>1 DEF Moved
  <2>3. ASSUME NEW n \in DOMAIN places PROVE overrides'[n] \in [at : Places, pinned : BOOLEAN]
    <3>1. places[n] \in Places BY <2>1 DEF InPlace
    <3>2. overrides'[n] = [at |-> places[n], pinned |-> TRUE] BY <2>2 DEF Put
    <3> QED BY <3>1, <3>2, EntryOK
  <2> QED BY <1>0, <2>1, <2>2, <2>3 DEF OverridesOK
<1>3. CASE TogglePin
  <2>1. live' = live BY <1>3 DEF TogglePin
  <2>2. CASE overrides' = Unpinned(overrides, selection)
    <3>1. /\ DOMAIN overrides' = DOMAIN overrides
          /\ \A n \in DOMAIN overrides :
                overrides'[n] = IF n \in selection THEN [overrides[n] EXCEPT !.pinned = FALSE]
                                ELSE overrides[n]
      BY <2>2 DEF Unpinned
    <3>2. \A n \in DOMAIN overrides : overrides'[n] \in [at : Places, pinned : BOOLEAN]
      BY <1>0, <3>1
    <3> QED BY <1>0, <2>1, <3>1, <3>2 DEF OverridesOK
  <2>3. CASE overrides' = PinnedAt(overrides, selection)
    <3>1. /\ DOMAIN overrides' = DOMAIN overrides \cup selection
          /\ \A n \in DOMAIN overrides' :
                overrides'[n] = IF n \in selection
                                THEN [at |-> Shown(overrides, n), pinned |-> TRUE]
                                ELSE overrides[n]
      BY <2>3 DEF PinnedAt, Put
    <3>2. \A n : Shown(overrides, n) \in Places BY ShownOK DEF LayoutInv
    <3>3. ASSUME NEW n \in DOMAIN overrides'
          PROVE  overrides'[n] \in [at : Places, pinned : BOOLEAN]
      <4>1. Shown(overrides, n) \in Places BY <3>2
      <4>2. [at |-> Shown(overrides, n), pinned |-> TRUE] \in [at : Places, pinned : BOOLEAN]
        BY <4>1, EntryOK
      <4> QED BY <1>0, <3>1, <4>2
    <3> QED BY <1>0, <2>1, <3>1, <3>3 DEF OverridesOK
  <2> QED BY <1>3, <2>2, <2>3 DEF TogglePin
<1>4. CASE Relax
  <2>1. live' = live BY <1>4 DEF Relax
  <2>2. PICK delta : LET moved == RelaxScene(overrides, delta) IN
             /\ \A n \in DOMAIN moved : moved[n].at \in Places
             /\ overrides' = [n \in DOMAIN moved \cup Pinned(overrides) |->
                                 IF n \in DOMAIN moved THEN moved[n] ELSE overrides[n]]
    BY <1>4 DEF Relax
  <2> DEFINE moved == RelaxScene(overrides, delta)
  <2>3. /\ DOMAIN moved \subseteq live
        /\ \A n \in DOMAIN moved : moved[n] = [at |-> moved[n].at, pinned |-> FALSE]
    BY DEF RelaxScene
  <2>4. Pinned(overrides) \subseteq DOMAIN overrides BY DEF Pinned
  <2> HIDE DEF moved
  <2>5. /\ DOMAIN overrides' = DOMAIN moved \cup Pinned(overrides)
        /\ \A n \in DOMAIN overrides' :
              overrides'[n] = IF n \in DOMAIN moved THEN moved[n] ELSE overrides[n]
    BY <2>2 DEF moved
  <2>6. ASSUME NEW n \in DOMAIN moved PROVE moved[n] \in [at : Places, pinned : BOOLEAN]
    <3>1. moved[n].at \in Places BY <2>2 DEF moved
    <3>2. moved[n] = [at |-> moved[n].at, pinned |-> FALSE] BY <2>3
    <3>3. [at |-> moved[n].at, pinned |-> FALSE] \in [at : Places, pinned : BOOLEAN]
      BY <3>1, EntryOK
    <3> QED BY <3>2, <3>3
  <2> QED BY <1>0, <2>1, <2>3, <2>4, <2>5, <2>6 DEF OverridesOK
<1>5. CASE Regenerate
  <2>1. overrides' = [m \in Pinned(overrides) |-> overrides[m]] /\ live' = live
    BY <1>5 DEF Regenerate, Restrict
  <2>2. Pinned(overrides) \subseteq DOMAIN overrides BY DEF Pinned
  <2> QED BY <1>0, <2>1, <2>2 DEF OverridesOK
<1>6. CASE ResetPositions BY <1>6 DEF ResetPositions, OverridesOK
<1>7. CASE UNCHANGED <<live, overrides>> BY <1>0, <1>7 DEF OverridesOK
<1>8. (\/ \E n \in Nodes : ToggleNode(n) \/ DragStarts(n)
       \/ \E g \in GroupIds : ToggleGroup(g) \/ SelectGroup(g)
       \/ DragEnds \/ GroupSelection \/ UngroupSelection \/ ToggleLockSelection
       \/ UNCHANGED vars)
          => UNCHANGED <<live, overrides>>
  BY DEF ToggleNode, DragStarts, ToggleGroup, SelectGroup, DragEnds, GroupSelection,
         UngroupSelection, ToggleLockSelection, vars
<1> QED BY <1>1, <1>2, <1>3, <1>4, <1>5, <1>6, <1>7, <1>8 DEF Next

-----------------------------------------------------------------------------
(* The drag.                                                               *)

(* A node of a group has a group above it.                                 *)
LEMMA LeafInGroup ==
    ASSUME NEW gs, Ordered(gs), NEW g, NEW n \in LeafNodes(gs, g)
    PROVE  n \in Nodes /\ ParentsOf(gs, n) # {}
<1>1. n \in Nodes /\ g \in Chain(gs, n) BY DEF LeafNodes
<1>2. ParentsOf(gs, n) = {} => Chain(gs, n) = {} BY ChainOf, ConstantFacts
<1> QED BY <1>1, <1>2

(* What a move takes of a top group, but for what a container brings along: *)
(* all of its leaves or none.                                              *)
LEMMA TakenWhole ==
    ASSUME NodesOK, GroupsOK, NEW g \in DOMAIN groups, ParentsOf(groups, g) = {},
           NEW ns, NEW x \in LeafNodes(groups, g) \ Contents, x \in Taken(ns)
    PROVE  LeafNodes(groups, g) \subseteq Taken(ns)
<1>0. WellFormed(groups, live) /\ live \subseteq Nodes BY DEF NodesOK, GroupsOK
<1>1. PICK n \in ns : x \in UNION {WithContents(m) : m \in UnitNodes(groups, n)} BY DEF Taken
<1>2. PICK m \in UnitNodes(groups, n) : x \in WithContents(m) BY <1>1
<1>3. x = m BY <1>2 DEF WithContents
<1>4. UnitNodes(groups, n) = LeafNodes(groups, g)
  BY <1>0, <1>2, <1>3, UnitIsGroup, ConstantFacts
<1>5. ASSUME NEW y \in LeafNodes(groups, g) PROVE y \in Taken(ns)
  <2>1. y \in UnitNodes(groups, n) BY <1>4
  <2>2. y \in WithContents(y) BY DEF WithContents
  <2>3. y \in UNION {WithContents(k) : k \in UnitNodes(groups, n)} BY <2>1, <2>2
  <2>4. y \in live BY <1>0, LeafOK
  <2> QED BY <2>3, <2>4 DEF Taken
<1> QED BY <1>5

(* A drag goes on holding whole groups, and what is in one has come as far *)
(* as the rest: an edit only makes groups smaller.                         *)
LEMMA DragStep == LayoutInv /\ [Next]_vars => DragOK'
<1> SUFFICES ASSUME LayoutInv, [Next]_vars PROVE DragOK'
  OBVIOUS
<1>0. /\ DragOK /\ NodesOK /\ GroupsOK /\ \A n : Shown(overrides, n) \in Places
      /\ WellFormed(groups, live) /\ Ordered(groups) /\ live \subseteq Nodes
  BY ShownOK, MembersAlive DEF LayoutInv
<1>1. ASSUME NEW n \in Nodes, DragStarts(n) PROVE DragOK'
  <2> DEFINE ids == Taken(selection')
             origin == [m \in ids |-> Shown(overrides, m)]
  <2>0. UNCHANGED <<live, groups, overrides>> BY <1>1 DEF DragStarts
  <2>1. drag' = NoDrag \/ drag' = [ids |-> ids, origin |-> origin]
    BY <1>1 DEF DragStarts
  <2>2. CASE drag' = NoDrag BY <2>2 DEF DragOK
  <2>3. CASE drag' = [ids |-> ids, origin |-> origin]
    <3>1. ids \subseteq Nodes BY MembersAlive
    <3>2. origin \in [ids -> Places] BY <1>0
    <3>3. ASSUME NEW m \in ids PROVE Shown(overrides, m) - origin[m] = 0
      <4>1. origin[m] = Shown(overrides, m) OBVIOUS
      <4>2. Shown(overrides, m) \in Int BY <1>0, ConstantFacts
      <4> QED BY <4>1, <4>2
    <3>4. ASSUME NEW g \in DOMAIN groups, ParentsOf(groups, g) = {},
                 NEW x \in LeafNodes(groups, g) \ Contents, x \in ids
          PROVE  LeafNodes(groups, g) \subseteq ids
      BY <1>0, <3>4, TakenWhole
    <3> HIDE DEF ids, origin
    <3>5. drag'.ids = ids /\ drag'.origin = origin BY <2>3
    <3>6. drag' \in [ids : {ids}, origin : [ids -> Places]] BY <2>3, <3>2
    <3>7. HoldsGroups' BY <2>0, <3>4, <3>5 DEF HoldsGroups, ParentsOf, LeafNodes
    <3>8. Together' BY <2>0, <3>3, <3>5 DEF Together, Far, Shown
    <3> QED BY <3>1, <3>5, <3>6, <3>7, <3>8 DEF DragOK
  <2> QED BY <2>1, <2>2, <2>3
<1>2. ASSUME NEW d \in {-1, 1}, DragMoves(d) PROVE DragOK'
  <2> DEFINE places == [n \in drag.ids |-> drag.origin[n] + d]
  <2>1. /\ drag # NoDrag /\ overrides' = Moved(overrides, places)
        /\ live' = live /\ groups' = groups /\ drag' = drag
    BY <1>2 DEF DragMoves, Idle
  <2>3. \A n \in drag.ids : places[n] = drag.origin[n] + d OBVIOUS
  <2>4. DOMAIN places = drag.ids OBVIOUS
  <2> HIDE DEF places
  <2>5. \A n \in drag.ids : Shown(overrides', n) = drag.origin[n] + d
    BY <2>1, <2>3, <2>4, MovedFacts
  <2>6. /\ drag.ids \subseteq Nodes /\ HoldsGroups
        /\ drag \in [ids : {drag.ids}, origin : [drag.ids -> Places]]
    BY <1>0, <2>1 DEF DragOK
  <2>7. \A n \in drag.ids : drag.origin[n] \in Int BY <2>6, ConstantFacts
  <2>8. \A n \in drag.ids : Shown(overrides', n) - drag.origin[n] = d BY <2>5, <2>7
  <2>9. Together' BY <2>1, <2>8 DEF Together, Far, Shown
  <2>10. HoldsGroups' BY <2>1, <2>6 DEF HoldsGroups, ParentsOf, LeafNodes
  <2> QED BY <2>1, <2>6, <2>9, <2>10 DEF DragOK
<1>3. ASSUME NEW e \in Nodes, EditText(e), drag # NoDrag PROVE DragOK'
  <2>1. /\ live' \subseteq Nodes /\ groups' = PruneGroups(groups, live') /\ drag' = drag
        /\ overrides' = [m \in DOMAIN overrides \cap live' |-> overrides[m]]
    BY <1>0, <1>3 DEF EditText, Restrict
  <2>2. WellFormed(groups, Nodes) BY <1>0 DEF WellFormed, Group
  <2>3. /\ WellFormed(groups', live') /\ Ordered(groups') /\ DOMAIN groups' \subseteq DOMAIN groups
    BY <2>1, <2>2, PruneFacts, ConstantFacts DEF WellFormed
  <2>4. /\ \A m : ParentsOf(groups', m) \subseteq ParentsOf(groups, m)
        /\ \A g \in DOMAIN groups' : ParentsOf(groups', g) = ParentsOf(groups, g)
    BY <2>1, <2>2, PruneKeeps, ConstantFacts
  <2>5. \A n : Chain(groups', n) \subseteq Chain(groups, n)
    BY <1>0, <2>3, <2>4, ChainShrinks, ConstantFacts
  <2>6. \A g : LeafNodes(groups', g) \subseteq LeafNodes(groups, g) BY <2>5 DEF LeafNodes
  <2>7. /\ drag.ids \subseteq Nodes /\ HoldsGroups /\ Together
        /\ drag \in [ids : {drag.ids}, origin : [drag.ids -> Places]]
    BY <1>0, <1>3 DEF DragOK
  <2>8. ASSUME NEW g \in DOMAIN groups', ParentsOf(groups', g) = {},
               NEW x \in LeafNodes(groups', g) \ Contents, x \in drag.ids
        PROVE  LeafNodes(groups', g) \subseteq drag.ids
    <3>1. g \in DOMAIN groups /\ ParentsOf(groups, g) = {} BY <2>3, <2>4, <2>8
    <3>2. x \in LeafNodes(groups, g) \ Contents BY <2>6
    <3>3. LeafNodes(groups, g) \subseteq drag.ids BY <2>7, <2>8, <3>1, <3>2 DEF HoldsGroups
    <3> QED BY <2>6, <3>3
  <2>9. ASSUME NEW n \in drag.ids, ParentsOf(groups', n) # {}
        PROVE  Shown(overrides', n) = Shown(overrides, n) /\ ParentsOf(groups, n) # {}
    <3>1. PICK g \in DOMAIN groups' : n \in groups'[g].members BY <2>9 DEF ParentsOf
    <3>2. n \in live' \cup DOMAIN groups' BY <2>3, <3>1 DEF WellFormed, Group
    <3>3. n \notin DOMAIN groups' BY <2>3, <2>7, ConstantFacts DEF Ordered, GroupIds
    <3>4. n \in live' BY <3>2, <3>3
    <3> QED BY <2>1, <2>4, <2>9, <3>4 DEF Shown
  <2>10. HoldsGroups' BY <2>1, <2>8 DEF HoldsGroups, ParentsOf, LeafNodes
  <2>11. Together'
    <3>1. SUFFICES ASSUME NEW m \in drag.ids, NEW n \in drag.ids,
                          ParentsOf(groups', m) # {}, ParentsOf(groups', n) # {}
                   PROVE  Shown(overrides', m) - drag.origin[m] = Shown(overrides', n) - drag.origin[n]
      BY <2>1 DEF Together, Far, Shown, ParentsOf
    <3>2. Far(m) = Far(n) BY <2>7, <2>9, <3>1 DEF Together
    <3> QED BY <2>9, <3>1, <3>2 DEF Far
  <2> QED BY <2>1, <2>7, <2>10, <2>11 DEF DragOK
<1>4. CASE UNCHANGED vars
  <2>1. UNCHANGED <<overrides, live, groups, drag>> BY <1>4 DEF vars
  <2> QED BY <1>0, <2>1 DEF DragOK, HoldsGroups, Together, Far, Shown, ParentsOf, LeafNodes
<1>5. CASE drag' = NoDrag BY <1>5 DEF DragOK
<1>6. (\/ \E n \in Nodes : (EditText(n) /\ drag = NoDrag) \/ ToggleNode(n)
       \/ \E g \in GroupIds : ToggleGroup(g) \/ SelectGroup(g)
       \/ \E d \in {-1, 1} : NudgeSelection(d)
       \/ \E kind \in {"left", "right"} : ApplyArrange(kind)
       \/ DragEnds \/ GroupSelection \/ UngroupSelection \/ ToggleLockSelection
       \/ TogglePin \/ Relax \/ Regenerate \/ ResetPositions)
          => drag' = NoDrag
  BY DEF EditText, ToggleNode, ToggleGroup, SelectGroup, NudgeSelection, ApplyArrange, DragEnds,
         GroupSelection, UngroupSelection, ToggleLockSelection, TogglePin, Relax, Regenerate,
         ResetPositions, Idle
<1> QED BY <1>1, <1>2, <1>3, <1>4, <1>5, <1>6 DEF Next, Moves

(* The parts together are inductive.                                       *)
THEOREM LayoutInvariant == Spec => []LayoutInv
<1>1. Init => LayoutInv BY InitInv
<1>2. LayoutInv /\ [Next]_vars => LayoutInv'
  BY NodesStep, GroupsStep, OverridesStep, DragStep DEF LayoutInv
<1> QED BY <1>1, <1>2, PTL DEF Spec

(* The invariant implies the types.                                        *)
LEMMA TypeParts == LayoutInv => TypeOK
<1> SUFFICES ASSUME LayoutInv PROVE TypeOK OBVIOUS
<1>1. /\ live \subseteq Nodes /\ selection \subseteq live /\ WellFormed(groups, live)
      /\ groupSeq \in 1..(MaxGroups + 1) /\ DOMAIN groups \subseteq 1..(groupSeq - 1)
  BY DEF LayoutInv, NodesOK, GroupsOK
<1>2. ASSUME NEW g \in DOMAIN groups
      PROVE  groups[g] \in [members : SUBSET (Nodes \cup GroupIds), locked : BOOLEAN]
  <2>1. groups[g] \in Group(live, groups) /\ DOMAIN groups \subseteq GroupIds
    BY <1>1 DEF WellFormed, Ordered
  <2> QED BY <1>1, <2>1 DEF Group
<1>3. /\ DOMAIN overrides \subseteq Nodes
      /\ \A n \in DOMAIN overrides : overrides[n] \in [at : Int, pinned : BOOLEAN]
  BY ConstantFacts DEF LayoutInv, OverridesOK
<1>4. drag.ids \subseteq Nodes
  BY DEF LayoutInv, DragOK, NoDrag
<1> QED BY <1>1, <1>2, <1>3, <1>4 DEF TypeOK

(* Every variable has its type.                                            *)
THEOREM TypeCorrect == Spec => []TypeOK
BY LayoutInvariant, TypeParts, PTL

-----------------------------------------------------------------------------
(* The shape of the groups is that of a forest.                            *)
LEMMA ForestFollows == LayoutInv => Forest
<1> SUFFICES ASSUME LayoutInv PROVE Forest OBVIOUS
<1>1. WellFormed(groups, live) /\ Ordered(groups) BY MembersAlive
<1>2. ASSUME NEW m PROVE Cardinality(ParentsOf(groups, m)) <= 1
  <2>1. CASE ParentsOf(groups, m) = {} BY <2>1, FS_EmptySet
  <2>2. CASE ParentsOf(groups, m) # {}
    <3>1. PICK g : g \in ParentsOf(groups, m) BY <2>2
    <3>2. ParentsOf(groups, m) = {g} BY <1>1, <3>1, OneParent
    <3>3. Cardinality({g}) = 1 BY FS_Singleton
    <3> QED BY <3>2, <3>3
  <2> QED BY <2>1, <2>2
<1>3. ASSUME NEW g \in DOMAIN groups
      PROVE  groups[g].members # {} /\ groups[g].members \subseteq live \cup DOMAIN groups
  BY <1>1 DEF WellFormed, Group
<1>4. ASSUME NEW g \in DOMAIN groups PROVE g \notin Chain(groups, g)
  <2>1. \A h \in Chain(groups, g) : h > g BY <1>1, ChainIsNewer, ConstantFacts
  <2>2. g \in Nat BY <1>1 DEF Ordered, GroupIds
  <2> QED BY <2>1, <2>2
<1> QED BY <1>2, <1>3, <1>4 DEF Forest

(* The groups stay a forest over the drawn nodes.                          *)
THEOREM ForestHolds == Spec => []Forest
BY LayoutInvariant, ForestFollows, PTL

-----------------------------------------------------------------------------
(* What moves.                                                             *)

Still(n) == Shown(overrides', n) = Shown(overrides, n)

(* A move pins what it moves.                                              *)
LEMMA MovesPin == LayoutInv /\ Moves => PinsWhatMoves
<1> SUFFICES ASSUME LayoutInv, Moves PROVE PinsWhatMoves OBVIOUS
<1>1. PICK places : overrides' = Moved(overrides, places) BY MovesFacts
<1>2. ASSUME NEW n \in live, Shift(n) # 0 PROVE n \in Pinned(overrides')
  <2>1. Shown(overrides, n) \in Int BY ShownOK, ConstantFacts DEF LayoutInv
  <2>2. n \in DOMAIN places
    <3>1. SUFFICES ASSUME n \notin DOMAIN places PROVE FALSE OBVIOUS
    <3>2. Shown(overrides', n) = Shown(overrides, n) BY <1>1, <3>1, MovedFacts
    <3> QED BY <1>2, <2>1, <3>2 DEF Shift
  <2> QED BY <1>1, <2>2, MovedFacts
<1> QED BY <1>2 DEF PinsWhatMoves

(* Every other step leaves a node where it is or without a pin, and moves  *)
(* no pinned one that stands alone, unless it is a reset.                  *)
LEMMA OthersStill ==
    ASSUME LayoutInv, [Next]_vars, ~Moves
    PROVE  /\ \A n : Still(n) \/ n \notin Pinned(overrides')
           /\ \A n \in (Pinned(overrides) \cap live') \ Contents : Still(n) \/ overrides' = << >>
<1>1. ASSUME NEW m \in Nodes, EditText(m)
      PROVE  /\ \A n : Still(n) \/ n \notin Pinned(overrides')
             /\ \A n \in (Pinned(overrides) \cap live') \ Contents : Still(n)
  <2>1. overrides' = [n \in DOMAIN overrides \cap live' |-> overrides[n]]
    BY <1>1 DEF EditText, Restrict
  <2>2. /\ DOMAIN overrides' = DOMAIN overrides \cap live'
        /\ \A n \in DOMAIN overrides' : overrides'[n] = overrides[n]
    BY <2>1
  <2> QED BY <2>2 DEF Still, Shown, Pinned
<1>2. CASE TogglePin
  <2>0. selection \subseteq live BY DEF LayoutInv, NodesOK
  <2>1. CASE overrides' = Unpinned(overrides, selection)
    <3>1. /\ DOMAIN overrides' = DOMAIN overrides
          /\ \A n \in DOMAIN overrides :
                overrides'[n] = IF n \in selection THEN [overrides[n] EXCEPT !.pinned = FALSE]
                                ELSE overrides[n]
      BY <2>1 DEF Unpinned
    <3>2. \A n \in DOMAIN overrides : overrides'[n].at = overrides[n].at
      BY <3>1 DEF LayoutInv, OverridesOK
    <3> QED BY <3>1, <3>2 DEF Still, Shown
  <2>2. CASE overrides' = PinnedAt(overrides, selection)
    <3>1. /\ DOMAIN overrides' = DOMAIN overrides \cup selection
          /\ \A n \in DOMAIN overrides' :
                overrides'[n] = IF n \in selection
                                THEN [at |-> Shown(overrides, n), pinned |-> TRUE]
                                ELSE overrides[n]
      BY <2>2 DEF PinnedAt, Put
    <3>2. ASSUME NEW n PROVE Still(n)
      <4>1. CASE n \in selection
        <5>1. n \in DOMAIN overrides' BY <3>1, <4>1
        <5>2. overrides'[n] = [at |-> Shown(overrides, n), pinned |-> TRUE] BY <3>1, <4>1, <5>1
        <5>3. overrides'[n].at = Shown(overrides, n) BY <5>2
        <5>4. Shown(overrides', n) = overrides'[n].at BY <5>1 DEF Shown
        <5> QED BY <5>3, <5>4 DEF Still
      <4>2. CASE n \notin selection BY <3>1, <4>2 DEF Still, Shown
      <4> QED BY <4>1, <4>2
    <3> QED BY <3>2
  <2> QED BY <1>2, <2>1, <2>2 DEF TogglePin
<1>3. CASE Relax
  <2>1. PICK delta : LET moved == RelaxScene(overrides, delta) IN
             overrides' = [n \in DOMAIN moved \cup Pinned(overrides) |->
                              IF n \in DOMAIN moved THEN moved[n] ELSE overrides[n]]
    BY <1>3 DEF Relax
  <2> DEFINE moved == RelaxScene(overrides, delta)
  <2>2. \A n \in DOMAIN moved : moved[n].pinned = FALSE /\ Top(n) \notin Pinned(overrides)
    BY DEF RelaxScene
  <2> HIDE DEF moved
  <2>3. /\ DOMAIN overrides' = DOMAIN moved \cup Pinned(overrides)
        /\ \A n \in DOMAIN overrides' :
              overrides'[n] = IF n \in DOMAIN moved THEN moved[n] ELSE overrides[n]
    BY <2>1 DEF moved
  <2>4. Pinned(overrides) \subseteq DOMAIN overrides BY DEF Pinned
  <2>5. ASSUME NEW n \in Pinned(overrides) \ DOMAIN moved PROVE Still(n)
    <3>1. overrides'[n] = overrides[n] /\ n \in DOMAIN overrides' /\ n \in DOMAIN overrides
      BY <2>3, <2>4
    <3> QED BY <3>1 DEF Still, Shown
  <2>6. ASSUME NEW n, n \in Pinned(overrides') PROVE n \in Pinned(overrides) \ DOMAIN moved
    <3>1. n \in DOMAIN overrides' /\ overrides'[n].pinned BY <2>6 DEF Pinned
    <3>2. n \notin DOMAIN moved BY <2>2, <2>3, <3>1
    <3> QED BY <2>3, <3>1, <3>2
  <2>7. ASSUME NEW n \in Pinned(overrides) \ Contents PROVE n \notin DOMAIN moved
    <3>1. Top(n) = n BY DEF Top
    <3> QED BY <2>2, <3>1
  <2> QED BY <2>5, <2>6, <2>7
<1>4. CASE Regenerate
  <2>1. overrides' = [m \in Pinned(overrides) |-> overrides[m]]
    BY <1>4 DEF Regenerate, Restrict
  <2>2. Pinned(overrides) \subseteq DOMAIN overrides BY DEF Pinned
  <2>3. \A n \in Pinned(overrides) : Still(n) BY <2>1, <2>2 DEF Still, Shown
  <2>4. Pinned(overrides') \subseteq Pinned(overrides) BY <2>1 DEF Pinned
  <2> QED BY <2>3, <2>4
<1>5. CASE ResetPositions
  <2>1. overrides' = << >> BY <1>5 DEF ResetPositions
  <2> QED BY <2>1 DEF Pinned
<1>6. CASE UNCHANGED overrides BY <1>6 DEF Still
<1>7. (\/ \E n \in Nodes : ToggleNode(n) \/ DragStarts(n)
       \/ \E g \in GroupIds : ToggleGroup(g) \/ SelectGroup(g)
       \/ DragEnds \/ GroupSelection \/ UngroupSelection \/ ToggleLockSelection
       \/ UNCHANGED vars)
          => UNCHANGED overrides
  BY DEF ToggleNode, DragStarts, ToggleGroup, SelectGroup, DragEnds, GroupSelection,
         UngroupSelection, ToggleLockSelection, vars
<1> QED BY <1>1, <1>2, <1>3, <1>4, <1>5, <1>6, <1>7 DEF Next

(* A node that stays has not shifted.                                      *)
LEMMA StillShift ==
    ASSUME LayoutInv, NEW n, Still(n)
    PROVE  Shift(n) = 0
<1>1. Shown(overrides, n) \in Int BY ShownOK, ConstantFacts DEF LayoutInv
<1> QED BY <1>1 DEF Still, Shift

(* Pins hold over each step.                                               *)
LEMMA PinsStep ==
    LayoutInv /\ [Next]_vars =>
        \A n \in (Pinned(overrides) \cap live') \ Contents :
            Shift(n) # 0 => PinsWhatMoves \/ overrides' = << >>
BY MovesPin, OthersStill, StillShift

(* A pinned node that stands alone moves only by a direct move or a reset. *)
THEOREM PinsHoldHolds == Spec => PinsHold
<1>1. LayoutInv /\ [Next]_vars =>
          [\A n \in (Pinned(overrides) \cap live') \ Contents :
              Shift(n) # 0 => PinsWhatMoves \/ overrides' = << >>]_vars
  BY PinsStep
<1> QED BY <1>1, LayoutInvariant, PTL DEF PinsHold, Spec

-----------------------------------------------------------------------------
(* UnitIsGroup for the groups of a state.                                  *)
LEMMA UnitWhole ==
    ASSUME LayoutInv, NEW g \in DOMAIN groups, ParentsOf(groups, g) = {},
           NEW n, NEW x \in LeafNodes(groups, g), x \in UnitNodes(groups, n)
    PROVE  UnitNodes(groups, n) = LeafNodes(groups, g)
<1>1. WellFormed(groups, live) /\ MaxGroups \in Nat BY MembersAlive, ConstantFacts
<1> QED BY <1>1, UnitIsGroup

(* The edge of a selection is a coordinate.                                *)
LEMMA SideInt ==
    ASSUME LayoutInv, NEW kind \in {"left", "right"}, NEW ns, ns # {}
    PROVE  Side(kind, ns) \in Int
<1> DEFINE ats == {Shown(overrides, n) : n \in ns}
           lows == {a + MaxAt : a \in ats}
           highs == {MaxAt - a : a \in ats}
<1>1. ats \subseteq Places /\ ats # {} BY ShownOK DEF LayoutInv
<1>2. MaxAt \in Nat BY ConstantFacts
<1>3. lows \subseteq Nat /\ highs \subseteq Nat /\ lows # {} /\ highs # {}
  <2>1. \A a \in ats : a + MaxAt \in Nat /\ MaxAt - a \in Nat BY <1>1, <1>2 DEF Places
  <2> HIDE DEF ats
  <2> QED BY <1>1, <2>1
<1>4. \E a \in ats : \A b \in ats : a =< b
  <2> HIDE DEF ats
  <2>1. PICK m \in lows : \A k \in lows : m <= k
    <3> HIDE DEF lows
    <3> QED BY <1>3, LeastNat
  <2>2. PICK a \in ats : m = a + MaxAt OBVIOUS
  <2>3. ASSUME NEW b \in ats PROVE a <= b
    <3>1. m <= b + MaxAt BY <2>1
    <3>2. a \in Int /\ b \in Int BY <1>1 DEF Places
    <3> QED BY <1>2, <2>2, <3>1, <3>2
  <2> QED BY <2>3
<1>5. \E a \in ats : \A b \in ats : a >= b
  <2> HIDE DEF ats
  <2>1. PICK m \in highs : \A k \in highs : m <= k
    <3> HIDE DEF highs
    <3> QED BY <1>3, LeastNat
  <2>2. PICK a \in ats : m = MaxAt - a OBVIOUS
  <2>3. ASSUME NEW b \in ats PROVE a >= b
    <3>1. m <= MaxAt - b BY <2>1
    <3>2. a \in Int /\ b \in Int BY <1>1 DEF Places
    <3> QED BY <1>2, <2>2, <3>1, <3>2
  <2> QED BY <2>3
<1>6. Side(kind, ns) = Min(ats) \/ Side(kind, ns) = Max(ats) BY DEF Side
<1> HIDE DEF ats
<1>7. Min(ats) \in ats BY <1>4 DEF Min
<1>8. Max(ats) \in ats BY <1>5 DEF Max
<1> QED BY <1>1, <1>6, <1>7, <1>8, ConstantFacts

(* A direct move moves all leaves of a top group by the same distance.     *)
LEMMA MovesRigidly ==
    ASSUME LayoutInv, Moves, NEW g \in DOMAIN groups, ParentsOf(groups, g) = {},
           LeafNodes(groups, g) \cap Contents = {}
    PROVE  \E d : \A n \in LeafNodes(groups, g) : Shift(n) = d
<1>0. /\ LeafNodes(groups, g) \subseteq live
      /\ \A n : Shown(overrides, n) \in Int
      /\ NodesOK /\ GroupsOK /\ Ordered(groups)
  BY MembersAlive, ShownOK, ConstantFacts DEF LayoutInv
<1>1. ASSUME NEW places, overrides' = Moved(overrides, places), NEW d \in Int,
             \/ LeafNodes(groups, g) \cap DOMAIN places = {}
             \/ /\ LeafNodes(groups, g) \subseteq DOMAIN places
                /\ \A n \in LeafNodes(groups, g) : places[n] = Shown(overrides, n) + d
      PROVE  \E e : \A n \in LeafNodes(groups, g) : Shift(n) = e
  <2>1. CASE LeafNodes(groups, g) \cap DOMAIN places = {}
    <3>1. ASSUME NEW n \in LeafNodes(groups, g) PROVE Shift(n) = 0
      <4>1. Still(n) BY <1>1, <2>1, MovedFacts DEF Still
      <4> QED BY <4>1, StillShift
    <3> QED BY <3>1
  <2>2. CASE /\ LeafNodes(groups, g) \subseteq DOMAIN places
             /\ \A n \in LeafNodes(groups, g) : places[n] = Shown(overrides, n) + d
    <3>1. ASSUME NEW n \in LeafNodes(groups, g) PROVE Shift(n) = d
      <4>1. Shown(overrides', n) = places[n] BY <1>1, <2>2, MovedFacts
      <4>2. Shown(overrides', n) = Shown(overrides, n) + d BY <2>2, <4>1
      <4> QED BY <1>0, <1>1, <4>2 DEF Shift
    <3> QED BY <3>1
  <2> QED BY <1>1, <2>1, <2>2
<1>2. ASSUME NEW d \in {-1, 1}, DragMoves(d)
      PROVE  \E e : \A n \in LeafNodes(groups, g) : Shift(n) = e
  <2> DEFINE places == [n \in drag.ids |-> drag.origin[n] + d]
  <2>1. overrides' = Moved(overrides, places) /\ drag # NoDrag BY <1>2 DEF DragMoves, Idle
  <2>2. HoldsGroups /\ Together /\ \A n \in drag.ids : drag.origin[n] \in Int
    <3>1. DragOK BY DEF LayoutInv
    <3>2. drag \in [ids : {drag.ids}, origin : [drag.ids -> Places]] BY <2>1, <3>1 DEF DragOK
    <3> QED BY <2>1, <3>1, <3>2, ConstantFacts DEF DragOK
  <2>3. DOMAIN places = drag.ids /\ \A n \in drag.ids : places[n] = drag.origin[n] + d OBVIOUS
  <2> HIDE DEF places
  <2>4. CASE LeafNodes(groups, g) \cap drag.ids = {}
    <3>1. LeafNodes(groups, g) \cap DOMAIN places = {} BY <2>3, <2>4
    <3> QED BY <1>1, <2>1, <3>1
  <2>5. CASE LeafNodes(groups, g) \cap drag.ids # {}
    <3>1. PICK x \in LeafNodes(groups, g) : x \in drag.ids BY <2>5
    <3>2. LeafNodes(groups, g) \subseteq drag.ids BY <2>2, <3>1 DEF HoldsGroups
    <3> DEFINE e == drag.origin[x] + d - Shown(overrides, x)
    <3>3. e \in Int BY <1>0, <2>2, <3>1
    <3>4. ASSUME NEW n \in LeafNodes(groups, g) PROVE places[n] = Shown(overrides, n) + e
      <4>1. n \in drag.ids BY <3>2
      <4>2. Shown(overrides, n) - drag.origin[n] = Shown(overrides, x) - drag.origin[x]
        <5>1. ParentsOf(groups, n) # {} /\ ParentsOf(groups, x) # {} BY <1>0, LeafInGroup
        <5> QED BY <2>2, <3>1, <4>1, <5>1 DEF Together, Far
      <4>3. drag.origin[n] \in Int /\ drag.origin[x] \in Int BY <2>2, <3>1, <4>1
      <4>4. Shown(overrides, n) \in Int /\ Shown(overrides, x) \in Int BY <1>0
      <4>5. drag.origin[n] + d = Shown(overrides, n) + e BY <4>2, <4>3, <4>4
      <4> QED BY <2>3, <4>1, <4>5
    <3> HIDE DEF e
    <3> QED BY <1>1, <2>1, <2>3, <3>2, <3>3, <3>4
  <2> QED BY <2>4, <2>5
<1>3. ASSUME NEW d \in {-1, 1}, NudgeSelection(d)
      PROVE  \E e : \A n \in LeafNodes(groups, g) : Shift(n) = e
  <2> DEFINE taken == Taken({n \in selection : ~PathLocked(groups, n)})
             places == [n \in taken |-> Shown(overrides, n) + d]
  <2>1. overrides' = Moved(overrides, places) BY <1>3 DEF NudgeSelection, MovableSelectionLeaves
  <2>2. DOMAIN places = taken /\ \A n \in taken : places[n] = Shown(overrides, n) + d OBVIOUS
  <2>3. ASSUME NEW x \in LeafNodes(groups, g), x \in taken
        PROVE  LeafNodes(groups, g) \subseteq taken
    BY <1>0, <2>3, TakenWhole
  <2> HIDE DEF taken, places
  <2>4. \/ LeafNodes(groups, g) \cap taken = {}
        \/ LeafNodes(groups, g) \subseteq taken
    BY <2>3
  <2>5. \/ LeafNodes(groups, g) \cap DOMAIN places = {}
        \/ /\ LeafNodes(groups, g) \subseteq DOMAIN places
           /\ \A n \in LeafNodes(groups, g) : places[n] = Shown(overrides, n) + d
    BY <2>2, <2>4
  <2> QED BY <1>1, <2>1, <2>5
<1>4. ASSUME NEW kind \in {"left", "right"}, ApplyArrange(kind)
      PROVE  \E e : \A n \in LeafNodes(groups, g) : Shift(n) = e
  <2> DEFINE target == Side(kind, UNION SelectedUnits)
             delta(n) == target - Side(kind, CHOOSE u \in SelectedUnits : n \in u)
             places == [n \in {m \in UNION SelectedUnits : delta(m) # 0} |->
                           Shown(overrides, n) + delta(n)]
             own == target - Side(kind, LeafNodes(groups, g))
  <2>1. overrides' = Moved(overrides, places) BY <1>4 DEF ApplyArrange
  <2>2. ASSUME NEW u \in SelectedUnits, NEW x \in LeafNodes(groups, g), x \in u
        PROVE  u = LeafNodes(groups, g)
    <3>1. PICK n \in selection : u = UnitNodes(groups, n) \cap live BY DEF SelectedUnits
    <3>2. UnitNodes(groups, n) = LeafNodes(groups, g) BY <2>2, <3>1, UnitWhole
    <3> QED BY <1>0, <3>1, <3>2
  <2>3. CASE LeafNodes(groups, g) \cap UNION SelectedUnits = {}
    <3>1. LeafNodes(groups, g) \cap DOMAIN places = {} BY <2>3
    <3> HIDE DEF places
    <3> QED BY <1>1, <2>1, <3>1
  <2>4. CASE LeafNodes(groups, g) \cap UNION SelectedUnits # {}
    <3>1. LeafNodes(groups, g) \in SelectedUnits /\ LeafNodes(groups, g) # {}
      BY <2>2, <2>4
    <3>2. LeafNodes(groups, g) \subseteq UNION SelectedUnits /\ UNION SelectedUnits # {}
      BY <3>1
    <3>3. own \in Int BY <3>1, <3>2, SideInt
    <3>4. ASSUME NEW n \in LeafNodes(groups, g)
          PROVE  (CHOOSE u \in SelectedUnits : n \in u) = LeafNodes(groups, g)
      <4>1. \A u \in SelectedUnits : n \in u <=> u = LeafNodes(groups, g) BY <2>2
      <4> QED BY <3>1, <4>1
    <3>5. \A n \in LeafNodes(groups, g) : delta(n) = own BY <3>4
    <3> HIDE DEF delta, own
    <3>6. DOMAIN places = {m \in UNION SelectedUnits : delta(m) # 0} OBVIOUS
    <3>7. \A n \in DOMAIN places : places[n] = Shown(overrides, n) + delta(n) OBVIOUS
    <3> HIDE DEF places
    <3>8. CASE own = 0
      <4>1. LeafNodes(groups, g) \cap DOMAIN places = {} BY <3>5, <3>6, <3>8
      <4> QED BY <1>1, <2>1, <4>1
    <3>9. CASE own # 0
      <4>1. LeafNodes(groups, g) \subseteq DOMAIN places BY <3>2, <3>5, <3>6, <3>9
      <4>2. \A n \in LeafNodes(groups, g) : places[n] = Shown(overrides, n) + own
        BY <3>5, <3>7, <4>1
      <4> QED BY <1>1, <2>1, <3>3, <4>1, <4>2
    <3> QED BY <3>8, <3>9
  <2> QED BY <2>3, <2>4
<1> QED BY <1>2, <1>3, <1>4 DEF Moves

(* A group keeps its shape over each step that pins what it moves.         *)
LEMMA RigidStep ==
    ASSUME LayoutInv, [Next]_vars, PinsWhatMoves,
           NEW g \in DOMAIN groups, ParentsOf(groups, g) = {},
           LeafNodes(groups, g) \cap Contents = {}
    PROVE  \A m, n \in LeafNodes(groups, g) : Shift(m) = Shift(n)
<1>1. LeafNodes(groups, g) \subseteq live BY MembersAlive
<1>2. CASE Moves BY <1>2, MovesRigidly
<1>3. CASE ~Moves
  <2>1. ASSUME NEW n \in LeafNodes(groups, g) PROVE Shift(n) = 0
    <3>1. n \in live BY <1>1
    <3>2. Still(n) \/ n \notin Pinned(overrides') BY <1>3, OthersStill
    <3>3. CASE Still(n) BY <3>3, StillShift
    <3>4. CASE n \notin Pinned(overrides') BY <3>1, <3>4 DEF PinsWhatMoves
    <3> QED BY <3>2, <3>3, <3>4
  <2> QED BY <2>1
<1> QED BY <1>2, <1>3

(* A group keeps its shape.                                                *)
THEOREM GroupsMoveRigidlyHolds == Spec => GroupsMoveRigidly
<1>1. LayoutInv /\ [Next]_vars =>
          [PinsWhatMoves =>
              \A g \in DOMAIN groups :
                 ParentsOf(groups, g) = {} /\ LeafNodes(groups, g) \cap Contents = {} =>
                    \A m, n \in Unlocked(g) : Shift(m) = Shift(n)]_vars
  BY RigidStep DEF Unlocked
<1> QED BY <1>1, LayoutInvariant, PTL DEF GroupsMoveRigidly, Spec
=============================================================================
