------------------------ MODULE FamilyLayoutsProofs ------------------------
(***************************************************************************)
(* Proofs about FamilyLayouts, for any diagrams a parser may yield and any *)
(* folded groups.                                                          *)
(* First come numbers, loops and the calendar, with the theorems that the  *)
(* scene is the layout of what is shown and that bars are where the        *)
(* calendar puts them; then the families that line things up, one by one;  *)
(* then those that nest boxes: recursion along the nesting, the packings   *)
(* within a container, the scene they make; and that every scene is sound. *)
(***************************************************************************)
EXTENDS FamilyLayouts, FiniteSetTheorems, SequenceTheorems, WellFoundedInduction, TLAPS

-----------------------------------------------------------------------------
(* Numbers, iterations and greatest elements.                              *)

(* A set of numbers has a least one.                                       *)
LEMMA LeastNat ==
    ASSUME NEW S, S \subseteq Nat, S # {}
    PROVE  \E m \in S : \A k \in S : m <= k
<1>1. IsWellFoundedOn(OpToRel(<, Nat), Nat) BY NatLessThanWellFounded
<1>2. PICK m \in S : \A k \in S : ~ (<<k, m>> \in OpToRel(<, Nat)) BY <1>1, WFMin
<1>3. \A k \in S : ~ (k < m) BY <1>2 DEF OpToRel
<1> QED BY <1>3

(* What holds of 0 and passes from each number up to N to the next holds   *)
(* up to N; T is the set of numbers it holds of.                           *)
LEMMA UpTo ==
    ASSUME NEW N \in Nat, NEW T, 0 \in T,
           \A k \in 1..N : k - 1 \in T => k \in T
    PROVE  \A k \in 0..N : k \in T
<1>1. SUFFICES ASSUME (0..N) \ T # {} PROVE FALSE OBVIOUS
<1>2. PICK m \in (0..N) \ T : \A k \in (0..N) \ T : m <= k
  <2>1. (0..N) \ T \subseteq Nat OBVIOUS
  <2> QED BY <1>1, <2>1, LeastNat
<1>3. m # 0 /\ m \in 1..N BY <1>2
<1>4. m - 1 \in 0..N /\ m - 1 < m BY <1>3
<1>5. m - 1 \in T BY <1>2, <1>4
<1> QED BY <1>2, <1>3, <1>5

(* A loop from a value on: F[k, v] is what round k makes of the value v.   *)
IsLoop(f, N, a, F) == f[0] = a /\ \A k \in 1..N : f[k] = F[k, f[k - 1]]

(* Every loop over a set of values has such a function.                    *)
LEMMA Loop ==
    ASSUME NEW N \in Nat, NEW S, NEW a \in S, NEW F \in [(1..N) \X S -> S]
    PROVE  \E f \in [0..N -> S] : IsLoop(f, N, a, F)
<1> DEFINE It(n, f) == f = [k \in 0..n |-> IF k = 0 THEN a ELSE F[k, f[k - 1]]]
           T == {n \in 0..N : \E f \in [0..n -> S] : It(n, f)}
<1>1. 0 \in T
  <2> DEFINE f == [k \in 0..0 |-> a]
  <2>1. f \in [0..0 -> S] OBVIOUS
  <2>2. It(0, f) /\ 0 \in 0..N OBVIOUS
  <2> HIDE DEF It, f
  <2> QED BY <2>1, <2>2
<1>2. ASSUME NEW n \in 1..N, n - 1 \in T PROVE n \in T
  <2>1. PICK f \in [0..(n - 1) -> S] : It(n - 1, f) BY <1>2
  <2> DEFINE g == [k \in 0..n |-> IF k = n THEN F[n, f[n - 1]] ELSE f[k]]
  <2>2. n - 1 \in 0..(n - 1) /\ f[n - 1] \in S OBVIOUS
  <2>3. g \in [0..n -> S]
    <3>1. ASSUME NEW k \in 0..n, k # n PROVE k \in 0..(n - 1) BY <3>1
    <3>2. F[n, f[n - 1]] \in S BY <2>2
    <3> QED BY <3>1, <3>2
  <2>4. ASSUME NEW k \in 0..n
        PROVE  g[k] = IF k = 0 THEN a ELSE F[k, g[k - 1]]
    <3>1. CASE k = n
      <4>1. n - 1 \in 0..n /\ n - 1 # n /\ n # 0 OBVIOUS
      <4>2. g[n - 1] = f[n - 1] BY <4>1
      <4> QED BY <3>1, <4>1, <4>2
    <3>2. CASE k # n
      <4>1. k \in 0..(n - 1) BY <3>2
      <4>2. g[k] = f[k] /\ f[k] = IF k = 0 THEN a ELSE F[k, f[k - 1]] BY <2>1, <3>2, <4>1
      <4>3. CASE k = 0 BY <4>2, <4>3
      <4>4. CASE k # 0
        <5>1. k - 1 \in 0..n /\ k - 1 # n BY <4>1, <4>4
        <5>2. g[k - 1] = f[k - 1] BY <5>1
        <5> QED BY <4>2, <4>4, <5>2
      <4> QED BY <4>3, <4>4
    <3> QED BY <3>1, <3>2
  <2>5. It(n, g) BY <2>3, <2>4
  <2>6. n \in 0..N OBVIOUS
  <2> HIDE DEF It, g
  <2> QED BY <2>3, <2>5, <2>6
<1>3. \A k \in 0..N : k \in T
  <2> HIDE DEF T
  <2> QED BY <1>1, <1>2, UpTo
<1>4. PICK f \in [0..N -> S] : It(N, f)
  <2>1. N \in 0..N OBVIOUS
  <2> QED BY <1>3, <2>1
<1>5. f[0] = a
  <2>1. 0 \in 0..N OBVIOUS
  <2> QED BY <1>4, <2>1
<1>6. ASSUME NEW k \in 1..N PROVE f[k] = F[k, f[k - 1]]
  <2>1. k \in 0..N /\ k # 0 OBVIOUS
  <2> QED BY <1>4, <2>1
<1> QED BY <1>5, <1>6 DEF IsLoop

(* What a function makes of a finite set is finite.                        *)
LEMMA ImageFinite ==
    ASSUME NEW f, IsFiniteSet(DOMAIN f), f = [x \in DOMAIN f |-> f[x]]
    PROVE  IsFiniteSet({f[x] : x \in DOMAIN f})
<1> DEFINE T == {f[x] : x \in DOMAIN f}
<1>1. f \in Surjection(DOMAIN f, T) BY DEF Surjection
<1> QED BY <1>1, FS_Surjection

(* A finite set of numbers that is not empty has a greatest and a least.   *)
LEMMA Extremes ==
    ASSUME NEW S, IsFiniteSet(S), S \subseteq Int, S # {}
    PROVE  /\ Max(S) \in S /\ \A x \in S : x <= Max(S)
           /\ Min(S) \in S /\ \A x \in S : Min(S) <= x
<1> DEFINE c == Cardinality(S)
<1>1. c \in Nat /\ c # 0 BY FS_CardinalityType, FS_EmptySet
<1>2. PICK e \in [1..c -> S] : \A x \in S : \E i \in 1..c : e[i] = x
  BY FS_CardinalityType DEF ExistsBijection, Bijection, Surjection
<1> HIDE DEF c
<1>n. \A i \in 1..c : e[i] \in Int OBVIOUS
<1> DEFINE T == {n \in 0..c : n # 0 =>
                    /\ \E m \in 1..n : \A i \in 1..n : e[i] <= e[m]
                    /\ \E m \in 1..n : \A i \in 1..n : e[m] <= e[i]}
<1>3. 0 \in T BY <1>1
<1>4. ASSUME NEW n \in 1..c, n - 1 \in T PROVE n \in T
  <2>1. CASE n = 1
    <3>1. \A i \in 1..n : i = 1 BY <2>1
    <3>2. 1 \in 1..n /\ e[1] \in Int BY <1>1, <1>n, <2>1
    <3>3. e[1] <= e[1] BY <3>2
    <3>4. n \in 0..c BY <1>1
    <3> QED BY <3>1, <3>2, <3>3, <3>4
  <2>2. CASE n # 1
    <3>0. n - 1 \in T /\ n - 1 # 0 BY <1>4, <2>2
    <3>1. PICK m \in 1..(n - 1) : \A i \in 1..(n - 1) : e[i] <= e[m] BY ONLY <3>0
    <3>2. PICK l \in 1..(n - 1) : \A i \in 1..(n - 1) : e[l] <= e[i] BY ONLY <3>0
    <3>3. \A i \in 1..n : e[i] \in Int /\ (i = n \/ i \in 1..(n - 1)) BY <1>1, <1>n
    <3>4. \E k \in 1..n : \A i \in 1..n : e[i] <= e[k]
      <4>n. n \in 1..n /\ m \in 1..n /\ n \in Int BY <1>1
      <4>p. e[n] \in Int /\ e[m] \in Int BY <3>3, <4>n
      <4>q. e[n] <= e[m] \/ e[m] < e[n] BY <4>p
      <4>1. CASE e[n] <= e[m] BY <3>1, <3>3, <4>1, <4>n
      <4>2. CASE e[m] < e[n]
        <5>1. \A i \in 1..n : e[i] <= e[n] BY <3>1, <3>3, <4>2, <4>n
        <5> QED BY <4>n, <5>1
      <4> QED BY <4>1, <4>2, <4>q
    <3>5. \E k \in 1..n : \A i \in 1..n : e[k] <= e[i]
      <4>n. n \in 1..n /\ l \in 1..n /\ n \in Int BY <1>1
      <4>p. e[n] \in Int /\ e[l] \in Int BY <3>3, <4>n
      <4>q. e[l] <= e[n] \/ e[n] < e[l] BY <4>p
      <4>1. CASE e[l] <= e[n] BY <3>2, <3>3, <4>1, <4>n
      <4>2. CASE e[n] < e[l]
        <5>1. \A i \in 1..n : e[n] <= e[i] BY <3>2, <3>3, <4>2, <4>n
        <5> QED BY <4>n, <5>1
      <4> QED BY <4>1, <4>2, <4>q
    <3>6. n \in 0..c BY <1>1
    <3> QED BY <3>4, <3>5, <3>6
  <2> QED BY <2>1, <2>2
<1>5. c \in T
  <2> HIDE DEF T
  <2>1. c \in 0..c BY <1>1
  <2> QED BY <1>1, <1>3, <1>4, <2>1, UpTo
<1>6. \E x \in S : \A y \in S : y <= x
  <2>1. PICK m \in 1..c : \A i \in 1..c : e[i] <= e[m] BY <1>1, <1>5
  <2> QED BY <1>2, <2>1
<1>7. \E x \in S : \A y \in S : x <= y
  <2>1. PICK m \in 1..c : \A i \in 1..c : e[m] <= e[i] BY <1>1, <1>5
  <2> QED BY <1>2, <2>1
<1>8. \E x \in S : \A y \in S : x >= y BY <1>6
<1>9. Max(S) \in S /\ \A y \in S : Max(S) >= y BY <1>8 DEF Max
<1>10. Min(S) \in S /\ \A y \in S : Min(S) =< y BY <1>7 DEF Min
<1> QED BY <1>9, <1>10
-----------------------------------------------------------------------------
(* The calendar of a chart.                                                *)

LEMMA Ticks == TicksPerDay \in Nat /\ TicksPerDay > 0
BY TicksAssumption

LEMMA TimesOrder ==
    ASSUME NEW a \in Int, NEW b \in Int, a <= b, NEW c \in Nat
    PROVE  a * c <= b * c
<1>1. (b - a) \in Nat OBVIOUS
<1>2. (b - a) * c >= 0 BY <1>1
<1>3. (b - a) * c = b * c - a * c OBVIOUS
<1> QED BY <1>2, <1>3

(* Quotient and remainder, and that there is one way to write them.        *)
LEMMA DivModInt ==
    ASSUME NEW n \in Int, NEW c \in Nat, c > 0
    PROVE  /\ n \div c \in Int /\ n % c \in Nat /\ n % c < c
           /\ n = c * (n \div c) + (n % c)
OBVIOUS

LEMMA DivIs ==
    ASSUME NEW n \in Int, NEW c \in Nat, c > 0, NEW q \in Int, NEW r \in 0..(c - 1), n = c * q + r
    PROVE  n \div c = q /\ n % c = r
<1>1. /\ n \div c \in Int /\ n % c \in Nat /\ n % c < c
      /\ n = c * (n \div c) + (n % c) BY DivModInt
<1> DEFINE p == n \div c
           s == n % c
<1> HIDE DEF p, s
<1>2. p \in Int /\ s \in Nat /\ s < c /\ c * p + s = c * q + r BY <1>1 DEF p, s
<1>3. c * (p - q) = r - s BY <1>2
<1>4. ~(p - q >= 1)
  <2>1. ASSUME p - q >= 1 PROVE c * (p - q) >= c BY <1>2, <2>1
  <2> QED BY <1>2, <1>3, <2>1
<1>5. ~(p - q <= -1)
  <2>1. ASSUME p - q <= -1 PROVE c * (p - q) <= -c BY <1>2, <2>1
  <2> QED BY <1>2, <1>3, <2>1
<1>6. p = q BY <1>2, <1>4, <1>5
<1>7. s = r BY <1>2, <1>6
<1> QED BY <1>6, <1>7 DEF p, s

(* Days later, at the same time of day.                                    *)
LEMMA LaterStep ==
    ASSUME NEW m \in Int, NEW k \in Int
    PROVE  /\ Later(m, k) \in Int /\ Later(m, 0) = m
           /\ Later(m, k) + TicksPerDay = Later(m, k + 1)
           /\ \A j \in Int : Later(Later(m, k), j) = Later(m, k + j)
           /\ Later(m, 1) = m + TicksPerDay
BY Ticks DEF Later

LEMMA LaterOnce ==
    ASSUME NEW m \in Int, NEW j \in Int, NEW k \in Int, Later(m, j) = Later(m, k)
    PROVE  j = k
<1>1. \A a, b \in Int : a < b => a * TicksPerDay + TicksPerDay <= b * TicksPerDay
  <2>1. TAKE a, b \in Int
  <2>2. HAVE a < b
  <2>3. (a + 1) * TicksPerDay <= b * TicksPerDay BY <2>2, Ticks, TimesOrder
  <2> QED BY <2>3, Ticks
<1> DEFINE u == j * TicksPerDay
           v == k * TicksPerDay
<1>2. u \in Int /\ v \in Int BY Ticks
<1>3. m + u = m + v BY DEF Later
<1>4. u = v
  <2> HIDE DEF u, v
  <2> QED BY <1>2, <1>3
<1> QED BY <1>1, <1>2, <1>4, Ticks

LEMMA LaterDay ==
    ASSUME NEW m \in Int, NEW k \in Int
    PROVE  /\ Later(m, k) \div TicksPerDay = (m \div TicksPerDay) + k
           /\ Later(m, k) % TicksPerDay = m % TicksPerDay
<1> DEFINE T == TicksPerDay
           q == m \div T
           r == m % T
<1>1. q \in Int /\ r \in 0..(T - 1) /\ m = T * q + r /\ T \in Nat /\ T > 0 BY Ticks, DivModInt
<1>2. Later(m, k) = T * (q + k) + r
  <2>1. Later(m, k) = m + k * T BY DEF Later
  <2> HIDE DEF q, r, T
  <2>2. T * (q + k) = T * q + k * T BY <1>1
  <2> QED BY <1>1, <2>1, <2>2
<1>3. Later(m, k) \in Int BY LaterStep
<1> HIDE DEF T, q, r
<1> QED BY <1>1, <1>2, <1>3, DivIs DEF T, q, r

(* Of three days in a row one is no day of a weekend.                      *)
LEMMA WeekdaySoon ==
    ASSUME NEW day \in Int
    PROVE  ~IsWeekend(day) \/ ~IsWeekend(day + 1) \/ ~IsWeekend(day + 2)
BY DEF IsWeekend

(* From any moment on, one of the next LongestOff days works at that time: *)
(* else each three of them would hold another listed day off.              *)
LEMMA WorkSoon ==
    ASSUME NEW d, GanttDiagram(d), NEW m \in Int
    PROVE  /\ LongestOff(d) \in Nat
           /\ \E k \in 0..(LongestOff(d) - 1) : ~IsExcluded(d, Later(m, k))
<1> DEFINE off == d.excludeDates
           c == Cardinality(off)
           day == m \div TicksPerDay
<1>1. IsFiniteSet(off) /\ off \subseteq Int BY DEF GanttDiagram
<1>2. c \in Nat BY <1>1, FS_CardinalityType
<1>3. LongestOff(d) = 3 * c + 3 BY DEF LongestOff
<1>d. day \in Int BY Ticks, DivModInt
<1> HIDE DEF off, c, day
<1>4. SUFFICES ASSUME \A k \in 0..(3 * c + 2) : IsExcluded(d, Later(m, k)) PROVE FALSE
  BY <1>2, <1>3
<1>5. \A i \in 0..c : \E x \in off : \E j \in 0..2 : Later(m, 3 * i + j) = x * TicksPerDay
  <2>1. TAKE i \in 0..c
  <2>2. PICK j \in 0..2 : ~IsWeekend(day + (3 * i + j))
    <3>1. day + 3 * i \in Int BY <1>2, <1>d
    <3>2. day + 3 * i = day + (3 * i + 0) /\ (day + 3 * i) + 1 = day + (3 * i + 1)
          /\ (day + 3 * i) + 2 = day + (3 * i + 2) BY <1>2, <1>d
    <3> QED BY <3>1, <3>2, WeekdaySoon
  <2>3. 3 * i + j \in 0..(3 * c + 2) /\ 3 * i + j \in Int BY <1>2
  <2>4. IsExcluded(d, Later(m, 3 * i + j)) BY <1>4, <2>3
  <2>5. Later(m, 3 * i + j) \div TicksPerDay = day + (3 * i + j) BY <2>3, LaterDay DEF day
  <2> QED BY <2>2, <2>4, <2>5 DEF IsExcluded, off
<1> DEFINE f == [i \in 0..c |-> CHOOSE x \in off : \E j \in 0..2 :
                                   Later(m, 3 * i + j) = x * TicksPerDay]
<1>6. \A i \in 0..c : f[i] \in off /\ \E j \in 0..2 : Later(m, 3 * i + j) = f[i] * TicksPerDay
  BY <1>5
<1>7. f \in [0..c -> off] BY <1>6
<1>8. IsFiniteSet(0..c) /\ Cardinality(0..c) = c + 1 BY <1>2, FS_Interval
<1>9. PICK x, y \in 0..c : x # y /\ f[x] = f[y]
  <2>1. IsFiniteSet(off) /\ c = Cardinality(off) BY <1>1 DEF c
  <2>2. Cardinality(off) < Cardinality(0..c) BY <1>2, <1>8, <2>1
  <2> DEFINE threes == 0..c
  <2>3. f \in [threes -> off] /\ IsFiniteSet(threes) /\ Cardinality(off) < Cardinality(threes)
    BY <1>7, <1>8, <2>2
  <2> HIDE DEF f, threes
  <2>4. \E x, y \in threes : x # y /\ f[x] = f[y] BY <2>1, <2>3, FS_PigeonHole, ZenonT(60)
  <2> QED BY <2>4 DEF threes
<1>10. PICK j \in 0..2, k \in 0..2 : Later(m, 3 * x + j) = Later(m, 3 * y + k)
  <2>1. PICK j \in 0..2 : Later(m, 3 * x + j) = f[x] * TicksPerDay BY <1>6
  <2>2. PICK k \in 0..2 : Later(m, 3 * y + k) = f[y] * TicksPerDay BY <1>6
  <2> HIDE DEF f
  <2> QED BY <1>9, <2>1, <2>2
<1>11. 3 * x + j = 3 * y + k
  <2>1. 3 * x + j \in Int /\ 3 * y + k \in Int BY <1>2
  <2> QED BY <1>10, <2>1, LaterOnce
<1>12. x = y BY <1>2, <1>11
<1> QED BY <1>9, <1>12

(* The walk of NextWorking ends on the first day that works at that time.  *)
LEMMA NextWorkingFirst ==
    ASSUME NEW d, GanttDiagram(d), NEW m \in Int
    PROVE  /\ NextWorking(d, m) \in Int /\ ~IsExcluded(d, NextWorking(d, m))
           /\ \E k \in 0..LongestOff(d) :
                /\ NextWorking(d, m) = Later(m, k)
                /\ \A j \in 0..(k - 1) : IsExcluded(d, Later(m, j))
<1> DEFINE N == LongestOff(d)
           Step(x) == IF IsExcluded(d, x) THEN Later(x, 1) ELSE x
           Walk(w) == w = [n \in 0..N |-> IF n = 0 THEN m
                             ELSE LET prev == w[n - 1]
                                  IN IF IsExcluded(d, prev) THEN Later(prev, 1) ELSE prev]
           walk == CHOOSE w : Walk(w)
           S == Int
           F == [p \in (1..N) \X S |-> Step(p[2])]
<1>1. N \in Nat BY WorkSoon
<1>2. PICK g \in [0..N -> S] : IsLoop(g, N, m, F)
  <2>1. \A x \in S : Later(x, 1) \in S BY LaterStep
  <2>2. F \in [(1..N) \X S -> S] /\ m \in S BY <2>1
  <2> HIDE DEF F, N, S
  <2> QED BY <1>1, <2>2, Loop
<1>3. Walk(g)
  <2>1. ASSUME NEW n \in 1..N PROVE g[n] = Step(g[n - 1])
    <3>1. n - 1 \in 0..N BY <1>1
    <3>2. g[n - 1] \in Int BY <3>1
    <3> QED BY <1>2, <3>2 DEF IsLoop
  <2>2. ASSUME NEW n \in 0..N PROVE n = 0 \/ n \in 1..N BY <1>1
  <2> HIDE DEF F, N
  <2> QED BY <1>2, <2>1, <2>2 DEF IsLoop
<1>4. Walk(walk) BY <1>3
<1>5. NextWorking(d, m) = walk[N] BY DEF NextWorking
<1> HIDE DEF walk, N
<1>6. walk[0] = m BY <1>1, <1>4
<1>7. ASSUME NEW n \in 1..N PROVE walk[n] = Step(walk[n - 1])
  <2>1. n \in 0..N /\ n # 0 BY <1>1
  <2> QED BY <1>4, <2>1
<1> HIDE DEF Walk
<1> DEFINE T == {n \in 0..N : \E k \in 0..n :
                   /\ walk[n] = Later(m, k)
                   /\ \A j \in 0..(k - 1) : IsExcluded(d, Later(m, j))
                   /\ IsExcluded(d, walk[n]) => k = n}
<1>8. 0 \in T
  <2>1. 0 \in 0..0 /\ Later(m, 0) = m BY LaterStep
  <2> QED BY <1>1, <1>6, <2>1
<1>9. ASSUME NEW n \in 1..N, n - 1 \in T PROVE n \in T
  <2>1. n \in 0..N /\ n \in Int BY <1>1
  <2>2. PICK k \in 0..(n - 1) :
          /\ walk[n - 1] = Later(m, k)
          /\ \A j \in 0..(k - 1) : IsExcluded(d, Later(m, j))
          /\ IsExcluded(d, walk[n - 1]) => k = n - 1 BY <1>9
  <2>k. k \in Int /\ k \in 0..n BY <2>1
  <2>3. CASE IsExcluded(d, walk[n - 1])
    <3>1. walk[n] = Later(m, n)
      <4>1. walk[n] = Later(Later(m, k), 1) /\ k + 1 = n BY <1>7, <2>1, <2>2, <2>3
      <4>2. Later(Later(m, k), 1) = Later(m, k + 1)
        <5>1. 1 \in Int OBVIOUS
        <5> QED BY ONLY m \in Int, <2>k, <5>1, LaterStep
      <4> QED BY <4>1, <4>2
    <3>2. \A j \in 0..(n - 1) : j = k \/ j \in 0..(k - 1) BY <2>1, <2>2, <2>3
    <3>3. n \in 0..n BY <2>1
    <3> QED BY <2>1, <2>2, <2>3, <3>1, <3>2, <3>3
  <2>4. CASE ~IsExcluded(d, walk[n - 1])
    <3>1. walk[n] = walk[n - 1] BY <1>7, <2>4
    <3> QED BY <2>1, <2>2, <2>k, <2>4, <3>1
  <2> QED BY <2>3, <2>4
<1>10. N \in T
  <2>1. N \in 0..N BY <1>1
  <2> HIDE DEF T
  <2> QED BY <1>1, <1>8, <1>9, <2>1, UpTo
<1>11. PICK k \in 0..N : /\ walk[N] = Later(m, k)
                         /\ \A j \in 0..(k - 1) : IsExcluded(d, Later(m, j))
                         /\ IsExcluded(d, walk[N]) => k = N
  BY <1>10
<1>12. ~IsExcluded(d, walk[N])
  <2>1. SUFFICES ASSUME IsExcluded(d, walk[N]) PROVE FALSE OBVIOUS
  <2>2. PICK i \in 0..(N - 1) : ~IsExcluded(d, Later(m, i)) BY WorkSoon DEF N
  <2> QED BY <1>11, <2>1, <2>2
<1>13. walk[N] \in Int BY <1>1, <1>11, LaterStep
<1> QED BY <1>5, <1>11, <1>12, <1>13 DEF N

(* A duration takes the days it begins, the last of them in part or whole. *)
LEMMA DaysTaken ==
    ASSUME NEW duration \in Nat
    PROVE  LET N == DaysBegun(duration)
               rest == duration - (N - 1) * TicksPerDay
           IN  /\ N \in Nat /\ rest \in Int /\ (duration = 0 <=> N = 0)
               /\ duration > 0 => N > 0 /\ rest > 0 /\ rest <= TicksPerDay
<1> DEFINE T == TicksPerDay
           n == duration + T - 1
           q == n \div T
           r == n % T
<1>1. T \in Nat /\ T > 0 BY Ticks
<1>2. n \in Nat BY <1>1
<1>3. DaysBegun(duration) = q BY DEF DaysBegun
<1> HIDE DEF T, n
<1>4. q \in Nat /\ r \in Nat /\ r < T /\ n = T * q + r
  <2>1. q \in Int /\ r \in Nat /\ r < T /\ n = T * q + r BY <1>1, <1>2, DivModInt
  <2>2. q >= 0
    <3>1. SUFFICES ASSUME q <= -1 PROVE FALSE BY <2>1
    <3> HIDE DEF q, r
    <3>2. q * T <= (-1) * T BY <1>1, <2>1, <3>1, TimesOrder
    <3> QED BY <1>1, <1>2, <2>1, <3>2
  <2> QED BY <2>1, <2>2
<1> HIDE DEF q, r
<1>5. (q - 1) * T \in Int /\ (q - 1) * T = T * q - T BY <1>1, <1>4
<1>6. duration - (q - 1) * T = r + 1
  <2> DEFINE u == T * q
             v == (q - 1) * T
  <2>1. u \in Int /\ v = u - T /\ n = u + r BY <1>1, <1>4, <1>5
  <2> HIDE DEF u, v
  <2>2. duration + T - 1 = u + r BY <2>1 DEF n
  <2>3. duration - v = r + 1 BY <1>1, <1>4, <2>1, <2>2
  <2> QED BY <2>3 DEF v
<1>7. duration = 0 => q = 0
  <2>1. SUFFICES ASSUME duration = 0, q >= 1 PROVE FALSE BY <1>4
  <2>2. 1 * T <= q * T BY <1>1, <1>4, <2>1, TimesOrder
  <2>3. n = T - 1 BY <1>1, <2>1 DEF n
  <2> QED BY <1>1, <1>4, <2>2, <2>3
<1>8. duration > 0 => q > 0
  <2>1. SUFFICES ASSUME duration > 0, q = 0 PROVE FALSE BY <1>4
  <2>2. n = r BY <1>1, <1>4, <2>1
  <2> QED BY <1>1, <1>4, <2>1, <2>2 DEF n
<1>9. duration = 0 <=> q = 0 BY <1>7, <1>8
<1>10. r + 1 \in Int /\ r + 1 > 0 /\ r + 1 <= T BY <1>1, <1>4
<1> QED BY <1>3, <1>4, <1>6, <1>8, <1>9, <1>10 DEF T

(* A duration is spent on the first days that work from the start on, as   *)
(* many as it begins, always at the time of day of the start; the last of  *)
(* them in part or whole.                                                  *)
Spent(d, start, duration, e) ==
    LET N == DaysBegun(duration)
    IN  /\ e \in Int /\ e >= start
        /\ duration = 0 => e = start
        /\ duration > 0 => \E k \in 0..(e - start) :
             /\ ~IsExcluded(d, Later(start, k))
             /\ Cardinality({j \in 0..k : ~IsExcluded(d, Later(start, j))}) = N
             /\ e = Later(start, k) + duration - (N - 1) * TicksPerDay

LEMMA WorkingEndSpends ==
    ASSUME NEW d, GanttDiagram(d), NEW start \in Int, NEW duration \in Nat
    PROVE  Spent(d, start, duration, WorkingEnd(d, start, duration))
<1> DEFINE N == DaysBegun(duration)
           rest == duration - (N - 1) * TicksPerDay
           Step(n, x) == NextWorking(d, x) + (IF n < N THEN TicksPerDay ELSE rest)
           Plain(n, x) == NextWorking(d, x)
                 + (IF n < DaysBegun(duration) THEN TicksPerDay
                    ELSE duration - (n - 1) * TicksPerDay)
           Walk(w) == w = [n \in 0..DaysBegun(duration) |-> IF n = 0 THEN start ELSE Plain(n, w[n - 1])]
           day == CHOOSE w : Walk(w)
           S == Int
           F == [p \in (1..N) \X S |-> Step(p[1], p[2])]
           Worked(k) == {j \in 0..(k - 1) : ~IsExcluded(d, Later(start, j))}
           works(x) == ~IsExcluded(d, x)
<1>1. /\ N \in Nat /\ rest \in Int /\ (duration = 0 <=> N = 0)
      /\ duration > 0 => N > 0 /\ rest > 0 /\ rest <= TicksPerDay BY DaysTaken
<1>2. WorkingEnd(d, start, duration) = day[N] BY DEF WorkingEnd
<1> HIDE DEF N
<1>3. \A n \in 1..N : \A x \in Int : Plain(n, x) = Step(n, x)
  <2>1. TAKE n \in 1..N
  <2>2. n < N \/ n = N BY <1>1
  <2> QED BY <2>2 DEF N
<1> HIDE DEF rest
<1>4. \A n \in 1..N : \A x \in Int : Step(n, x) \in Int BY <1>1, NextWorkingFirst, Ticks
<1>5. PICK g \in [0..N -> S] : IsLoop(g, N, start, F)
  <2>1. F \in [(1..N) \X S -> S] /\ start \in S BY <1>4
  <2> HIDE DEF F, S
  <2> QED BY <1>1, <2>1, Loop
<1>6. Walk(g)
  <2>1. ASSUME NEW n \in 1..N PROVE g[n] = Plain(n, g[n - 1])
    <3>1. n - 1 \in 0..N BY <1>1
    <3>2. g[n - 1] \in Int BY <3>1
    <3>3. F[n, g[n - 1]] = Step(n, g[n - 1]) BY <3>2
    <3> HIDE DEF F, Step, Plain
    <3> QED BY <1>3, <1>5, <3>2, <3>3 DEF IsLoop
  <2>2. ASSUME NEW n \in 0..N PROVE n = 0 \/ n \in 1..N BY <1>1
  <2> HIDE DEF F, Plain
  <2> QED BY <1>5, <2>1, <2>2 DEF IsLoop, N
<1>7. Walk(day) BY <1>6
<1> HIDE DEF day
<1>8. day[0] = start
  <2>1. 0 \in 0..N BY <1>1
  <2> QED BY <1>7, <2>1 DEF N
<1>9. ASSUME NEW n \in 1..N, day[n - 1] \in Int PROVE day[n] = Step(n, day[n - 1])
  <2>1. n \in 0..N /\ n # 0 BY <1>1
  <2>2. day[n] = Plain(n, day[n - 1])
    <3> HIDE DEF Plain
    <3> QED BY <1>7, <2>1 DEF N
  <2> HIDE DEF Plain, Step
  <2> QED BY <1>3, <1>9, <2>2
<1> HIDE DEF Walk
\* Where the n-th day that works is, when n - 1 are behind.
<1>10. ASSUME NEW n \in Nat, NEW k \in Nat, Cardinality(Worked(k)) = n
       PROVE  \E i \in Nat : /\ NextWorking(d, Later(start, k)) = Later(start, i)
                              /\ works(Later(start, i)) /\ Cardinality(Worked(i + 1)) = n + 1
  <2>1. Later(start, k) \in Int BY LaterStep
  <2>2. PICK l \in 0..LongestOff(d) :
          /\ NextWorking(d, Later(start, k)) = Later(Later(start, k), l)
          /\ \A j \in 0..(l - 1) : IsExcluded(d, Later(Later(start, k), j))
    BY <2>1, NextWorkingFirst
  <2>3. LongestOff(d) \in Nat BY WorkSoon
  <2> DEFINE i == k + l
  <2>4. l \in Nat /\ i \in Nat BY <2>3
  <2>5. \A j \in Int : Later(Later(start, k), j) = Later(start, k + j) BY LaterStep
  <2>6. NextWorking(d, Later(start, k)) = Later(start, i) BY <2>2, <2>4, <2>5
  <2>7. works(Later(start, i)) BY <2>1, <2>6, NextWorkingFirst
  <2>8. \A j \in k..(i - 1) : IsExcluded(d, Later(start, j))
    <3>1. TAKE j \in k..(i - 1)
    <3>2. j - k \in 0..(l - 1) /\ k + (j - k) = j /\ j - k \in Int BY <2>4
    <3> QED BY <2>2, <2>5, <3>2
  <2> HIDE DEF i
  <2>9. k <= i BY <2>4 DEF i
  <2>10. Worked(i + 1) = Worked(k) \cup {i} /\ i \notin Worked(k)
    <3>1. ASSUME NEW j \in Worked(i + 1), j # i PROVE j \in Worked(k)
      <4>1. j \in 0..i /\ ~IsExcluded(d, Later(start, j)) BY <2>4
      <4>2. j \notin k..(i - 1) BY <2>8, <4>1
      <4> QED BY <2>4, <3>1, <4>1, <4>2
    <3>2. ASSUME NEW j \in Worked(k) PROVE j \in Worked(i + 1) /\ j # i BY <2>4, <2>9
    <3>3. i \in Worked(i + 1) BY <2>4, <2>7
    <3> HIDE DEF Worked
    <3> QED BY <3>1, <3>2, <3>3
  <2>11. IsFiniteSet(Worked(k))
    <3>1. IsFiniteSet(0..(k - 1)) BY FS_Interval
    <3> QED BY <3>1, FS_Subset
  <2>12. Cardinality(Worked(i + 1)) = n + 1
    <3> HIDE DEF Worked
    <3> QED BY <1>10, <2>10, <2>11, FS_AddElement
  <2> QED BY <2>4, <2>6, <2>7, <2>12
<1> DEFINE T == {n \in 0..N : n < N => \E k \in Nat :
                    day[n] = Later(start, k) /\ Cardinality(Worked(k)) = n}
<1>11. 0 \in T
  <2>1. Worked(0) = {} OBVIOUS
  <2>2. Cardinality(Worked(0)) = 0 BY <2>1, FS_EmptySet
  <2>3. Later(start, 0) = start BY LaterStep
  <2> HIDE DEF Worked
  <2> QED BY <1>1, <1>8, <2>2, <2>3
<1>12. ASSUME NEW n \in 1..N, n - 1 \in T PROVE n \in T
  <2>1. n \in 0..N /\ n - 1 < N /\ n - 1 \in Nat BY <1>1
  <2>2. SUFFICES ASSUME n < N
                 PROVE \E k \in Nat : day[n] = Later(start, k) /\ Cardinality(Worked(k)) = n
    BY <2>1
  <2>3. PICK k \in Nat : day[n - 1] = Later(start, k) /\ Cardinality(Worked(k)) = n - 1
    BY <1>12, <2>1
  <2> HIDE DEF Worked
  <2>4. PICK i \in Nat : /\ NextWorking(d, Later(start, k)) = Later(start, i)
                         /\ Cardinality(Worked(i + 1)) = (n - 1) + 1
    BY <1>10, <2>1, <2>3
  <2>5. day[n - 1] \in Int BY <2>3, LaterStep
  <2>6. day[n] = Later(start, i) + TicksPerDay BY <1>9, <2>2, <2>3, <2>4, <2>5
  <2>7. day[n] = Later(start, i + 1) BY <2>6, LaterStep
  <2>8. Cardinality(Worked(i + 1)) = n /\ i + 1 \in Nat BY <2>1, <2>4
  <2> QED BY <2>7, <2>8
<1>13. \A n \in 0..N : n \in T
  <2> HIDE DEF T
  <2> QED BY <1>1, <1>11, <1>12, UpTo
<1>14. ASSUME duration = 0 PROVE Spent(d, start, duration, day[N])
  <2>1. day[N] = start BY <1>1, <1>8, <1>14
  <2>2. ~(duration > 0) BY <1>14
  <2>3. Spent(d, start, duration, start) BY <1>14, <2>2 DEF Spent
  <2> QED BY <2>1, <2>3
<1>15. ASSUME duration > 0 PROVE Spent(d, start, duration, day[N])
  <2> DEFINE e == day[N]
  <2>1. N > 0 /\ rest > 0 /\ N - 1 \in 0..N /\ N - 1 \in Nat /\ N - 1 < N /\ N \in 1..N
    BY <1>1, <1>15
  <2>2. PICK k \in Nat : day[N - 1] = Later(start, k) /\ Cardinality(Worked(k)) = N - 1
    BY <1>13, <2>1
  <2> HIDE DEF Worked
  <2>3. PICK i \in Nat : /\ NextWorking(d, Later(start, k)) = Later(start, i)
                         /\ works(Later(start, i)) /\ Cardinality(Worked(i + 1)) = (N - 1) + 1
    BY <1>10, <2>1, <2>2
  <2>4. day[N - 1] \in Int BY <2>2, LaterStep
  <2>5. e = Later(start, i) + rest BY <1>9, <2>1, <2>2, <2>3, <2>4
  <2>6. Later(start, i) \in Int /\ Later(start, i) - start >= i
    <3>1. i * 1 <= i * TicksPerDay /\ i * TicksPerDay \in Int
      <4>1. TicksPerDay >= 1 /\ TicksPerDay \in Nat BY Ticks
      <4>2. i * (TicksPerDay - 1) >= 0 BY <4>1
      <4>3. i * (TicksPerDay - 1) = i * TicksPerDay - i BY <4>1
      <4> QED BY <4>1, <4>2, <4>3
    <3> DEFINE u == i * TicksPerDay
    <3>2. u \in Int /\ i <= u BY <3>1
    <3>3. Later(start, i) = start + u BY DEF Later
    <3> HIDE DEF u
    <3> QED BY <3>2, <3>3
  <2>7. e \in Int /\ e >= start /\ i \in 0..(e - start) BY <1>1, <2>1, <2>5, <2>6
  <2>8. Worked(i + 1) = {j \in 0..i : ~IsExcluded(d, Later(start, j))}
    <3>1. (i + 1) - 1 = i OBVIOUS
    <3> QED BY <3>1 DEF Worked
  <2>9. Cardinality({j \in 0..i : ~IsExcluded(d, Later(start, j))}) = N
    <3>1. (N - 1) + 1 = N BY <1>1
    <3> HIDE DEF N
    <3> QED BY <2>3, <2>8, <3>1, Zenon
  <2>10. e = Later(start, i) + duration - (N - 1) * TicksPerDay
    <3> DEFINE v == (N - 1) * TicksPerDay
    <3>1. v \in Int BY <1>1, Ticks
    <3>2. e = Later(start, i) + (duration - v) BY <2>5 DEF rest
    <3> HIDE DEF v, e
    <3>3. e = Later(start, i) + duration - v BY <2>6, <3>1, <3>2
    <3> QED BY <3>3 DEF v
  <2>11. ~IsExcluded(d, Later(start, i)) BY <2>3
  <2>12. duration # 0 BY <1>15
  <2> HIDE DEF e, works
  <2>13. Spent(d, start, duration, e) BY <2>7, <2>9, <2>10, <2>11, <2>12 DEF Spent, N
  <2> QED BY <2>13 DEF e
<1>16. Spent(d, start, duration, day[N])
  <2>1. duration = 0 \/ duration > 0 OBVIOUS
  <2> QED BY <1>14, <1>15, <2>1
<1> QED BY <1>2, <1>16

-----------------------------------------------------------------------------
(* The plan of a chart.                                                    *)

Bars == [start : Int, end : Int]

\* What the n-th task waits for when the bars of done are placed, and its bar.
Waits(d, done, n) ==
    LET t == d.tasks[n]
    IN  IF t.after = {} THEN t.date * TicksPerDay
        ELSE Max({EndOf(d, done, n - 1, r) : r \in t.after})
BarOf(d, done, n) ==
    LET start == NextWorking(d, Waits(d, done, n))
    IN  [start |-> start, end |-> WorkingEnd(d, start, d.tasks[n].duration)]

(* The tasks of a chart are a sequence.                                    *)
LEMMA TaskFacts ==
    ASSUME NEW d, GanttDiagram(d)
    PROVE  /\ Len(d.tasks) \in Nat /\ DOMAIN d.tasks = 1..Len(d.tasks)
           /\ \A n \in 1..Len(d.tasks) :
                LET t == d.tasks[n]
                IN  /\ t \in Range(d.tasks) /\ t.date \in Int /\ t.duration \in Nat
                    /\ t.label \in Nat /\ IsFiniteSet(t.after)
<1>1. d.tasks \in Seq(Range(d.tasks)) BY DEF GanttDiagram, IsSequence
<1>2. Len(d.tasks) \in Nat /\ DOMAIN d.tasks = 1..Len(d.tasks) BY <1>1, LenProperties
<1>3. ASSUME NEW n \in 1..Len(d.tasks) PROVE d.tasks[n] \in Range(d.tasks)
  BY <1>2 DEF Range
<1>4. \A t \in Range(d.tasks) : /\ t.date \in Int /\ t.duration \in Nat
                                /\ t.label \in Nat /\ IsFiniteSet(t.after)
  BY DEF GanttDiagram
<1> QED BY <1>2, <1>3, <1>4

(* The last task of an id above the n-th is there when the text is known.  *)
LEMMA MeansEarlier ==
    ASSUME NEW d, GanttDiagram(d), GanttKnown(d), NEW n \in 1..Len(d.tasks),
           NEW r \in d.tasks[n].after
    PROVE  Max({i \in 1..(n - 1) : d.tasks[i].id = r}) \in 1..(n - 1)
<1> DEFINE S == {i \in 1..(n - 1) : d.tasks[i].id = r}
<1>1. r \in {d.tasks[i].id : i \in 1..(n - 1)} BY TaskFacts DEF GanttKnown
<1>2. S # {} BY <1>1
<1>3. IsFiniteSet(S)
  <2>1. n - 1 \in Int BY TaskFacts
  <2>2. IsFiniteSet(1..(n - 1)) BY <2>1, FS_Interval
  <2> QED BY <2>2, FS_Subset
<1>4. S \subseteq Int OBVIOUS
<1>5. Max(S) \in S BY <1>2, <1>3, <1>4, Extremes
<1> QED BY <1>5

(* What a task waits for is a moment, and only depends on the bars before it. *)
LEMMA WaitsTyped ==
    ASSUME NEW d, GanttDiagram(d), GanttKnown(d), NEW n \in 1..Len(d.tasks),
           NEW p, \A i \in 1..(n - 1) : p[i] \in Bars
    PROVE  Waits(d, p, n) \in Int
<1> DEFINE t == d.tasks[n]
           f == [r \in t.after |-> EndOf(d, p, n - 1, r)]
<1>1. t.date \in Int /\ IsFiniteSet(t.after) BY TaskFacts
<1>2. ASSUME NEW r \in t.after PROVE EndOf(d, p, n - 1, r) \in Int
  <2>1. Max({i \in 1..(n - 1) : d.tasks[i].id = r}) \in 1..(n - 1) BY MeansEarlier
  <2> QED BY <2>1 DEF EndOf, Bars
<1>3. CASE t.after = {}
  <2>1. t.date * TicksPerDay \in Int BY <1>1, Ticks
  <2> QED BY <1>3, <2>1 DEF Waits
<1>4. CASE t.after # {}
  <2>1. IsFiniteSet({f[r] : r \in DOMAIN f})
    <3>1. DOMAIN f = t.after /\ f = [r \in DOMAIN f |-> f[r]] OBVIOUS
    <3> HIDE DEF f
    <3> QED BY <1>1, <3>1, ImageFinite
  <2>2. {f[r] : r \in DOMAIN f} = {EndOf(d, p, n - 1, r) : r \in t.after} OBVIOUS
  <2>3. {EndOf(d, p, n - 1, r) : r \in t.after} \subseteq Int BY <1>2
  <2>4. {EndOf(d, p, n - 1, r) : r \in t.after} # {} BY <1>4
  <2>5. Max({EndOf(d, p, n - 1, r) : r \in t.after}) \in Int BY <2>1, <2>2, <2>3, <2>4, Extremes
  <2> QED BY <1>4, <2>5 DEF Waits
<1> QED BY <1>3, <1>4

LEMMA WaitsAgree ==
    ASSUME NEW d, GanttDiagram(d), GanttKnown(d), NEW n \in 1..Len(d.tasks),
           NEW p, NEW q, \A i \in 1..(n - 1) : p[i] = q[i]
    PROVE  Waits(d, p, n) = Waits(d, q, n)
<1>1. ASSUME NEW r \in d.tasks[n].after PROVE EndOf(d, p, n - 1, r) = EndOf(d, q, n - 1, r)
  <2>1. Max({i \in 1..(n - 1) : d.tasks[i].id = r}) \in 1..(n - 1) BY MeansEarlier
  <2> QED BY <2>1 DEF EndOf
<1>2. {EndOf(d, p, n - 1, r) : r \in d.tasks[n].after}
        = {EndOf(d, q, n - 1, r) : r \in d.tasks[n].after} BY <1>1
<1> QED BY <1>2 DEF Waits

(* The plan of a known chart has a bar for each task, placed by those      *)
(* before it.                                                              *)
LEMMA BarTyped ==
    ASSUME NEW d, GanttDiagram(d), GanttKnown(d), NEW n \in 1..Len(d.tasks),
           NEW p, \A i \in 1..(n - 1) : p[i] \in Bars
    PROVE  BarOf(d, p, n) \in Bars
<1>1. Waits(d, p, n) \in Int BY WaitsTyped
<1>2. NextWorking(d, Waits(d, p, n)) \in Int BY <1>1, NextWorkingFirst
<1>3. d.tasks[n].duration \in Nat BY TaskFacts
<1>4. WorkingEnd(d, NextWorking(d, Waits(d, p, n)), d.tasks[n].duration) \in Int
  BY <1>2, <1>3, WorkingEndSpends DEF Spent
<1> QED BY <1>2, <1>4 DEF BarOf, Bars

LEMMA Schedule ==
    ASSUME NEW d, GanttDiagram(d), GanttKnown(d)
    PROVE  LET plan == GanttSchedule(d)
           IN  /\ plan \in Seq(Bars) /\ Len(plan) = Len(d.tasks)
               /\ \A n \in 1..Len(d.tasks) : plan[n] = BarOf(d, plan, n)
<1> DEFINE N == Len(d.tasks)
           S == Seq(Bars)
           Body(n, done) == Append(done, BarOf(d, done, n))
           Guarded(n, done) == IF Body(n, done) \in S THEN Body(n, done) ELSE << >>
           F == [p \in (1..N) \X S |-> Guarded(p[1], p[2])]
           Walk(w) == w = [n \in 0..N |->
              IF n = 0 THEN << >>
              ELSE LET t == d.tasks[n]
                       done == w[n - 1]
                       ends == {EndOf(d, done, n - 1, ref) : ref \in t.after}
                       start == NextWorking(d, IF t.after = {} THEN t.date * TicksPerDay
                                               ELSE Max(ends))
                   IN  Append(done, [start |-> start, end |-> WorkingEnd(d, start, t.duration)])]
           plan == CHOOSE w : Walk(w)
<1>1. N \in Nat BY TaskFacts
<1>2. ASSUME NEW w PROVE Walk(w) <=> w = [n \in 0..N |-> IF n = 0 THEN << >> ELSE Body(n, w[n - 1])]
  BY DEF Waits, BarOf
<1>3. GanttSchedule(d) = plan[N] BY DEF GanttSchedule
<1> HIDE DEF N, Walk
\* One round adds one bar.
<1>4. ASSUME NEW n \in 1..N, NEW p \in S, Len(p) = n - 1
      PROVE  /\ Body(n, p) \in S /\ Len(Body(n, p)) = n /\ Body(n, p)[n] = BarOf(d, p, n)
             /\ \A i \in 1..(n - 1) : Body(n, p)[i] = p[i]
  <2>1. \A i \in 1..(n - 1) : p[i] \in Bars BY <1>1, <1>4, ElementOfSeq
  <2>2. BarOf(d, p, n) \in Bars BY <2>1, BarTyped DEF N
  <2>3. n \in Int BY <1>1
  <2> QED BY <1>4, <2>2, <2>3
<1>5. PICK g \in [0..N -> S] : IsLoop(g, N, << >>, F)
  <2>1. << >> \in S OBVIOUS
  <2>2. F \in [(1..N) \X S -> S] BY <2>1
  <2> HIDE DEF F, S
  <2> QED BY <1>1, <2>1, <2>2, Loop
<1>6. ASSUME NEW n \in 1..N PROVE g[n] = Guarded(n, g[n - 1])
  <2>1. n - 1 \in 0..N BY <1>1
  <2>2. g[n - 1] \in S BY <2>1
  <2>3. g[n] = F[n, g[n - 1]] BY <1>5 DEF IsLoop
  <2> HIDE DEF Guarded, S
  <2> QED BY <2>2, <2>3
<1>7. \A n \in 0..N : Len(g[n]) = n
  <2> DEFINE T == {n \in 0..N : Len(g[n]) = n}
  <2>1. 0 \in T
    <3>1. g[0] = << >> BY <1>5 DEF IsLoop
    <3>2. Len(<< >>) = 0 OBVIOUS
    <3>3. 0 \in 0..N BY <1>1
    <3> QED BY <3>1, <3>2, <3>3
  <2>2. ASSUME NEW n \in 1..N, n - 1 \in T PROVE n \in T
    <3>1. n - 1 \in 0..N /\ n \in 0..N BY <1>1
    <3>2. g[n - 1] \in S /\ Len(g[n - 1]) = n - 1 BY <2>2, <3>1
    <3>3. Body(n, g[n - 1]) \in S /\ Len(Body(n, g[n - 1])) = n BY <1>4, <3>2
    <3> HIDE DEF Body
    <3> QED BY <1>6, <3>1, <3>3
  <2> HIDE DEF T
  <2>3. \A n \in 0..N : n \in T BY <1>1, <2>1, <2>2, UpTo
  <2> QED BY <2>3 DEF T
<1>8. Walk(g)
  <2>1. ASSUME NEW n \in 1..N PROVE g[n] = Body(n, g[n - 1])
    <3>1. n - 1 \in 0..N BY <1>1
    <3>2. g[n - 1] \in S /\ Len(g[n - 1]) = n - 1 BY <1>7, <3>1
    <3>3. Body(n, g[n - 1]) \in S BY <1>4, <3>2
    <3> HIDE DEF Body
    <3> QED BY <1>6, <3>3
  <2>2. g[0] = << >> BY <1>5 DEF IsLoop
  <2>3. ASSUME NEW n \in 0..N PROVE n = 0 \/ n \in 1..N BY <1>1
  <2> HIDE DEF F, Body, S
  <2>4. g = [n \in 0..N |-> IF n = 0 THEN << >> ELSE Body(n, g[n - 1])]
    BY <2>1, <2>2, <2>3
  <2> QED BY <1>2, <2>4
<1>9. Walk(plan) BY <1>8
<1> HIDE DEF plan
<1>10. plan[0] = << >>
  <2>1. 0 \in 0..N BY <1>1
  <2> HIDE DEF Body
  <2> QED BY <1>2, <1>9, <2>1
<1>11. ASSUME NEW n \in 1..N PROVE plan[n] = Body(n, plan[n - 1])
  <2>1. n \in 0..N /\ n # 0 BY <1>1
  <2> HIDE DEF Body
  <2> QED BY <1>2, <1>9, <2>1
<1> DEFINE T == {n \in 0..N : /\ plan[n] \in S /\ Len(plan[n]) = n
                              /\ \A m \in 1..n : plan[n][m] = BarOf(d, plan[n], m)}
<1>12. 0 \in T
  <2>1. Len(<< >>) = 0 /\ << >> \in S OBVIOUS
  <2>2. 0 \in 0..N /\ 1..0 = {} BY <1>1
  <2> HIDE DEF S
  <2> QED BY <1>10, <2>1, <2>2
<1>13. ASSUME NEW n \in 1..N, n - 1 \in T PROVE n \in T
  <2> DEFINE p == plan[n - 1]
             q == Body(n, p)
  <2>0. n \in 0..N BY <1>1
  <2>1. plan[n] = q BY <1>11
  <2>2. p \in S /\ Len(p) = n - 1 /\ \A m \in 1..(n - 1) : p[m] = BarOf(d, p, m) BY <1>13
  <2> HIDE DEF p
  <2>3. /\ q \in S /\ Len(q) = n /\ q[n] = BarOf(d, p, n)
        /\ \A i \in 1..(n - 1) : q[i] = p[i] BY <1>4, <2>2
  <2> HIDE DEF q, S
  <2>4. ASSUME NEW m \in 1..n PROVE q[m] = BarOf(d, q, m)
    <3>1. m \in 1..Len(d.tasks) /\ \A i \in 1..(m - 1) : i \in 1..(n - 1) BY <1>1 DEF N
    <3>2. Waits(d, q, m) = Waits(d, p, m) BY <2>3, <3>1, WaitsAgree
    <3>3. BarOf(d, q, m) = BarOf(d, p, m) BY <3>2 DEF BarOf
    <3>4. m = n \/ m \in 1..(n - 1) BY <1>1
    <3> QED BY <2>2, <2>3, <3>3, <3>4
  <2> QED BY <2>0, <2>1, <2>3, <2>4
<1>14. N \in T
  <2>1. N \in 0..N BY <1>1
  <2> HIDE DEF T
  <2> QED BY <1>1, <1>12, <1>13, <2>1, UpTo
<1> QED BY <1>3, <1>14 DEF N

-----------------------------------------------------------------------------
(* What holds of every scene: it is laid out from the diagram shown and    *)
(* the folded groups.                                                      *)

LayoutInv ==
    /\ ast \in Diagrams
    /\ scene \in LayoutByFamily(ast, cloudCollapsed)

(* The scene is always the layout of the text and of what is folded.       *)
LEMMA LayoutShown == LayoutsSpec => []LayoutInv
<1>1. LayoutsInit => LayoutInv BY DEF LayoutsInit, LayoutInv
<1>2. LayoutInv /\ [LayoutsNext]_fvars => LayoutInv'
  <2> SUFFICES ASSUME LayoutInv, [LayoutsNext]_fvars PROVE LayoutInv' OBVIOUS
  <2>1. CASE UNCHANGED fvars
    <3>1. ast' = ast /\ cloudCollapsed' = cloudCollapsed /\ scene' = scene BY <2>1 DEF fvars
    <3> QED BY <3>1 DEF LayoutInv
  <2>2. ASSUME NEW g \in {b.id : b \in scene.nodes}, ToggleCloudCollapse(g) PROVE LayoutInv'
    BY <2>2 DEF ToggleCloudCollapse, LayoutInv
  <2>3. ASSUME NEW d \in Diagrams, Retype(d) PROVE LayoutInv'
    BY <2>3 DEF Retype, LayoutInv
  <2> QED BY <2>1, <2>2, <2>3 DEF LayoutsNext
<1> QED BY <1>1, <1>2, PTL DEF LayoutsSpec

(* A time is a number of pixels, none backwards when it is not.            *)
LEMMA PixelsTyped ==
    ASSUME NEW t \in Int
    PROVE  Pixels(t) \in Int /\ (t >= 0 => Pixels(t) >= 0)
<1> DEFINE n == t * 16
           q == n \div TicksPerDay
<1>1. q \in Int /\ n % TicksPerDay \in Nat /\ n % TicksPerDay < TicksPerDay
      /\ n = TicksPerDay * q + (n % TicksPerDay) BY Ticks, DivModInt
<1>2. ASSUME t >= 0 PROVE q >= 0
  <2>1. SUFFICES ASSUME q <= -1 PROVE FALSE BY <1>1
  <2>2. n \in Nat BY <1>2
  <2> DEFINE r == n % TicksPerDay
  <2> HIDE DEF n, q, r
  <2>3. q * TicksPerDay <= (-1) * TicksPerDay BY <1>1, <2>1, Ticks, TimesOrder
  <2>4. n = TicksPerDay * q + r /\ r \in Nat /\ r < TicksPerDay BY <1>1 DEF r
  <2> QED BY <1>1, <2>2, <2>3, <2>4, Ticks
<1>3. Pixels(t) = q BY DEF Pixels
<1> QED BY <1>1, <1>2, <1>3

(* Every task of a known chart has its bar in its row.                     *)
LEMMA BarShown ==
    ASSUME NEW d, GanttDiagram(d), GanttKnown(d), NEW n \in 1..Len(d.tasks)
    PROVE  LET p == GanttSchedule(d)[n]
               t == d.tasks[n]
           IN  \E b \in LayoutGantt(d).nodes :
                 /\ b.id = t.id /\ b.h = 22
                 /\ b.y = 22 + (n - 1) * 30 + (IF d.titled THEN TitleBand ELSE 0)
                 /\ t.milestone \/ b.w >= Pixels(p.end - p.start)
<1> DEFINE plan == GanttSchedule(d)
           t == d.tasks[n]
           bars == {TaskNode(d, plan, i) : i \in DOMAIN plan}
           edges == UNION {{Edge(r, u.id) : r \in u.after} : u \in Range(d.tasks)}
           captions == {DayX(plan, plan[i].start) + 11 + 16 + d.tasks[i].label :
                            i \in {j \in DOMAIN plan : d.tasks[j].milestone}}
           w == MaxOf(captions \cup {Right(b) : b \in bars})
           h == 22 + Len(plan) * 30
           a == TaskNode(d, plan, n)
<1>1. plan \in Seq(Bars) /\ Len(plan) = Len(d.tasks) BY Schedule
<1>2. Len(d.tasks) \in Nat /\ n \in Int BY TaskFacts
<1>3. DOMAIN plan = 1..Len(d.tasks) /\ plan[n] \in Bars BY <1>1, <1>2, LenProperties, ElementOfSeq
<1>4. plan # << >> BY <1>1, <1>2
<1>5. LayoutGantt(d) = WithTitle(Scene(bars, edges, w, h), d.titled)
  BY <1>4 DEF LayoutGantt
<1>6. a \in bars BY <1>3
<1>7. /\ a.id = t.id /\ a.h = 22 /\ a.y = 22 + (n - 1) * 30
      /\ t.milestone \/ a.w = Larger(Pixels(plan[n].end - plan[n].start), t.label + 12)
      /\ a = [a EXCEPT !.y = a.y]
  BY DEF TaskNode, Node
<1>8. t.milestone \/ a.w >= Pixels(plan[n].end - plan[n].start)
  <2>1. plan[n].end \in Int /\ plan[n].start \in Int BY <1>3 DEF Bars
  <2>2. t.label \in Nat BY TaskFacts
  <2> HIDE DEF a, t, plan
  <2>3. Pixels(plan[n].end - plan[n].start) \in Int /\ t.label + 12 \in Int
    BY <2>1, <2>2, PixelsTyped
  <2> QED BY <1>7, <2>3 DEF Larger
<1>9. d.titled \in BOOLEAN BY DEF GanttDiagram
<1> DEFINE c == [a EXCEPT !.y = @ + TitleBand]
<1>10. c.id = a.id /\ c.w = a.w /\ c.h = a.h /\ c.y = a.y + TitleBand BY DEF TaskNode, Node
<1> HIDE DEF bars, edges, w, h
<1>11. CASE d.titled
  <2>0. WithTitle(Scene(bars, edges, w, h), d.titled).nodes
          = {[b EXCEPT !.y = @ + TitleBand] : b \in bars}
    BY <1>11 DEF WithTitle, Scene
  <2>1. LayoutGantt(d).nodes = {[b EXCEPT !.y = @ + TitleBand] : b \in bars}
    BY <1>5, <2>0
  <2>2. c \in LayoutGantt(d).nodes BY <1>6, <2>1
  <2> HIDE DEF c, a, t, plan
  <2> QED BY <1>7, <1>8, <1>10, <1>11, <2>2 DEF t, plan, TitleBand
<1>12. CASE ~d.titled
  <2>0. WithTitle(Scene(bars, edges, w, h), d.titled).nodes = bars BY <1>12 DEF WithTitle, Scene
  <2>1. LayoutGantt(d).nodes = bars BY <1>5, <2>0
  <2> HIDE DEF a, t, plan
  <2>2. a.y = 22 + (n - 1) * 30 + 0 BY <1>2, <1>7
  <2> QED BY <1>6, <1>7, <1>8, <1>12, <2>1, <2>2 DEF t, plan
<1> QED BY <1>9, <1>11, <1>12

Midnight(m) == m % TicksPerDay = 0
WholeDays(d) == \A t \in Range(d.tasks) : Midnight(t.duration)

(* Midnights are the multiples of a day.                                   *)
LEMMA Midnights ==
    /\ \A q \in Int : q * TicksPerDay \in Int /\ Midnight(q * TicksPerDay)
    /\ \A m \in Int : Midnight(m) => \E q \in Int : m = q * TicksPerDay
<1>1. ASSUME NEW q \in Int PROVE q * TicksPerDay \in Int /\ Midnight(q * TicksPerDay)
  <2>1. q * TicksPerDay \in Int /\ q * TicksPerDay = TicksPerDay * q + 0 BY Ticks
  <2>2. 0 \in 0..(TicksPerDay - 1) BY Ticks
  <2>3. (q * TicksPerDay) % TicksPerDay = 0 BY <2>1, <2>2, Ticks, DivIs
  <2> QED BY <2>1, <2>3 DEF Midnight
<1>2. ASSUME NEW m \in Int, Midnight(m) PROVE \E q \in Int : m = q * TicksPerDay
  <2> DEFINE q == m \div TicksPerDay
  <2>1. q \in Int /\ m = TicksPerDay * q + (m % TicksPerDay) BY Ticks, DivModInt
  <2>2. m = TicksPerDay * q + 0 BY <1>2, <2>1 DEF Midnight
  <2> HIDE DEF q
  <2>3. m = q * TicksPerDay BY <2>1, <2>2, Ticks
  <2> QED BY <2>1, <2>3
<1> QED BY <1>1, <1>2

(* The bar of a task is placed from what the task waits for by the walks.  *)
LEMMA BarPlaced ==
    ASSUME NEW d, GanttDiagram(d), GanttKnown(d), NEW n \in 1..Len(d.tasks)
    PROVE  LET plan == GanttSchedule(d)
               from == Waits(d, plan, n)
               s == plan[n].start
               e == plan[n].end
               t == d.tasks[n]
           IN  /\ from \in Int /\ s \in Int /\ e \in Int /\ t.duration \in Nat
               /\ s = NextWorking(d, from) /\ e = WorkingEnd(d, s, t.duration)
<1> DEFINE plan == GanttSchedule(d)
<1>1. plan \in Seq(Bars) /\ Len(plan) = Len(d.tasks) /\ plan[n] = BarOf(d, plan, n)
  BY Schedule
<1>2. Len(d.tasks) \in Nat /\ d.tasks[n].duration \in Nat BY TaskFacts
<1> HIDE DEF plan
<1>3. \A i \in 1..n : plan[i] \in Bars BY <1>1, <1>2, ElementOfSeq
<1>4. Waits(d, plan, n) \in Int BY <1>3, WaitsTyped
<1>5. plan[n].start \in Int /\ plan[n].end \in Int
  <2>1. n \in 1..n BY <1>2
  <2> QED BY <1>3, <2>1 DEF Bars
<1>6. plan[n].start = NextWorking(d, Waits(d, plan, n))
      /\ plan[n].end = WorkingEnd(d, plan[n].start, d.tasks[n].duration)
  BY <1>1 DEF BarOf
<1> QED BY <1>2, <1>4, <1>5, <1>6 DEF plan

(* From a midnight on, whole days lead to midnights.                       *)
LEMMA WalksWhole ==
    ASSUME NEW d, GanttDiagram(d), NEW m \in Int, Midnight(m), NEW duration \in Nat,
           Midnight(duration)
    PROVE  Midnight(NextWorking(d, m)) /\ Midnight(WorkingEnd(d, m, duration))
<1>1. \A k \in Int : Midnight(Later(m, k)) /\ Later(m, k) \in Int
  BY LaterDay, LaterStep DEF Midnight
<1>2. Midnight(NextWorking(d, m))
  <2>1. LongestOff(d) \in Nat BY WorkSoon
  <2>2. PICK k \in 0..LongestOff(d) : NextWorking(d, m) = Later(m, k) BY NextWorkingFirst
  <2> QED BY <1>1, <2>1, <2>2
<1>3. ASSUME duration = 0 PROVE Midnight(WorkingEnd(d, m, duration))
  <2>1. Spent(d, m, duration, WorkingEnd(d, m, duration)) BY WorkingEndSpends
  <2>2. WorkingEnd(d, m, duration) = m BY <1>3, <2>1 DEF Spent
  <2> QED BY <2>2
<1>4. ASSUME duration > 0 PROVE Midnight(WorkingEnd(d, m, duration))
  <2> DEFINE e == WorkingEnd(d, m, duration)
             N == DaysBegun(duration)
  <2>0. Spent(d, m, duration, e) BY WorkingEndSpends
  <2> HIDE DEF e
  <2>1. e \in Int /\ e >= m BY <2>0 DEF Spent
  <2>2. PICK k \in 0..(e - m) : e = Later(m, k) + duration - (N - 1) * TicksPerDay
    BY <1>4, <2>0 DEF Spent
  <2>3. k \in Int /\ N \in Nat BY <2>1, DaysTaken
  <2> HIDE DEF N, e
  <2>4. PICK p \in Int : Later(m, k) = p * TicksPerDay BY <1>1, <2>3, Midnights
  <2>5. PICK q \in Int : duration = q * TicksPerDay BY Midnights
  <2>6. e = (p + q - (N - 1)) * TicksPerDay
    <3>1. e = p * TicksPerDay + q * TicksPerDay - (N - 1) * TicksPerDay BY <2>2, <2>4, <2>5
    <3>2. (p + q - (N - 1)) * TicksPerDay
            = p * TicksPerDay + q * TicksPerDay - (N - 1) * TicksPerDay BY <2>3, Ticks
    <3> QED BY <3>1, <3>2
  <2>7. p + q - (N - 1) \in Int BY <2>3
  <2> QED BY <2>6, <2>7, Midnights DEF e
<1>5. duration = 0 \/ duration > 0 OBVIOUS
<1> QED BY <1>2, <1>3, <1>4, <1>5

(* A chart of whole days starts and ends its bars at midnight.             *)
LEMMA PlanWhole ==
    ASSUME NEW d, GanttDiagram(d), GanttKnown(d), WholeDays(d), NEW n \in 1..Len(d.tasks)
    PROVE  LET plan == GanttSchedule(d)
           IN  Midnight(plan[n].start) /\ Midnight(plan[n].end)
<1> DEFINE plan == GanttSchedule(d)
           N == Len(d.tasks)
           Whole(i) == Midnight(plan[i].start) /\ Midnight(plan[i].end)
           T == {i \in 0..N : \A j \in 1..i : Whole(j)}
<1>1. N \in Nat BY TaskFacts
<1>2. 0 \in T BY <1>1
<1>3. ASSUME NEW i \in 1..N, i - 1 \in T PROVE i \in T
  <2> DEFINE from == Waits(d, plan, i)
             t == d.tasks[i]
  <2>0. i \in 0..N /\ \A j \in 1..(i - 1) : Whole(j) BY <1>1, <1>3
  <2>1. /\ from \in Int /\ plan[i].start \in Int /\ t.duration \in Nat
        /\ plan[i].start = NextWorking(d, from)
        /\ plan[i].end = WorkingEnd(d, plan[i].start, t.duration)
    BY BarPlaced
  <2>2. t \in Range(d.tasks) /\ t.date \in Int /\ IsFiniteSet(t.after) BY TaskFacts
  <2>3. Midnight(t.duration) BY <2>2 DEF WholeDays
  <2>4. Midnight(from)
    <3>1. CASE t.after = {}
      <4>1. from = t.date * TicksPerDay BY <3>1 DEF Waits
      <4> QED BY <2>2, <4>1, Midnights
    <3>2. CASE t.after # {}
      <4> DEFINE f == [r \in t.after |-> EndOf(d, plan, i - 1, r)]
                 S == {EndOf(d, plan, i - 1, r) : r \in t.after}
      <4>1. ASSUME NEW r \in t.after
            PROVE  EndOf(d, plan, i - 1, r) \in Int /\ Midnight(EndOf(d, plan, i - 1, r))
        <5> DEFINE j == Max({k \in 1..(i - 1) : d.tasks[k].id = r})
        <5>1. j \in 1..(i - 1) BY MeansEarlier
        <5>2. EndOf(d, plan, i - 1, r) = plan[j].end BY DEF EndOf
        <5> HIDE DEF j, plan
        <5>3. j \in 1..N BY <1>1, <5>1
        <5>4. plan[j].end \in Int BY <5>3, BarPlaced DEF plan
        <5> QED BY <2>0, <5>1, <5>2, <5>4
      <4>2. IsFiniteSet(S)
        <5>1. IsFiniteSet(DOMAIN f) /\ f = [x \in DOMAIN f |-> f[x]] BY <2>2
        <5>2. S = {f[x] : x \in DOMAIN f} OBVIOUS
        <5> HIDE DEF f, S
        <5> QED BY <5>1, <5>2, ImageFinite
      <4>3. S \subseteq Int /\ S # {} BY <3>2, <4>1
      <4>4. \A x \in S : Midnight(x) BY <4>1
      <4>5. from = Max(S) BY <3>2 DEF Waits
      <4> HIDE DEF S
      <4>6. Max(S) \in S BY <4>2, <4>3, Extremes
      <4> QED BY <4>4, <4>5, <4>6
    <3> QED BY <3>1, <3>2
  <2> HIDE DEF plan, from, t
  <2>5. Midnight(plan[i].start) BY <2>1, <2>3, <2>4, WalksWhole
  <2>6. Midnight(plan[i].end) BY <2>1, <2>3, <2>5, WalksWhole
  <2>7. \A j \in 1..i : j = i \/ j \in 1..(i - 1) BY <1>1
  <2> QED BY <2>0, <2>5, <2>6, <2>7
<1>4. n \in T
  <2>1. n \in 0..N BY <1>1
  <2> HIDE DEF T
  <2> QED BY <1>1, <1>2, <1>3, <2>1, UpTo
<1>5. n \in 1..n BY <1>1
<1> QED BY <1>4, <1>5

(* Whatever the dates, the days off and the fractions of a day: a bar      *)
(* starts at the time of day of what its task waits for, on the first day  *)
(* that works then, it spends its duration on the first days that work     *)
(* then, and it is all midnights when the durations are whole days.        *)
THEOREM ScheduleHolds == LayoutsSpec => []ScheduleSound
<1>1. LayoutInv => ScheduleSound
  <2>1. SUFFICES ASSUME LayoutInv, ast.family = "gantt", scene.ok PROVE ScheduleSound
    BY DEF ScheduleSound
  <2>2. GanttDiagram(ast) BY <2>1, ParsedAssumption DEF LayoutInv, WellFormed
  <2>3. scene = LayoutGantt(ast) BY <2>1 DEF LayoutInv, LayoutByFamily
  <2>4. GanttKnown(ast) BY <2>1, <2>3 DEF LayoutGantt, Err
  <2> DEFINE plan == GanttSchedule(ast)
             Placed(n, from) ==
               LET t == ast.tasks[n]
                   s == plan[n].start
                   e == plan[n].end
                   days == DaysBegun(t.duration)
               IN  /\ \E k \in 0..LongestOff(ast) :
                        /\ s = Later(from, k) /\ ~IsExcluded(ast, s)
                        /\ \A j \in 0..(k - 1) : ~~IsExcluded(ast, Later(from, j))
                   /\ t.duration = 0 => e = s
                   /\ t.duration > 0 =>
                        \E k \in 0..(e - s) :
                           /\ ~IsExcluded(ast, Later(s, k))
                           /\ Cardinality({j \in 0..k : ~IsExcluded(ast, Later(s, j))}) = days
                           /\ e = Later(s, k) + t.duration - (days - 1) * TicksPerDay
                   /\ WholeDays(ast) => Midnight(s) /\ Midnight(e)
                   /\ \E b \in scene.nodes :
                        /\ b.id = t.id
                        /\ b.y = 22 + (n - 1) * 30 + (IF ast.titled THEN TitleBand ELSE 0)
                        /\ t.milestone \/ b.w >= Pixels(e - s)
  <2>5. ASSUME NEW n \in 1..Len(ast.tasks) PROVE Placed(n, Waits(ast, plan, n))
    <3> DEFINE from == Waits(ast, plan, n)
               s == plan[n].start
               e == plan[n].end
               t == ast.tasks[n]
    <3>1. /\ from \in Int /\ s \in Int /\ e \in Int /\ t.duration \in Nat
          /\ s = NextWorking(ast, from) /\ e = WorkingEnd(ast, s, t.duration)
      BY <2>2, <2>4, BarPlaced
    <3>2. WholeDays(ast) => Midnight(s) /\ Midnight(e) BY <2>2, <2>4, PlanWhole
    <3>3. \E b \in scene.nodes :
            /\ b.id = t.id
            /\ b.y = 22 + (n - 1) * 30 + (IF ast.titled THEN TitleBand ELSE 0)
            /\ t.milestone \/ b.w >= Pixels(e - s)
      BY <2>2, <2>3, <2>4, BarShown
    <3> HIDE DEF from, s, e, t
    <3>4. \E k \in 0..LongestOff(ast) :
            /\ s = Later(from, k) /\ ~IsExcluded(ast, s)
            /\ \A j \in 0..(k - 1) : IsExcluded(ast, Later(from, j))
      BY <2>2, <3>1, NextWorkingFirst
    <3>6. Spent(ast, s, t.duration, e) BY <2>2, <3>1, WorkingEndSpends
    <3>5. /\ t.duration = 0 => e = s
          /\ t.duration > 0 => \E k \in 0..(e - s) :
               /\ ~IsExcluded(ast, Later(s, k))
               /\ Cardinality({j \in 0..k : ~IsExcluded(ast, Later(s, j))}) = DaysBegun(t.duration)
               /\ e = Later(s, k) + t.duration - (DaysBegun(t.duration) - 1) * TicksPerDay
      BY <3>6 DEF Spent
    <3> QED BY <3>2, <3>3, <3>4, <3>5, Zenon DEF from, s, e, t
  <2>6. DOMAIN ast.tasks = 1..Len(ast.tasks) BY <2>2, TaskFacts
  <2>7. ASSUME NEW n \in DOMAIN ast.tasks
        PROVE  Placed(n, IF ast.tasks[n].after = {} THEN ast.tasks[n].date * TicksPerDay
                         ELSE Max({plan[Max({i \in 1..(n - 1) : ast.tasks[i].id = r})].end :
                                     r \in ast.tasks[n].after}))
    <3> HIDE DEF plan, Placed
    <3>1. Placed(n, Waits(ast, plan, n)) BY <2>5, <2>6
    <3> QED BY <3>1 DEF Waits, EndOf
  <2> QED BY <2>7 DEF ScheduleSound, Midnight, WholeDays
<1> QED BY <1>1, LayoutShown, PTL
-----------------------------------------------------------------------------
(* Cursors, extents and boxes that keep clear of each other.               *)

(* MaxOf is no less than any number of a finite set.                       *)
LEMMA MaxOfBounds ==
    ASSUME NEW S, IsFiniteSet(S), S \subseteq Int
    PROVE  MaxOf(S) \in Int /\ (\A x \in S : x <= MaxOf(S)) /\ (S \subseteq Nat => MaxOf(S) \in Nat)
<1>1. CASE S = {} BY <1>1 DEF MaxOf
<1>2. CASE S # {}
  <2>1. Max(S) \in S /\ \A x \in S : x <= Max(S) BY <1>2, Extremes
  <2>2. MaxOf(S) = Max(S) BY <1>2 DEF MaxOf
  <2> QED BY <2>1, <2>2
<1> QED BY <1>1, <1>2

(* A cursor starts at 0 and goes on by each step it passes.                *)
LEMMA Cursor ==
    ASSUME NEW N \in Nat, NEW f, \A k \in 1..N : f[k] \in Nat
    PROVE  /\ Before(f, 1) = 0
           /\ \A i \in 1..(N + 1) : Before(f, i) \in Nat
           /\ \A i \in 1..N : Before(f, i + 1) = Before(f, i) + f[i]
<1> DEFINE S == Nat
           F == [p \in (1..N) \X S |-> p[2] + f[p[1]]]
           Run(M, w) == w = [n \in 0..M |-> IF n = 0 THEN 0 ELSE w[n - 1] + f[n]]
           run(M) == CHOOSE w : Run(M, w)
<1>1. PICK g \in [0..N -> S] : IsLoop(g, N, 0, F)
  <2>1. F \in [(1..N) \X S -> S] /\ 0 \in S OBVIOUS
  <2> HIDE DEF F, S
  <2> QED BY <2>1, Loop
<1>2. ASSUME NEW n \in 1..N PROVE g[n] = g[n - 1] + f[n]
  <2>1. n - 1 \in 0..N OBVIOUS
  <2>2. g[n - 1] \in Nat BY <2>1
  <2> QED BY <1>1, <2>2 DEF IsLoop
<1>3. g[0] = 0 BY <1>1 DEF IsLoop
<1>4. ASSUME NEW i \in 1..(N + 1) PROVE Before(f, i) = g[i - 1]
  <2> DEFINE M == i - 1
             h == [n \in 0..M |-> g[n]]
  <2>1. M \in 0..N /\ M \in Nat OBVIOUS
  <2>2. Run(M, h)
    <3>1. ASSUME NEW n \in 0..M PROVE h[n] = IF n = 0 THEN 0 ELSE h[n - 1] + f[n]
      <4>1. CASE n = 0 BY <1>3, <4>1
      <4>2. CASE n # 0
        <5>1. n \in 1..N /\ n - 1 \in 0..M BY <2>1, <4>2
        <5>2. h[n] = g[n] /\ h[n - 1] = g[n - 1] BY <5>1
        <5> QED BY <1>2, <4>2, <5>1, <5>2
      <4> QED BY <4>1, <4>2
    <3> QED BY <3>1
  <2>3. Run(M, run(M)) BY <2>2
  <2>4. Before(f, i) = run(M)[M] BY DEF Before
  <2> DEFINE r == run(M)
             T == {n \in 0..M : r[n] = g[n]}
  <2> HIDE DEF M
  <2>5. \A n \in 0..M : r[n] = IF n = 0 THEN 0 ELSE r[n - 1] + f[n]
    <3> HIDE DEF r
    <3>1. Run(M, r) BY <2>3 DEF r
    <3> QED BY <3>1
  <2> HIDE DEF r
  <2>6. 0 \in T BY <1>3, <2>1, <2>5
  <2>7. ASSUME NEW n \in 1..M, n - 1 \in T PROVE n \in T
    <3>1. n \in 1..N /\ n \in 0..M /\ n # 0 BY <2>1
    <3> QED BY <1>2, <2>5, <2>7, <3>1
  <2>8. M \in T
    <3>1. M \in 0..M BY <2>1
    <3> HIDE DEF T
    <3> QED BY <2>1, <2>6, <2>7, <3>1, UpTo
  <2>9. r[M] = g[M] BY <2>8
  <2> QED BY <2>4, <2>9 DEF r, M
<1> HIDE DEF F
<1>5. Before(f, 1) = 0
  <2>1. 1 \in 1..(N + 1) /\ 1 - 1 = 0 OBVIOUS
  <2> QED BY <1>3, <1>4, <2>1
<1>6. ASSUME NEW i \in 1..(N + 1) PROVE Before(f, i) \in Nat
  <2>1. i - 1 \in 0..N OBVIOUS
  <2> QED BY <1>4, <2>1
<1>7. ASSUME NEW i \in 1..N PROVE Before(f, i + 1) = Before(f, i) + f[i]
  <2>1. i \in 1..(N + 1) /\ i + 1 \in 1..(N + 1) /\ (i + 1) - 1 = i OBVIOUS
  <2>2. Before(f, i + 1) = g[i] /\ Before(f, i) = g[i - 1]
    <3>1. Before(f, i + 1) = g[(i + 1) - 1] BY <1>4, <2>1
    <3> QED BY <1>4, <2>1, <3>1
  <2> QED BY <1>2, <2>2
<1> QED BY <1>5, <1>6, <1>7

(* What a cursor has passed is behind it.                                  *)
LEMMA CursorPasses ==
    ASSUME NEW N \in Nat, NEW f, \A k \in 1..N : f[k] \in Nat,
           NEW i \in 1..N, NEW j \in 1..(N + 1), i < j
    PROVE  Before(f, i) + f[i] <= Before(f, j)
<1>0. /\ \A k \in 1..(N + 1) : Before(f, k) \in Nat
      /\ \A k \in 1..N : Before(f, k + 1) = Before(f, k) + f[k] BY Cursor
<1> DEFINE T == {n \in 0..(N - i) : Before(f, i) + f[i] <= Before(f, i + 1 + n)}
<1>1. 0 \in T BY <1>0
<1>2. ASSUME NEW n \in 1..(N - i), n - 1 \in T PROVE n \in T
  <2>1. i + n \in 1..N /\ i + 1 + (n - 1) = i + n /\ (i + n) + 1 = i + 1 + n OBVIOUS
  <2>2. Before(f, i + n + 1) = Before(f, i + n) + f[i + n] BY <1>0, <2>1
  <2>3. Before(f, i) + f[i] <= Before(f, i + n) BY <1>2, <2>1
  <2>4. i \in 1..(N + 1) /\ i + n \in 1..(N + 1) OBVIOUS
  <2>5. Before(f, i) \in Nat /\ Before(f, i + n) \in Nat /\ f[i + n] \in Nat /\ f[i] \in Nat
    BY <1>0, <2>1, <2>4
  <2>6. Before(f, i) + f[i] <= Before(f, i + n + 1) BY <2>2, <2>3, <2>5
  <2> QED BY <2>1, <2>6
<1>3. j - i - 1 \in 0..(N - i) /\ i + 1 + (j - i - 1) = j /\ N - i \in Nat OBVIOUS
<1>4. j - i - 1 \in T
  <2> HIDE DEF T
  <2> QED BY <1>1, <1>2, <1>3, UpTo
<1>5. Before(f, i) + f[i] <= Before(f, i + 1 + (j - i - 1)) BY <1>4
<1> QED BY <1>3, <1>5

-----------------------------------------------------------------------------
(* Scenes without containers.                                              *)

IsNode(b) == /\ b = Node(b.id, b.x, b.y, b.w, b.h, b.parent)
             /\ b.x \in Int /\ b.y \in Int /\ b.w \in Int /\ b.h \in Int
Inside(b, w, h) == 0 <= b.x /\ 0 <= b.y /\ Right(b) <= w /\ Bottom(b) <= h
Clear(a, b) == \/ Right(a) <= b.x \/ Right(b) <= a.x
               \/ Bottom(a) <= b.y \/ Bottom(b) <= a.y

(* A box has the fields it is made of.                                     *)
LEMMA NodeIs ==
    ASSUME NEW id, NEW x \in Int, NEW y \in Int, NEW w \in Int, NEW h \in Int, NEW parent
    PROVE  LET b == Node(id, x, y, w, h, parent)
           IN  /\ IsNode(b) /\ b.id = id /\ b.parent = parent
               /\ b.x = x /\ b.y = y /\ b.w = w /\ b.h = h
               /\ Right(b) = x + w /\ Bottom(b) = y + h
<1> DEFINE b == Node(id, x, y, w, h, parent)
<1>1. /\ b.id = id /\ b.parent = parent /\ b.x = x /\ b.y = y /\ b.w = w /\ b.h = h BY DEF Node
<1>2. b = Node(b.id, b.x, b.y, b.w, b.h, b.parent) BY <1>1
<1> HIDE DEF b
<1>3. IsNode(b) BY <1>1, <1>2 DEF IsNode
<1>4. Right(b) = x + w /\ Bottom(b) = y + h BY <1>1 DEF Right, Bottom
<1> QED BY <1>1, <1>3, <1>4 DEF b

\* What SceneSound says of any scene, apart from the order of the text.
SceneOk(s) ==
    /\ StyleOk(s)
    /\ \A a, b \in s.nodes : a.id = b.id => a = b
    /\ \A e \in s.edges : {e.from, e.to} \subseteq {b.id : b \in s.nodes}
    /\ \A b \in s.nodes : b.parent \in {c.id : c \in s.nodes} \cup {Root}
    /\ \A b \in s.nodes : b.x >= 0 /\ b.y >= 0 /\ Right(b) <= s.w /\ Bottom(b) <= s.h

\* The same but for some boxes, the heads of a git graph.
SceneBut(s, heads, apart, inside) ==
    /\ ContainersEncloseMembers(s.nodes)
    /\ \A a, b \in s.nodes :
         a.id # b.id /\ a.parent = b.parent =>
            OverlapArea(a, b) <= Slack \/ ({a, b} \subseteq heads /\ ~apart)
    /\ \A a, b \in s.nodes : a.id = b.id => a = b
    /\ \A e \in s.edges : {e.from, e.to} \subseteq {b.id : b \in s.nodes}
    /\ \A b \in s.nodes : b.parent \in {c.id : c \in s.nodes} \cup {Root}
    /\ \A b \in s.nodes : b.x >= 0 \/ (b \in heads /\ ~inside)
    /\ \A b \in s.nodes : b.y >= 0 /\ Right(b) <= s.w /\ Bottom(b) <= s.h

LEMMA SceneOkBut ==
    ASSUME NEW s, SceneOk(s), NEW heads, NEW apart, NEW inside
    PROVE  SceneBut(s, heads, apart, inside)
BY DEF SceneOk, SceneBut, StyleOk, NoSiblingOverlaps

(* Boxes that keep clear have no area in common.                           *)
LEMMA ClearApart ==
    ASSUME NEW a, NEW b, IsNode(a), IsNode(b), Clear(a, b)
    PROVE  OverlapArea(a, b) <= Slack
<1> DEFINE ox == Span(a.x, Right(a), b.x, Right(b))
           oy == Span(a.y, Bottom(a), b.y, Bottom(b))
<1>1. /\ a.x \in Int /\ a.y \in Int /\ Right(a) \in Int /\ Bottom(a) \in Int
      /\ b.x \in Int /\ b.y \in Int /\ Right(b) \in Int /\ Bottom(b) \in Int
  BY DEF IsNode, Right, Bottom
<1>2. \/ Right(a) <= b.x \/ Right(b) <= a.x
      \/ Bottom(a) <= b.y \/ Bottom(b) <= a.y BY DEF Clear
<1>3. ~(ox > 0 /\ oy > 0) BY <1>1, <1>2 DEF Span, Larger
<1> HIDE DEF ox, oy
<1>4. OverlapArea(a, b) = 0 BY <1>3 DEF OverlapArea, ox, oy
<1> QED BY <1>4 DEF Slack

(* A scene of boxes outside any container that keep clear is sound.        *)
LEMMA FlatScene ==
    ASSUME NEW nodes, NEW edges, NEW w \in Int, NEW h \in Int,
           \A b \in nodes : IsNode(b) /\ b.parent = Root /\ b.id # Root /\ Inside(b, w, h),
           \A a, b \in nodes : a.id = b.id => a = b,
           \A a, b \in nodes : a # b => Clear(a, b),
           \A e \in edges : {e.from, e.to} \subseteq {b.id : b \in nodes}
    PROVE  SceneOk(Scene(nodes, edges, w, h))
<1> DEFINE s == Scene(nodes, edges, w, h)
<1>1. s.nodes = nodes /\ s.edges = edges /\ s.w = w /\ s.h = h BY DEF Scene
<1> HIDE DEF s
<1>2. NoSiblingOverlaps(nodes)
  <2>1. \A a, b \in nodes : a.id # b.id => Clear(a, b) OBVIOUS
  <2> QED BY <2>1, ClearApart DEF NoSiblingOverlaps
<1>3. ContainersEncloseMembers(nodes)
  <2>1. \A n, p \in nodes : n.parent # p.id OBVIOUS
  <2> QED BY <2>1 DEF ContainersEncloseMembers
<1>4. \A b \in nodes : b.x >= 0 /\ b.y >= 0 /\ Right(b) <= w /\ Bottom(b) <= h
  BY DEF Inside, IsNode
<1> QED BY <1>1, <1>2, <1>3, <1>4 DEF SceneOk, StyleOk, s

(* Such a scene is sound under a title too, everything being lower down.   *)
LEMMA FlatTitled ==
    ASSUME NEW nodes, NEW edges, NEW w \in Int, NEW h \in Int, NEW titled \in BOOLEAN,
           \A b \in nodes : IsNode(b) /\ b.parent = Root /\ b.id # Root /\ Inside(b, w, h),
           \A a, b \in nodes : a.id = b.id => a = b,
           \A a, b \in nodes : a # b => Clear(a, b),
           \A e \in edges : {e.from, e.to} \subseteq {b.id : b \in nodes}
    PROVE  SceneOk(WithTitle(Scene(nodes, edges, w, h), titled))
<1> DEFINE low(b) == [b EXCEPT !.y = @ + TitleBand]
           lows == {low(b) : b \in nodes}
<1>1. CASE ~titled
  <2>1. WithTitle(Scene(nodes, edges, w, h), titled) = Scene(nodes, edges, w, h)
    BY <1>1 DEF WithTitle
  <2> QED BY <2>1, FlatScene
<1>2. CASE titled
  <2>1. ASSUME NEW b \in nodes
        PROVE  /\ IsNode(low(b)) /\ low(b).id = b.id /\ low(b).parent = b.parent
               /\ low(b).x = b.x /\ low(b).y = b.y + TitleBand
               /\ Right(low(b)) = Right(b) /\ Bottom(low(b)) = Bottom(b) + TitleBand
    <3>1. b = Node(b.id, b.x, b.y, b.w, b.h, b.parent)
          /\ b.x \in Int /\ b.y \in Int /\ b.w \in Int /\ b.h \in Int BY DEF IsNode
    <3>2. low(b) = Node(b.id, b.x, b.y + TitleBand, b.w, b.h, b.parent) BY <3>1 DEF Node
    <3> HIDE DEF low
    <3>3. /\ low(b).id = b.id /\ low(b).parent = b.parent /\ low(b).x = b.x
          /\ low(b).y = b.y + TitleBand /\ low(b).w = b.w /\ low(b).h = b.h
      BY <3>2 DEF Node
    <3> QED BY <3>1, <3>2, <3>3 DEF IsNode, Right, Bottom, TitleBand
  <2> HIDE DEF low
  <2>2. \A b \in lows : /\ IsNode(b) /\ b.parent = Root /\ b.id # Root
                        /\ Inside(b, w, h + TitleBand)
    <3>1. ASSUME NEW b \in nodes PROVE Inside(low(b), w, h + TitleBand)
      <4>1. Inside(b, w, h) /\ IsNode(b) OBVIOUS
      <4> QED BY <2>1, <4>1 DEF Inside, IsNode, TitleBand, Bottom
    <3> QED BY <2>1, <3>1
  <2>3. \A a, b \in lows : a.id = b.id => a = b BY <2>1
  <2>4. ASSUME NEW a \in nodes, NEW b \in nodes, low(a) # low(b) PROVE Clear(low(a), low(b))
    <3>1. Clear(a, b) /\ IsNode(a) /\ IsNode(b) BY <2>4
    <3> QED BY <2>1, <3>1 DEF Clear, IsNode, Bottom, Right, TitleBand
  <2>5. \A a, b \in lows : a # b => Clear(a, b) BY <2>4
  <2>6. {b.id : b \in lows} = {b.id : b \in nodes} BY <2>1
  <2>7. SceneOk(Scene(lows, edges, w, h + TitleBand))
    <3>1. h + TitleBand \in Int BY DEF TitleBand
    <3> HIDE DEF lows
    <3> QED BY <2>2, <2>3, <2>5, <2>6, <3>1, FlatScene
  <2>8. WithTitle(Scene(nodes, edges, w, h), titled) = Scene(lows, edges, w, h + TitleBand)
    BY <1>2 DEF WithTitle, Scene, low
  <2> QED BY <2>7, <2>8
<1> QED BY <1>1, <1>2

(* A scene that ends at its last box holds every box, and has a margin.    *)
LEMMA FittedEnds ==
    ASSUME NEW nodes, IsFiniteSet(nodes), \A b \in nodes : IsNode(b), NEW margin \in Nat
    PROVE  LET w == MaxOf({Right(b) : b \in nodes}) + margin
               h == MaxOf({Bottom(b) : b \in nodes}) + margin
           IN  w \in Int /\ h \in Int /\ \A b \in nodes : Right(b) <= w /\ Bottom(b) <= h
<1> DEFINE f == [b \in nodes |-> Right(b)]
           g == [b \in nodes |-> Bottom(b)]
<1>1. IsFiniteSet({f[b] : b \in DOMAIN f}) /\ {f[b] : b \in DOMAIN f} = {Right(b) : b \in nodes}
  <2>1. DOMAIN f = nodes /\ f = [b \in DOMAIN f |-> f[b]] OBVIOUS
  <2>2. {f[b] : b \in DOMAIN f} = {Right(b) : b \in nodes} OBVIOUS
  <2> HIDE DEF f
  <2> QED BY <2>1, <2>2, ImageFinite
<1>2. IsFiniteSet({g[b] : b \in DOMAIN g}) /\ {g[b] : b \in DOMAIN g} = {Bottom(b) : b \in nodes}
  <2>1. DOMAIN g = nodes /\ g = [b \in DOMAIN g |-> g[b]] OBVIOUS
  <2>2. {g[b] : b \in DOMAIN g} = {Bottom(b) : b \in nodes} OBVIOUS
  <2> HIDE DEF g
  <2> QED BY <2>1, <2>2, ImageFinite
<1>3. \A b \in nodes : Right(b) \in Int /\ Bottom(b) \in Int BY DEF IsNode, Right, Bottom
<1>4. /\ MaxOf({Right(b) : b \in nodes}) \in Int
      /\ \A b \in nodes : Right(b) <= MaxOf({Right(c) : c \in nodes})
  <2>1. {Right(b) : b \in nodes} \subseteq Int BY <1>3
  <2> QED BY <1>1, <2>1, MaxOfBounds
<1>5. /\ MaxOf({Bottom(b) : b \in nodes}) \in Int
      /\ \A b \in nodes : Bottom(b) <= MaxOf({Bottom(c) : c \in nodes})
  <2>1. {Bottom(b) : b \in nodes} \subseteq Int BY <1>3
  <2> QED BY <1>2, <2>1, MaxOfBounds
<1> DEFINE w == MaxOf({Right(b) : b \in nodes})
           h == MaxOf({Bottom(b) : b \in nodes})
<1> HIDE DEF f, g, w, h
<1>6. w \in Int /\ h \in Int /\ \A b \in nodes : Right(b) <= w /\ Bottom(b) <= h
  BY <1>4, <1>5 DEF w, h
<1>7. \A b \in nodes : Right(b) <= w + margin /\ Bottom(b) <= h + margin BY <1>3, <1>6
<1>8. w + margin \in Int /\ h + margin \in Int BY <1>6
<1> QED BY <1>7, <1>8 DEF w, h

LEMMA FittedHolds ==
    ASSUME NEW nodes, IsFiniteSet(nodes), \A b \in nodes : IsNode(b) /\ b.x >= 0 /\ b.y >= 0,
           NEW margin \in Nat
    PROVE  LET w == MaxOf({Right(b) : b \in nodes}) + margin
               h == MaxOf({Bottom(b) : b \in nodes}) + margin
           IN  w \in Int /\ h \in Int /\ \A b \in nodes : Inside(b, w, h)
<1> DEFINE w == MaxOf({Right(b) : b \in nodes}) + margin
           h == MaxOf({Bottom(b) : b \in nodes}) + margin
<1>1. w \in Int /\ h \in Int /\ \A b \in nodes : Right(b) <= w /\ Bottom(b) <= h BY FittedEnds
<1> HIDE DEF w, h
<1>2. \A b \in nodes : Inside(b, w, h) BY <1>1 DEF Inside, IsNode
<1> QED BY <1>1, <1>2 DEF w, h

\* The box of an id among some.
BoxIn(nodes, id) == CHOOSE b \in nodes : b.id = id

(* An id that one box has finds it.                                        *)
LEMMA BoxFound ==
    ASSUME NEW nodes, \A a, b \in nodes : a.id = b.id => a = b, NEW b \in nodes
    PROVE  BoxIn(nodes, b.id) = b
BY DEF BoxIn

-----------------------------------------------------------------------------
(* The chart.                                                              *)

(* The days of a chart are counted from its first bar.                     *)
LEMMA DayCounted ==
    ASSUME NEW plan \in Seq(Bars), NEW i \in 1..Len(plan)
    PROVE  DayX(plan, plan[i].start) \in Int /\ DayX(plan, plan[i].start) >= 96
<1> DEFINE f == [k \in 1..Len(plan) |-> plan[k].start]
           S == {p.start : p \in Range(plan)}
<1>1. Len(plan) \in Nat /\ DOMAIN plan = 1..Len(plan) BY LenProperties
<1>2. \A k \in 1..Len(plan) : plan[k] \in Bars BY ElementOfSeq
<1>3. S = {f[k] : k \in DOMAIN f}
  <2>1. DOMAIN f = 1..Len(plan) OBVIOUS
  <2>2. Range(plan) = {plan[k] : k \in 1..Len(plan)} BY <1>1 DEF Range
  <2>3. S = {plan[k].start : k \in 1..Len(plan)} BY <2>2
  <2> QED BY <2>1, <2>3
<1>4. IsFiniteSet(S)
  <2>1. IsFiniteSet(DOMAIN f) /\ f = [k \in DOMAIN f |-> f[k]] BY <1>1, FS_Interval
  <2> HIDE DEF f, S
  <2> QED BY <1>3, <2>1, ImageFinite
<1>5. S \subseteq Int /\ plan[i].start \in S BY <1>2, <1>3 DEF Bars
<1> HIDE DEF S
<1>6. Min(S) \in Int /\ Min(S) <= plan[i].start BY <1>4, <1>5, Extremes
<1>7. DayX(plan, plan[i].start) = 96 + Pixels(plan[i].start - Min(S)) BY DEF DayX, S
<1> HIDE DEF f
<1>8. plan[i].start \in Int BY <1>5
<1>9. (plan[i].start - Min(S)) \in Nat BY <1>6, <1>8
<1> DEFINE t == plan[i].start - Min(S)
<1> HIDE DEF t
<1>10. t \in Int /\ t >= 0 BY <1>9 DEF t
<1>11. Pixels(t) \in Int /\ Pixels(t) >= 0 BY <1>10, PixelsTyped
<1>12. DayX(plan, plan[i].start) = 96 + Pixels(t) BY <1>7 DEF t
<1> QED BY <1>11, <1>12

(* The scene of a known chart of which each task has its own id.           *)
LEMMA GanttScene ==
    ASSUME NEW d, GanttDiagram(d), GanttKnown(d), Apart(d.tasks)
    PROVE  /\ LayoutGantt(d).ok = TRUE /\ SceneOk(LayoutGantt(d))
           /\ \A i, j \in DOMAIN d.tasks : i < j =>
                Bottom(BoxIn(LayoutGantt(d).nodes, d.tasks[i].id))
                  < BoxIn(LayoutGantt(d).nodes, d.tasks[j].id).y
<1> DEFINE plan == GanttSchedule(d)
           N == Len(d.tasks)
           bars == {TaskNode(d, plan, i) : i \in DOMAIN plan}
           edges == UNION {{Edge(r, u.id) : r \in u.after} : u \in Range(d.tasks)}
           captions == {DayX(plan, plan[i].start) + 11 + 16 + d.tasks[i].label :
                            i \in {j \in DOMAIN plan : d.tasks[j].milestone}}
           rights == {Right(b) : b \in bars}
           w == MaxOf(captions \cup rights)
           h == 22 + Len(plan) * 30
<1>1. plan \in Seq(Bars) /\ Len(plan) = N BY Schedule
<1>2. N \in Nat /\ DOMAIN d.tasks = 1..N BY TaskFacts
<1>3. DOMAIN plan = 1..N BY <1>1, LenProperties
<1>4. d.titled \in BOOLEAN BY DEF GanttDiagram
<1>5. LayoutGantt(d) = WithTitle(IF plan = << >> THEN Scene({}, {}, 1, 1)
                                 ELSE Scene(bars, edges, w, h), d.titled)
  BY DEF LayoutGantt
<1>6. LayoutGantt(d).ok = TRUE BY <1>5 DEF WithTitle, Scene
<1>7. ASSUME NEW i \in 1..N
      PROVE  LET b == TaskNode(d, plan, i)
             IN  /\ IsNode(b) /\ b.parent = Root /\ b.id = d.tasks[i].id /\ b.id # Root
                 /\ b.x >= 0 /\ b.y = 22 + (i - 1) * 30 /\ b.h = 22
  <2> DEFINE x == DayX(plan, plan[i].start)
             v == Pixels(plan[i].end - plan[i].start)
             t == d.tasks[i]
             b == TaskNode(d, plan, i)
             y == 22 + (i - 1) * 30
  <2>1. x \in Int /\ x >= 96 BY <1>1, DayCounted
  <2>2. t.label \in Nat /\ t.id # Root /\ t.milestone \in BOOLEAN
    <3>1. t \in Range(d.tasks) BY TaskFacts
    <3> QED BY <3>1, TaskFacts DEF GanttDiagram
  <2>3. v \in Int
    <3>1. plan[i] \in Bars BY <1>1, ElementOfSeq
    <3>2. plan[i].end \in Int /\ plan[i].start \in Int BY <3>1 DEF Bars
    <3> HIDE DEF plan
    <3> QED BY <3>2, PixelsTyped
  <2>4. y \in Int /\ y >= 22 BY <1>2
  <2>5. b = IF t.milestone THEN Node(t.id, x - 11, y, 22, 22, Root)
            ELSE Node(t.id, x, y, Larger(v, t.label + 12), 22, Root) BY DEF TaskNode
  <2> HIDE DEF x, v, t, b, y
  <2>6. Larger(v, t.label + 12) \in Int BY <2>2, <2>3 DEF Larger
  <2>7. /\ b.id = t.id /\ b.parent = Root /\ b.y = y /\ b.h = 22
        /\ b.x = (IF t.milestone THEN x - 11 ELSE x)
        /\ b.w = (IF t.milestone THEN 22 ELSE Larger(v, t.label + 12))
        /\ b = Node(b.id, b.x, b.y, b.w, b.h, b.parent)
    BY <2>5 DEF Node
  <2>8. b.x \in Int /\ b.x >= 0 /\ b.w \in Int BY <2>1, <2>2, <2>6, <2>7
  <2> QED BY <2>2, <2>4, <2>7, <2>8 DEF IsNode, b, t, y
<1>8. CASE plan = << >>
  <2>1. N = 0 BY <1>1, <1>8
  <2>2. LayoutGantt(d) = WithTitle(Scene({}, {}, 1, 1), d.titled) BY <1>5, <1>8
  <2>3. SceneOk(WithTitle(Scene({}, {}, 1, 1), d.titled))
    BY <1>4, FlatTitled
  <2> QED BY <1>2, <1>6, <2>1, <2>2, <2>3
<1>9. CASE plan # << >>
  <2>1. LayoutGantt(d) = WithTitle(Scene(bars, edges, w, h), d.titled) BY <1>5, <1>9
  <2>2. IsFiniteSet(bars)
    <3> DEFINE f == [i \in 1..N |-> TaskNode(d, plan, i)]
    <3>1. IsFiniteSet(DOMAIN f) /\ f = [k \in DOMAIN f |-> f[k]]
      <4>1. DOMAIN f = 1..N /\ f = [k \in DOMAIN f |-> f[k]] OBVIOUS
      <4>2. N \in Int BY <1>2
      <4> HIDE DEF f, N
      <4>3. IsFiniteSet(1..N) BY <4>2, FS_Interval
      <4> QED BY <4>1, <4>3
    <3>2. bars = {f[i] : i \in DOMAIN f} BY <1>3
    <3> HIDE DEF f, bars
    <3> QED BY <3>1, <3>2, ImageFinite
  <2>3. IsFiniteSet(rights)
    <3> DEFINE f == [b \in bars |-> Right(b)]
    <3>1. IsFiniteSet(DOMAIN f) /\ f = [k \in DOMAIN f |-> f[k]] BY <2>2
    <3>2. rights = {f[b] : b \in DOMAIN f} OBVIOUS
    <3> HIDE DEF f, rights
    <3> QED BY <3>1, <3>2, ImageFinite
  <2>4. IsFiniteSet(captions)
    <3> DEFINE M == {j \in DOMAIN plan : d.tasks[j].milestone}
               f == [i \in M |-> DayX(plan, plan[i].start) + 11 + 16 + d.tasks[i].label]
    <3>1. IsFiniteSet(M)
      <4>1. IsFiniteSet(DOMAIN plan) BY <1>2, <1>3, FS_Interval
      <4> QED BY <4>1, FS_Subset
    <3>2. IsFiniteSet(DOMAIN f) /\ f = [k \in DOMAIN f |-> f[k]] BY <3>1
    <3>3. captions = {f[i] : i \in DOMAIN f} OBVIOUS
    <3> HIDE DEF f, captions
    <3> QED BY <3>2, <3>3, ImageFinite
  <2>5. captions \subseteq Int
    <3>1. ASSUME NEW i \in 1..N PROVE DayX(plan, plan[i].start) \in Int /\ d.tasks[i].label \in Int
      <4>1. DayX(plan, plan[i].start) \in Int BY <1>1, DayCounted
      <4>2. d.tasks[i].label \in Nat BY TaskFacts
      <4> QED BY <4>1, <4>2
    <3> QED BY <1>3, <3>1
  <2>6. rights \subseteq Int BY <1>3, <1>7 DEF IsNode, Right
  <2>7. w \in Int /\ \A b \in bars : Right(b) <= w
    <3>1. IsFiniteSet(captions \cup rights) BY <2>3, <2>4, FS_Union
    <3>2. captions \cup rights \subseteq Int BY <2>5, <2>6
    <3>3. \A b \in bars : Right(b) \in captions \cup rights OBVIOUS
    <3> HIDE DEF captions, rights, bars
    <3> QED BY <3>1, <3>2, <3>3, MaxOfBounds
  <2>8. h \in Int /\ h = 22 + N * 30 BY <1>1, <1>2
  <2> HIDE DEF w, h
  <2>9. ASSUME NEW b \in bars
        PROVE  IsNode(b) /\ b.parent = Root /\ b.id # Root /\ Inside(b, w, h)
    <3>1. PICK i \in 1..N : b = TaskNode(d, plan, i) BY <1>3
    <3>2. /\ IsNode(b) /\ b.parent = Root /\ b.id # Root /\ b.x >= 0
          /\ b.y = 22 + (i - 1) * 30 /\ b.h = 22 BY <1>7, <3>1
    <3>3. Bottom(b) <= h /\ 0 <= b.y
      <4>1. Bottom(b) = 22 + (i - 1) * 30 + 22 BY <3>2 DEF Bottom
      <4> QED BY <1>2, <2>8, <3>2, <4>1
    <3> HIDE DEF bars
    <3> QED BY <2>7, <3>2, <3>3 DEF Inside, IsNode
  <2>10. ASSUME NEW a \in bars, NEW b \in bars
         PROVE  (a.id = b.id => a = b) /\ (a # b => Clear(a, b))
    <3>1. PICK i \in 1..N : a = TaskNode(d, plan, i) BY <1>3
    <3>2. PICK j \in 1..N : b = TaskNode(d, plan, j) BY <1>3
    <3>3. a.id = d.tasks[i].id /\ b.id = d.tasks[j].id BY <1>7, <3>1, <3>2
    <3>4. a.id = b.id => a = b BY <1>2, <3>1, <3>2, <3>3 DEF Apart
    <3>5. a # b => Clear(a, b)
      <4>1. SUFFICES ASSUME a # b PROVE Clear(a, b) OBVIOUS
      <4>2. i # j BY <3>1, <3>2, <4>1
      <4>3. a.y = 22 + (i - 1) * 30 /\ a.h = 22 BY <1>7, <3>1
      <4>4. b.y = 22 + (j - 1) * 30 /\ b.h = 22 BY <1>7, <3>2
      <4>5. Bottom(a) <= b.y \/ Bottom(b) <= a.y BY <1>2, <4>2, <4>3, <4>4 DEF Bottom
      <4> QED BY <4>5 DEF Clear
    <3> QED BY <3>4, <3>5
  <2>11. ASSUME NEW e \in edges PROVE {e.from, e.to} \subseteq {b.id : b \in bars}
    <3>1. PICK u \in Range(d.tasks) : \E r \in u.after : e = Edge(r, u.id) OBVIOUS
    <3>2. PICK r \in u.after : e = Edge(r, u.id) BY <3>1
    <3>3. PICK n \in 1..N : u = d.tasks[n] BY <1>2 DEF Range
    <3>4. PICK m \in 1..(n - 1) : d.tasks[m].id = r BY <1>2, <3>2, <3>3 DEF GanttKnown
    <3>5. m \in 1..N BY <1>2
    <3>6. TaskNode(d, plan, m) \in bars /\ TaskNode(d, plan, n) \in bars BY <1>3, <3>5
    <3>7. TaskNode(d, plan, m).id = r /\ TaskNode(d, plan, n).id = u.id
      BY <1>7, <3>3, <3>4, <3>5
    <3>8. e.from = r /\ e.to = u.id BY <3>2 DEF Edge
    <3> HIDE DEF bars
    <3> QED BY <3>6, <3>7, <3>8
  <2>12. SceneOk(LayoutGantt(d))
    <3> HIDE DEF bars, edges
    <3>1. SceneOk(WithTitle(Scene(bars, edges, w, h), d.titled))
      BY <1>4, <2>7, <2>8, <2>9, <2>10, <2>11, FlatTitled
    <3> QED BY <2>1, <3>1
  <2>13. ASSUME NEW i \in 1..N
         PROVE  LET b == BoxIn(LayoutGantt(d).nodes, d.tasks[i].id)
                IN  b.y = 22 + (i - 1) * 30 + (IF d.titled THEN TitleBand ELSE 0) /\ b.h = 22
    <3>1. PICK b \in LayoutGantt(d).nodes :
            /\ b.id = d.tasks[i].id /\ b.h = 22
            /\ b.y = 22 + (i - 1) * 30 + (IF d.titled THEN TitleBand ELSE 0)
      BY BarShown
    <3>2. \A a, c \in LayoutGantt(d).nodes : a.id = c.id => a = c BY <2>12 DEF SceneOk
    <3>3. BoxIn(LayoutGantt(d).nodes, b.id) = b BY <3>2, BoxFound
    <3> QED BY <3>1, <3>3
  <2>14. ASSUME NEW i \in 1..N, NEW j \in 1..N, i < j
         PROVE  Bottom(BoxIn(LayoutGantt(d).nodes, d.tasks[i].id))
                  < BoxIn(LayoutGantt(d).nodes, d.tasks[j].id).y
    <3> DEFINE a == BoxIn(LayoutGantt(d).nodes, d.tasks[i].id)
               b == BoxIn(LayoutGantt(d).nodes, d.tasks[j].id)
               band == IF d.titled THEN TitleBand ELSE 0
    <3>1. a.y = 22 + (i - 1) * 30 + band /\ a.h = 22 BY <2>13
    <3>2. b.y = 22 + (j - 1) * 30 + band BY <2>13
    <3>3. band \in Int BY DEF TitleBand
    <3> HIDE DEF a, b, band
    <3>4. Bottom(a) < b.y BY <1>2, <2>14, <3>1, <3>2, <3>3 DEF Bottom
    <3> QED BY <3>4 DEF a, b
  <2> QED BY <1>2, <1>6, <2>12, <2>14
<1> QED BY <1>8, <1>9

-----------------------------------------------------------------------------
(* The sequence diagram.                                                   *)

(* What is read of a sequence: one actor after the other, notes in order.  *)
LEMMA SequenceFacts ==
    ASSUME NEW d, SequenceDiagram(d)
    PROVE  /\ Len(d.actors) \in Nat /\ DOMAIN d.actors = 1..Len(d.actors)
           /\ Len(d.notes) \in Nat /\ DOMAIN d.notes = 1..Len(d.notes)
           /\ Len(d.messages) \in Nat /\ DOMAIN d.messages = 1..Len(d.messages)
           /\ \A i \in 1..Len(d.actors) : d.actors[i].id # Root /\ d.actors[i].label \in Nat
           /\ \A k \in 1..Len(d.notes) :
                LET n == d.notes[k]
                IN  /\ n \in Range(d.notes) /\ n.after \in 0..Len(d.messages) /\ n.text \in Nat
                    /\ n.side \in {"over", "left", "right"}
<1>1. /\ d.actors \in Seq(Range(d.actors)) /\ d.notes \in Seq(Range(d.notes))
      /\ d.messages \in Seq(Range(d.messages)) BY DEF SequenceDiagram, IsSequence
<1>2. /\ Len(d.actors) \in Nat /\ DOMAIN d.actors = 1..Len(d.actors)
      /\ Len(d.notes) \in Nat /\ DOMAIN d.notes = 1..Len(d.notes)
      /\ Len(d.messages) \in Nat /\ DOMAIN d.messages = 1..Len(d.messages)
  BY <1>1, LenProperties
<1>3. \A i \in 1..Len(d.actors) : d.actors[i] \in Range(d.actors) BY <1>2 DEF Range
<1>4. \A k \in 1..Len(d.notes) : d.notes[k] \in Range(d.notes) BY <1>2 DEF Range
<1>5. \A a \in Range(d.actors) : a.id # Root /\ a.label \in Nat BY DEF SequenceDiagram
<1>6. \A n \in Range(d.notes) : n.after \in 0..Len(d.messages) /\ n.text \in Nat
                                /\ n.side \in {"over", "left", "right"}
  BY DEF SequenceDiagram
<1> QED BY <1>2, <1>3, <1>4, <1>5, <1>6

(* Actors stand next to each other, a gap between them.                    *)
LEMMA ActorsApart ==
    ASSUME NEW d, SequenceDiagram(d)
    PROVE  /\ \A i \in 1..Len(d.actors) : /\ ActorWidth(d.actors[i]) \in Nat
                                          /\ ActorLeft(d, i) \in Nat
           /\ \A i, j \in 1..Len(d.actors) : i < j =>
                ActorLeft(d, i) + ActorWidth(d.actors[i]) < ActorLeft(d, j)
<1> DEFINE A == Len(d.actors)
           f == [j \in DOMAIN d.actors |-> ActorWidth(d.actors[j]) + ActorGap]
<1>1. A \in Nat /\ DOMAIN d.actors = 1..A BY SequenceFacts
<1>2. \A i \in 1..A : ActorWidth(d.actors[i]) \in Nat
  <2>1. TAKE i \in 1..A
  <2>2. d.actors[i].label \in Nat BY SequenceFacts
  <2> QED BY <2>2 DEF ActorWidth, ClampedWidth, Larger
<1>3. \A i \in 1..A : f[i] = ActorWidth(d.actors[i]) + ActorGap /\ f[i] \in Nat
  BY <1>1, <1>2 DEF ActorGap
<1>4. \A i : ActorLeft(d, i) = Before(f, i) BY DEF ActorLeft
<1> HIDE DEF f, A
<1>5. \A i \in 1..(A + 1) : Before(f, i) \in Nat BY <1>1, <1>3, Cursor
<1>6. \A i, j \in 1..A : i < j => Before(f, i) + f[i] <= Before(f, j)
  <2>1. TAKE i, j \in 1..A
  <2>2. HAVE i < j
  <2>3. j \in 1..(A + 1) BY <1>1
  <2> QED BY <1>1, <1>3, <2>2, <2>3, CursorPasses
<1>7. ASSUME NEW i \in 1..A, NEW j \in 1..A, i < j
      PROVE  ActorLeft(d, i) + ActorWidth(d.actors[i]) < ActorLeft(d, j)
  <2>1. i \in 1..(A + 1) /\ j \in 1..(A + 1) BY <1>1
  <2>2. Before(f, i) \in Nat /\ Before(f, j) \in Nat /\ ActorWidth(d.actors[i]) \in Nat
    BY <1>2, <1>5, <2>1 DEF A
  <2>3. Before(f, i) + (ActorWidth(d.actors[i]) + 60) <= Before(f, j)
    BY <1>3, <1>6, <1>7 DEF ActorGap
  <2> QED BY <1>4, <2>2, <2>3
<1>8. \A i \in 1..A : i \in 1..(A + 1) BY <1>1
<1> QED BY <1>2, <1>4, <1>5, <1>7, <1>8 DEF A

(* A note is a box on its row.                                             *)
LEMMA NotePlaced ==
    ASSUME NEW d, SequenceDiagram(d), SequenceKnown(d), NEW k \in 1..Len(d.notes)
    PROVE  LET b == NoteNode(d, k)
           IN  /\ IsNode(b) /\ b.id = <<"note", k>> /\ b.parent = Root
               /\ NoteRow(d, k) \in Nat
               /\ b.y = 80 + (NoteRow(d, k) + 1) * 56 - 15 /\ b.h = 30
<1> DEFINE note == d.notes[k]
           centres == {CentreX(d, t) : t \in note.targets}
           text == ClampedWidth(note.text, 60, 20)
           wide == Larger(text, Max(centres) - Min(centres) + 2 * 20)
           b == NoteNode(d, k)
           y == RowY(NoteRow(d, k)) - 15
<1>1. /\ note \in Range(d.notes) /\ note.after \in 0..Len(d.messages) /\ note.text \in Nat
      /\ note.side \in {"over", "left", "right"} /\ k \in Int /\ k >= 1
      /\ Len(d.messages) \in Nat BY SequenceFacts
<1>2. note.targets # {} /\ note.targets \subseteq Actors(d) BY <1>1 DEF SequenceKnown
<1>3. IsFiniteSet(note.targets)
  <2> DEFINE f == [i \in DOMAIN d.actors |-> d.actors[i].id]
  <2>1. DOMAIN f = 1..Len(d.actors) /\ Len(d.actors) \in Nat BY SequenceFacts
  <2>2. IsFiniteSet(DOMAIN f) /\ f = [i \in DOMAIN f |-> f[i]] BY <2>1, FS_Interval
  <2>3. Actors(d) = {f[i] : i \in DOMAIN f} BY DEF Actors
  <2> HIDE DEF f
  <2>4. IsFiniteSet(Actors(d)) BY <2>2, <2>3, ImageFinite
  <2> QED BY <1>2, <2>4, FS_Subset
<1>4. ASSUME NEW t \in note.targets PROVE CentreX(d, t) \in Int
  <2>1. \E j \in DOMAIN d.actors : d.actors[j].id = t BY <1>2 DEF Actors
  <2> DEFINE i == CHOOSE j \in DOMAIN d.actors : d.actors[j].id = t
  <2>2. i \in 1..Len(d.actors) BY <2>1, SequenceFacts
  <2>3. ActorLeft(d, i) \in Nat /\ ActorWidth(d.actors[i]) \in Nat BY <2>2, ActorsApart
  <2>4. CentreX(d, t) = ActorLeft(d, i) + ActorWidth(d.actors[i]) \div 2 BY DEF CentreX
  <2> HIDE DEF i
  <2> QED BY <2>3, <2>4
<1>5. Max(centres) \in Int /\ Min(centres) \in Int
  <2> DEFINE f == [t \in note.targets |-> CentreX(d, t)]
  <2>1. IsFiniteSet(DOMAIN f) /\ f = [i \in DOMAIN f |-> f[i]] BY <1>3
  <2>2. centres = {f[i] : i \in DOMAIN f} OBVIOUS
  <2>3. IsFiniteSet({f[i] : i \in DOMAIN f})
    <3> HIDE DEF f, centres
    <3> QED BY <2>1, ImageFinite
  <2>4. centres \subseteq Int /\ centres # {} BY <1>2, <1>4
  <2> HIDE DEF f, centres
  <2> QED BY <2>2, <2>3, <2>4, Extremes
<1>6. text \in Int /\ wide \in Int
  <2>1. text \in Int BY <1>1 DEF ClampedWidth, Larger
  <2> HIDE DEF text, centres
  <2> QED BY <1>5, <2>1 DEF Larger
<1>7. NoteRow(d, k) \in Nat BY <1>1 DEF NoteRow
<1>8. y \in Int /\ y = 80 + (NoteRow(d, k) + 1) * 56 - 15 BY <1>7 DEF RowY, ActorHeight
<1>9. b = Node(<<"note", k>>,
               CASE note.side = "over"  -> (Min(centres) + Max(centres)) \div 2
                                              - (IF note.side = "over" THEN wide ELSE text) \div 2
                 [] note.side = "left"  -> Min(centres) - 16 - (IF note.side = "over" THEN wide ELSE text)
                 [] note.side = "right" -> Max(centres) + 16,
               y, IF note.side = "over" THEN wide ELSE text, 30, Root)
  BY DEF NoteNode
<1> HIDE DEF centres, text, wide, y, b
<1>10. PICK x \in Int, w \in Int : b = Node(<<"note", k>>, x, y, w, 30, Root)
  <2>1. CASE note.side = "over"
    <3>1. b = Node(<<"note", k>>, (Min(centres) + Max(centres)) \div 2 - wide \div 2, y, wide, 30, Root)
      BY <1>9, <2>1
    <3>2. (Min(centres) + Max(centres)) \div 2 - wide \div 2 \in Int BY <1>5, <1>6
    <3> QED BY <1>6, <3>1, <3>2
  <2>2. CASE note.side = "left"
    <3>1. b = Node(<<"note", k>>, Min(centres) - 16 - text, y, text, 30, Root) BY <1>9, <2>2
    <3>2. Min(centres) - 16 - text \in Int BY <1>5, <1>6
    <3> QED BY <1>6, <3>1, <3>2
  <2>3. CASE note.side = "right"
    <3>1. b = Node(<<"note", k>>, Max(centres) + 16, y, text, 30, Root) BY <1>9, <2>3
    <3>2. Max(centres) + 16 \in Int BY <1>5
    <3> QED BY <1>6, <3>1, <3>2
  <2> QED BY <1>1, <2>1, <2>2, <2>3
<1>11. /\ b.id = <<"note", k>> /\ b.x = x /\ b.y = y /\ b.w = w /\ b.h = 30 /\ b.parent = Root
  BY <1>10 DEF Node
<1>12. IsNode(b) BY <1>8, <1>10, <1>11 DEF IsNode
<1> QED BY <1>7, <1>8, <1>11, <1>12 DEF b

(* Notes and messages have the rows of the text: a note is below those     *)
(* before it and the message it follows, and above the messages after it.  *)
LEMMA RowsOrdered ==
    ASSUME NEW d, SequenceDiagram(d)
    PROVE  /\ \A j, k \in 1..Len(d.notes) : j < k => NoteRow(d, j) < NoteRow(d, k)
           /\ \A k \in 1..Len(d.notes) : NoteRow(d, k) <= Len(d.messages) + Len(d.notes) - 1
           /\ \A k \in 1..Len(d.notes) : \A m \in 1..Len(d.messages) :
                IF m <= d.notes[k].after THEN MessageRow(d, m) < NoteRow(d, k)
                                         ELSE NoteRow(d, k) < MessageRow(d, m)
<1> DEFINE K == Len(d.notes)
<1>1. /\ K \in Nat /\ DOMAIN d.notes = 1..K /\ Len(d.messages) \in Nat
      /\ \A k \in 1..K : d.notes[k].after \in 0..Len(d.messages) BY SequenceFacts
<1>2. \A j, k \in 1..K : j < k => d.notes[j].after <= d.notes[k].after
  BY <1>1 DEF SequenceDiagram
<1> HIDE DEF K
<1>3. \A j, k \in 1..K : j < k => NoteRow(d, j) < NoteRow(d, k) BY <1>1, <1>2 DEF NoteRow
<1>4. \A k \in 1..K : NoteRow(d, k) <= Len(d.messages) + K - 1 BY <1>1 DEF NoteRow
<1>5. ASSUME NEW k \in 1..K, NEW m \in 1..Len(d.messages)
      PROVE  IF m <= d.notes[k].after THEN MessageRow(d, m) < NoteRow(d, k)
                                      ELSE NoteRow(d, k) < MessageRow(d, m)
  <2> DEFINE S == {j \in DOMAIN d.notes : d.notes[j].after < m}
  <2>1. IsFiniteSet(S) /\ Cardinality(S) \in Nat
    <3>1. IsFiniteSet(1..K) BY <1>1, FS_Interval
    <3>2. S \subseteq 1..K BY <1>1
    <3> QED BY <3>1, <3>2, FS_Subset, FS_CardinalityType
  <2>2. MessageRow(d, m) = (m - 1) + Cardinality(S) BY DEF MessageRow
  <2>3. CASE m <= d.notes[k].after
    <3>1. S \subseteq 1..(k - 1) BY <1>1, <1>2, <2>3
    <3>2. IsFiniteSet(1..(k - 1)) /\ Cardinality(1..(k - 1)) = k - 1
      <4>1. 1 \in Int /\ k - 1 \in Int /\ ~(1 > k - 1) => (k - 1) - 1 + 1 = k - 1 BY <1>1
      <4>2. k = 1 => 1 > k - 1 BY <1>1
      <4>3. k # 1 => ~(1 > k - 1) BY <1>1
      <4>4. k = 1 => k - 1 = 0 OBVIOUS
      <4>5. k \in Int BY <1>1
      <4> QED BY <4>1, <4>2, <4>3, <4>4, <4>5, FS_Interval
    <3>3. Cardinality(S) <= k - 1 BY <3>1, <3>2, FS_Subset
    <3> HIDE DEF S
    <3> QED BY <1>1, <2>1, <2>2, <2>3, <3>3 DEF NoteRow
  <2>4. CASE ~(m <= d.notes[k].after)
    <3>1. 1..k \subseteq S
      <4>1. ASSUME NEW j \in 1..k PROVE j \in S
        <5>1. j \in 1..K /\ (j = k \/ j < k) BY <1>1
        <5>2. d.notes[j].after <= d.notes[k].after BY <1>1, <1>2, <5>1
        <5> QED BY <1>1, <2>4, <5>1, <5>2
      <4> QED BY <4>1
    <3>2. Cardinality(1..k) = k
      <4>1. 1 \in Int /\ k \in Int /\ ~(1 > k) /\ k - 1 + 1 = k BY <1>1
      <4> QED BY <4>1, FS_Interval
    <3>3. k <= Cardinality(S) BY <2>1, <3>1, <3>2, FS_Subset
    <3> HIDE DEF S
    <3> QED BY <1>1, <2>1, <2>2, <2>4, <3>3 DEF NoteRow
  <2> QED BY <2>3, <2>4
<1> QED BY <1>3, <1>4, <1>5 DEF K

(* Boxes shifted right keep their distances and none sticks out on the     *)
(* left.                                                                   *)
LEMMA ShiftedBoxes ==
    ASSUME NEW nodes, IsFiniteSet(nodes), \A b \in nodes : IsNode(b)
    PROVE  \E dx \in Int :
             /\ Shifted(nodes) = {[b EXCEPT !.x = @ + dx] : b \in nodes}
             /\ \A b \in nodes :
                  LET c == [b EXCEPT !.x = @ + dx]
                  IN  /\ IsNode(c) /\ c.id = b.id /\ c.parent = b.parent
                      /\ c.x = b.x + dx /\ c.x >= 0 /\ c.y = b.y /\ c.w = b.w /\ c.h = b.h
<1> DEFINE S == {0} \cup {b.x : b \in nodes}
           f == [b \in nodes |-> b.x]
           dx == -Min(S)
<1>1. IsFiniteSet(S)
  <2>1. IsFiniteSet(DOMAIN f) /\ f = [b \in DOMAIN f |-> f[b]] OBVIOUS
  <2>2. {b.x : b \in nodes} = {f[b] : b \in DOMAIN f} OBVIOUS
  <2>3. IsFiniteSet({f[b] : b \in DOMAIN f})
    <3> HIDE DEF f
    <3> QED BY <2>1, ImageFinite
  <2>4. IsFiniteSet({0}) BY FS_Singleton
  <2> HIDE DEF f
  <2> QED BY <2>2, <2>3, <2>4, FS_Union
<1>2. S \subseteq Int /\ S # {} BY DEF IsNode
<1>3. Min(S) \in Int /\ \A x \in S : Min(S) <= x
  <2> HIDE DEF S
  <2> QED BY <1>1, <1>2, Extremes
<1>4. \A b \in nodes : b.x \in S OBVIOUS
<1>5. Shifted(nodes) = {[b EXCEPT !.x = @ + dx] : b \in nodes} BY DEF Shifted
<1> HIDE DEF S
<1>6. dx \in Int BY <1>3
<1>7. ASSUME NEW b \in nodes
      PROVE  LET c == [b EXCEPT !.x = @ + dx]
             IN  /\ IsNode(c) /\ c.id = b.id /\ c.parent = b.parent
                 /\ c.x = b.x + dx /\ c.x >= 0 /\ c.y = b.y /\ c.w = b.w /\ c.h = b.h
  <2> DEFINE c == [b EXCEPT !.x = @ + dx]
  <2>1. b.x + dx >= 0 /\ b.x \in Int BY <1>3, <1>4 DEF IsNode
  <2> HIDE DEF dx
  <2>2. b = Node(b.id, b.x, b.y, b.w, b.h, b.parent)
        /\ b.x \in Int /\ b.y \in Int /\ b.w \in Int /\ b.h \in Int BY DEF IsNode
  <2>3. c = Node(b.id, b.x + dx, b.y, b.w, b.h, b.parent) BY <2>2 DEF Node
  <2> HIDE DEF c
  <2>4. /\ c.id = b.id /\ c.parent = b.parent /\ c.x = b.x + dx
        /\ c.y = b.y /\ c.w = b.w /\ c.h = b.h BY <2>3 DEF Node
  <2>5. b.x + dx \in Int BY <1>6, <2>1
  <2>6. IsNode(c) BY <2>2, <2>3, <2>4, <2>5 DEF IsNode
  <2> QED BY <2>1, <2>4, <2>6 DEF c
<1> HIDE DEF dx
<1> QED BY <1>5, <1>6, <1>7

(* The scene of a sequence whose actors are known, none called as a note   *)
(* is.                                                                     *)
LEMMA SequenceScene ==
    ASSUME NEW d, SequenceDiagram(d), SequenceKnown(d),
           \A k \in DOMAIN d.notes : <<"note", k>> \notin Actors(d)
    PROVE  /\ LayoutSequence(d).ok = TRUE /\ SceneOk(LayoutSequence(d))
           /\ \A i, j \in DOMAIN d.actors : i < j =>
                LET a == BoxIn(LayoutSequence(d).nodes, d.actors[i].id)
                    b == BoxIn(LayoutSequence(d).nodes, d.actors[j].id)
                IN  a.y = b.y /\ Right(a) < b.x
<1> DEFINE A == Len(d.actors)
           K == Len(d.notes)
           actor(i) == Node(d.actors[i].id, ActorLeft(d, i), 0, ActorWidth(d.actors[i]),
                            ActorHeight, Root)
           actors == {actor(i) : i \in DOMAIN d.actors}
           notes == {NoteNode(d, k) : k \in DOMAIN d.notes}
           nodes == actors \cup notes
           boxes == Shifted(nodes)
           edges == {Edge(m.from, m.to) : m \in Range(d.messages)}
           rights == {Right(b) : b \in boxes}
           w == MaxOf(rights)
           h == SequenceBottom(d)
<1>1. /\ A \in Nat /\ DOMAIN d.actors = 1..A /\ K \in Nat /\ DOMAIN d.notes = 1..K
      /\ Len(d.messages) \in Nat BY SequenceFacts
<1>2. LayoutSequence(d) = Scene(boxes, edges, w, h) BY DEF LayoutSequence
<1>3. ASSUME NEW i \in 1..A
      PROVE  /\ IsNode(actor(i)) /\ actor(i).id = d.actors[i].id /\ actor(i).id # Root
             /\ actor(i).parent = Root /\ actor(i).y = 0 /\ actor(i).h = 40
             /\ actor(i).x = ActorLeft(d, i) /\ actor(i).w = ActorWidth(d.actors[i])
  <2>1. ActorLeft(d, i) \in Nat /\ ActorWidth(d.actors[i]) \in Nat BY ActorsApart
  <2>2. d.actors[i].id # Root BY SequenceFacts
  <2> QED BY <2>1, <2>2 DEF Node, IsNode, ActorHeight
<1>4. \A i \in 1..A : actor(i) \in nodes BY <1>1
<1>5. ASSUME NEW k \in 1..K
      PROVE  LET b == NoteNode(d, k)
             IN  /\ IsNode(b) /\ b.id = <<"note", k>> /\ b.id # Root /\ b.parent = Root
                 /\ NoteRow(d, k) \in Nat
                 /\ b.y = 80 + (NoteRow(d, k) + 1) * 56 - 15 /\ b.h = 30
                 /\ b.id \notin Actors(d)
  <2>1. <<"note", k>> # Root BY DEF Root
  <2>2. /\ IsNode(NoteNode(d, k)) /\ NoteNode(d, k).id = <<"note", k>>
        /\ NoteNode(d, k).parent = Root /\ NoteRow(d, k) \in Nat
        /\ NoteNode(d, k).y = 80 + (NoteRow(d, k) + 1) * 56 - 15 /\ NoteNode(d, k).h = 30
    BY NotePlaced
  <2>3. <<"note", k>> \notin Actors(d) BY <1>1
  <2> QED BY <2>1, <2>2, <2>3
<1>6. ASSUME NEW b \in nodes
      PROVE  \/ \E i \in 1..A : b = actor(i)
             \/ \E k \in 1..K : b = NoteNode(d, k)
  BY <1>1
<1>7. IsFiniteSet(nodes)
  <2> DEFINE f == [i \in 1..A |-> actor(i)]
             g == [k \in 1..K |-> NoteNode(d, k)]
  <2>1. IsFiniteSet(DOMAIN f) /\ f = [x \in DOMAIN f |-> f[x]] BY <1>1, FS_Interval
  <2>2. IsFiniteSet(DOMAIN g) /\ g = [x \in DOMAIN g |-> g[x]] BY <1>1, FS_Interval
  <2>3. actors = {f[x] : x \in DOMAIN f} /\ notes = {g[x] : x \in DOMAIN g} BY <1>1
  <2> HIDE DEF f, g, actors, notes
  <2>4. IsFiniteSet(actors) BY <2>1, <2>3, ImageFinite
  <2>5. IsFiniteSet(notes) BY <2>2, <2>3, ImageFinite
  <2> QED BY <2>4, <2>5, FS_Union
<1>8. \A b \in nodes : IsNode(b) /\ b.id # Root /\ b.parent = Root
  <2> HIDE DEF actor, nodes
  <2> QED BY <1>3, <1>5, <1>6
<1>9. \A b \in nodes : b.y >= 0 /\ Bottom(b) <= h
  <2>1. TAKE b \in nodes
  <2>2. h \in Int /\ h = 80 + (Len(d.messages) + K) * 56 + 30
    BY <1>1 DEF SequenceBottom, ActorHeight
  <2> HIDE DEF h
  <2>3. ASSUME NEW i \in 1..A, b = actor(i) PROVE b.y >= 0 /\ Bottom(b) <= h
    <3>1. b.y = 0 /\ b.h = 40 BY <1>3, <2>3
    <3> HIDE DEF actor, nodes, K
    <3> QED BY <1>1, <2>2, <3>1 DEF Bottom
  <2>4. ASSUME NEW k \in 1..K, b = NoteNode(d, k) PROVE b.y >= 0 /\ Bottom(b) <= h
    <3>1. b.y = 80 + (NoteRow(d, k) + 1) * 56 - 15 /\ b.h = 30 /\ NoteRow(d, k) \in Nat
      BY <1>5, <2>4
    <3>2. NoteRow(d, k) <= Len(d.messages) + K - 1 BY RowsOrdered
    <3> DEFINE r == NoteRow(d, k)
    <3> HIDE DEF K, r, actor, nodes
    <3>3. r \in Nat /\ r <= Len(d.messages) + K - 1 BY <3>1, <3>2 DEF r, K
    <3>4. b.y = 80 + (r + 1) * 56 - 15 /\ b.h = 30 BY <3>1 DEF r
    <3>5. Bottom(b) = 80 + (r + 1) * 56 + 15 BY <3>3, <3>4 DEF Bottom
    <3>6. b.y >= 0 BY <3>3, <3>4
    <3>7. K \in Nat /\ Len(d.messages) \in Nat BY <1>1
    <3>8. Bottom(b) <= h BY <2>2, <3>3, <3>5, <3>7
    <3> QED BY <3>6, <3>8
  <2> HIDE DEF nodes, actor
  <2> QED BY <1>6, <2>3, <2>4
<1>10. ASSUME NEW a \in nodes, NEW b \in nodes PROVE a.id = b.id => a = b
  <2>1. ASSUME NEW i \in 1..A, NEW j \in 1..A, a = actor(i), b = actor(j)
        PROVE  a.id = b.id => a = b
    <3>1. a.id = d.actors[i].id /\ b.id = d.actors[j].id BY <1>3, <2>1
    <3>2. Apart(d.actors) BY DEF SequenceDiagram
    <3>3. a.id = b.id => i = j BY <1>1, <3>1, <3>2 DEF Apart
    <3> QED BY <2>1, <3>3
  <2>2. ASSUME NEW k \in 1..K, NEW l \in 1..K, a = NoteNode(d, k), b = NoteNode(d, l)
        PROVE  a.id = b.id => a = b
    <3>1. a.id = <<"note", k>> /\ b.id = <<"note", l>> BY <1>5, <2>2
    <3>2. a.id = b.id => k = l BY <3>1
    <3> QED BY <2>2, <3>2
  <2>3. ASSUME NEW i \in 1..A, NEW k \in 1..K
        PROVE  actor(i).id # NoteNode(d, k).id
    <3>1. actor(i).id \in Actors(d) BY <1>1, <1>3 DEF Actors
    <3>2. NoteNode(d, k).id \notin Actors(d) BY <1>5
    <3> QED BY <3>1, <3>2
  <2> HIDE DEF actor, nodes
  <2> QED BY <1>6, <2>1, <2>2, <2>3
<1>11. ASSUME NEW a \in nodes, NEW b \in nodes, a # b PROVE Clear(a, b)
  <2>1. ASSUME NEW i \in 1..A, NEW j \in 1..A, i # j
        PROVE  Clear(actor(i), actor(j))
    <3>1. i < j \/ j < i BY <1>1, <2>1
    <3>2. /\ ActorLeft(d, i) \in Nat /\ ActorWidth(d.actors[i]) \in Nat
          /\ ActorLeft(d, j) \in Nat /\ ActorWidth(d.actors[j]) \in Nat BY ActorsApart
    <3>3. \/ ActorLeft(d, i) + ActorWidth(d.actors[i]) < ActorLeft(d, j)
          \/ ActorLeft(d, j) + ActorWidth(d.actors[j]) < ActorLeft(d, i)
      BY <3>1, ActorsApart
    <3>4. Right(actor(i)) = ActorLeft(d, i) + ActorWidth(d.actors[i])
          /\ Right(actor(j)) = ActorLeft(d, j) + ActorWidth(d.actors[j])
          /\ actor(i).x = ActorLeft(d, i) /\ actor(j).x = ActorLeft(d, j)
      BY <1>3 DEF Right
    <3> HIDE DEF actor
    <3> QED BY <3>2, <3>3, <3>4 DEF Clear
  <2>2. ASSUME NEW k \in 1..K, NEW l \in 1..K, k # l
        PROVE  Clear(NoteNode(d, k), NoteNode(d, l))
    <3>1. k < l \/ l < k BY <1>1, <2>2
    <3>2. NoteRow(d, k) < NoteRow(d, l) \/ NoteRow(d, l) < NoteRow(d, k) BY <3>1, RowsOrdered
    <3>3. /\ NoteRow(d, k) \in Nat /\ NoteNode(d, k).h = 30
          /\ NoteNode(d, k).y = 80 + (NoteRow(d, k) + 1) * 56 - 15 BY <1>5
    <3>4. /\ NoteRow(d, l) \in Nat /\ NoteNode(d, l).h = 30
          /\ NoteNode(d, l).y = 80 + (NoteRow(d, l) + 1) * 56 - 15 BY <1>5
    <3> QED BY <3>2, <3>3, <3>4 DEF Clear, Bottom
  <2>3. ASSUME NEW i \in 1..A, NEW k \in 1..K
        PROVE  Clear(actor(i), NoteNode(d, k)) /\ Clear(NoteNode(d, k), actor(i))
    <3>1. actor(i).y = 0 /\ actor(i).h = 40 BY <1>3
    <3>2. /\ NoteRow(d, k) \in Nat
          /\ NoteNode(d, k).y = 80 + (NoteRow(d, k) + 1) * 56 - 15 BY <1>5
    <3>3. Bottom(actor(i)) <= NoteNode(d, k).y BY <3>1, <3>2 DEF Bottom
    <3> QED BY <3>3 DEF Clear
  <2> HIDE DEF actor, nodes
  <2> QED BY <1>6, <1>11, <2>1, <2>2, <2>3
<1> HIDE DEF nodes, actor, h
<1>12. PICK dx \in Int :
         /\ boxes = {[b EXCEPT !.x = @ + dx] : b \in nodes}
         /\ \A b \in nodes :
              LET c == [b EXCEPT !.x = @ + dx]
              IN  /\ IsNode(c) /\ c.id = b.id /\ c.parent = b.parent
                  /\ c.x = b.x + dx /\ c.x >= 0 /\ c.y = b.y /\ c.w = b.w /\ c.h = b.h
  BY <1>7, <1>8, ShiftedBoxes
<1> DEFINE right(b) == [b EXCEPT !.x = @ + dx]
<1>13. boxes = {right(b) : b \in nodes} BY <1>12
<1>14. \A b \in nodes : /\ IsNode(right(b)) /\ right(b).id = b.id /\ right(b).parent = b.parent
                        /\ right(b).x = b.x + dx /\ right(b).x >= 0 /\ right(b).y = b.y
                        /\ right(b).w = b.w /\ right(b).h = b.h
  BY <1>12
<1> HIDE DEF right, boxes
<1>15. w \in Int /\ \A b \in boxes : Right(b) <= w
  <2> DEFINE f == [b \in nodes |-> Right(right(b))]
  <2>1. IsFiniteSet(DOMAIN f) /\ f = [x \in DOMAIN f |-> f[x]] BY <1>7
  <2>2. rights = {f[x] : x \in DOMAIN f} BY <1>13
  <2>3. IsFiniteSet(rights)
    <3> HIDE DEF f, rights
    <3> QED BY <2>1, <2>2, ImageFinite
  <2>4. rights \subseteq Int BY <1>13, <1>14 DEF IsNode, Right
  <2>5. \A b \in boxes : Right(b) \in rights OBVIOUS
  <2> HIDE DEF rights
  <2> QED BY <2>3, <2>4, <2>5, MaxOfBounds
<1> HIDE DEF w
<1>16. h \in Int BY <1>1 DEF h, SequenceBottom, ActorHeight
<1>17. ASSUME NEW b \in boxes
       PROVE  IsNode(b) /\ b.parent = Root /\ b.id # Root /\ Inside(b, w, h)
  <2>1. PICK a \in nodes : b = right(a) BY <1>13
  <2>2. a.y >= 0 /\ Bottom(a) <= h /\ IsNode(a) BY <1>8, <1>9
  <2>3. Bottom(b) = Bottom(a) /\ b.y = a.y /\ b.x >= 0 BY <1>14, <2>1 DEF Bottom
  <2>4. IsNode(b) BY <1>14, <2>1
  <2>5. Inside(b, w, h) BY <1>15, <2>2, <2>3, <2>4 DEF Inside, IsNode
  <2> QED BY <1>8, <1>14, <2>1, <2>5
<1>18. \A a, b \in boxes : a.id = b.id => a = b
  <2>1. ASSUME NEW a \in nodes, NEW b \in nodes, right(a).id = right(b).id
        PROVE  right(a) = right(b) BY <1>10, <1>14, <2>1
  <2> QED BY <1>13, <2>1
<1>19. \A a, b \in boxes : a # b => Clear(a, b)
  <2>1. ASSUME NEW a \in nodes, NEW b \in nodes, right(a) # right(b)
        PROVE  Clear(right(a), right(b))
    <3>1. Clear(a, b) /\ IsNode(a) /\ IsNode(b) BY <1>8, <1>11, <2>1
    <3>2. /\ right(a).x = a.x + dx /\ right(a).y = a.y /\ right(a).w = a.w /\ right(a).h = a.h
          /\ right(b).x = b.x + dx /\ right(b).y = b.y /\ right(b).w = b.w /\ right(b).h = b.h
      BY <1>14
    <3> QED BY <3>1, <3>2 DEF Clear, IsNode, Right, Bottom
  <2> QED BY <1>13, <2>1
<1>20. ASSUME NEW i \in 1..A
       PROVE  right(actor(i)) \in boxes /\ right(actor(i)).id = d.actors[i].id
  BY <1>3, <1>4, <1>13, <1>14
<1>21. \A e \in edges : {e.from, e.to} \subseteq {b.id : b \in boxes}
  <2>1. \A id \in Actors(d) : \E b \in boxes : b.id = id BY <1>1, <1>20 DEF Actors
  <2>2. ASSUME NEW m \in Range(d.messages)
        PROVE  {Edge(m.from, m.to).from, Edge(m.from, m.to).to} \subseteq {b.id : b \in boxes}
    <3>1. m.from \in Actors(d) /\ m.to \in Actors(d) BY DEF SequenceKnown
    <3>2. Edge(m.from, m.to).from = m.from /\ Edge(m.from, m.to).to = m.to BY DEF Edge
    <3> QED BY <2>1, <3>1, <3>2
  <2> QED BY <2>2
<1> HIDE DEF edges
<1>22. SceneOk(LayoutSequence(d)) BY <1>2, <1>15, <1>16, <1>17, <1>18, <1>19, <1>21, FlatScene
<1>23. LayoutSequence(d).ok = TRUE /\ LayoutSequence(d).nodes = boxes BY <1>2 DEF Scene
<1>24. ASSUME NEW i \in 1..A, NEW j \in 1..A, i < j
       PROVE  LET a == BoxIn(LayoutSequence(d).nodes, d.actors[i].id)
                  b == BoxIn(LayoutSequence(d).nodes, d.actors[j].id)
              IN  a.y = b.y /\ Right(a) < b.x
  <2>1. BoxIn(boxes, right(actor(i)).id) = right(actor(i)) BY <1>18, <1>20, BoxFound
  <2>2. BoxIn(boxes, right(actor(j)).id) = right(actor(j)) BY <1>18, <1>20, BoxFound
  <2>3. ActorLeft(d, i) + ActorWidth(d.actors[i]) < ActorLeft(d, j) BY <1>24, ActorsApart
  <2>4. /\ ActorLeft(d, i) \in Nat /\ ActorWidth(d.actors[i]) \in Nat
        /\ ActorLeft(d, j) \in Nat BY ActorsApart
  <2>5. /\ right(actor(i)).x = ActorLeft(d, i) + dx /\ right(actor(i)).w = ActorWidth(d.actors[i])
        /\ right(actor(i)).y = 0 BY <1>3, <1>4, <1>14
  <2>6. right(actor(j)).x = ActorLeft(d, j) + dx /\ right(actor(j)).y = 0 BY <1>3, <1>4, <1>14
  <2>7. Right(right(actor(i))) < right(actor(j)).x BY <2>3, <2>4, <2>5, <2>6 DEF Right
  <2> QED BY <1>20, <1>23, <2>1, <2>2, <2>5, <2>6, <2>7
<1> QED BY <1>1, <1>22, <1>23, <1>24

-----------------------------------------------------------------------------
(* The timeline.                                                           *)

(* Finitely many finite sets have finitely many elements.                  *)
LEMMA UnionFinite ==
    ASSUME NEW N \in Nat, NEW f, \A i \in 1..N : IsFiniteSet(f[i])
    PROVE  IsFiniteSet(UNION {f[i] : i \in 1..N})
<1> DEFINE U(n) == UNION {f[i] : i \in 1..n}
           T == {n \in 0..N : IsFiniteSet(U(n))}
<1>1. 0 \in T
  <2>1. U(0) = {} OBVIOUS
  <2>2. IsFiniteSet({}) BY FS_EmptySet
  <2> HIDE DEF U
  <2> QED BY <2>1, <2>2
<1>2. ASSUME NEW n \in 1..N, n - 1 \in T PROVE n \in T
  <2>1. \A i : i \in 1..n <=> i \in 1..(n - 1) \/ i = n OBVIOUS
  <2>2. U(n) = U(n - 1) \cup f[n] BY <2>1
  <2>3. IsFiniteSet(U(n - 1)) /\ IsFiniteSet(f[n]) /\ n \in 0..N BY <1>2
  <2> DEFINE V == U(n - 1)
  <2> HIDE DEF U, V
  <2>4. IsFiniteSet(V) /\ IsFiniteSet(f[n]) BY <2>3 DEF V
  <2>5. IsFiniteSet(V \cup f[n]) BY <2>4, FS_Union
  <2>6. IsFiniteSet(U(n)) BY <2>2, <2>5 DEF V
  <2> QED BY <2>3, <2>6
<1>3. N \in T
  <2>1. N \in 0..N OBVIOUS
  <2> HIDE DEF T
  <2> QED BY <1>1, <1>2, <2>1, UpTo
<1> QED BY <1>3

(* Under a title or not, each box is there, at its height.                 *)
LEMMA TitledBox ==
    ASSUME NEW nodes, NEW edges, NEW w, NEW h, NEW titled \in BOOLEAN,
           NEW b \in nodes, IsNode(b)
    PROVE  \E c \in WithTitle(Scene(nodes, edges, w, h), titled).nodes :
             c.id = b.id /\ c.x = b.x /\ c.w = b.w
<1>1. b = Node(b.id, b.x, b.y, b.w, b.h, b.parent) BY DEF IsNode
<1>2. CASE ~titled
  <2>1. WithTitle(Scene(nodes, edges, w, h), titled).nodes = nodes BY <1>2 DEF WithTitle, Scene
  <2> QED BY <2>1
<1>3. CASE titled
  <2> DEFINE c == [b EXCEPT !.y = @ + TitleBand]
  <2>1. WithTitle(Scene(nodes, edges, w, h), titled).nodes
          = {[a EXCEPT !.y = @ + TitleBand] : a \in nodes} BY <1>3 DEF WithTitle, Scene
  <2>2. c.id = b.id /\ c.x = b.x /\ c.w = b.w BY <1>1 DEF Node
  <2>3. c \in WithTitle(Scene(nodes, edges, w, h), titled).nodes BY <2>1
  <2> HIDE DEF c
  <2> QED BY <2>2, <2>3
<1> QED BY <1>2, <1>3

(* What is read of a timeline.                                             *)
LEMMA TimelineFacts ==
    ASSUME NEW d, TimelineDiagram(d)
    PROVE  /\ Len(d.periods) \in Nat /\ DOMAIN d.periods = 1..Len(d.periods)
           /\ d.titled \in BOOLEAN
           /\ \A i \in 1..Len(d.periods) :
                LET p == d.periods[i]
                IN  /\ p \in Range(d.periods) /\ p.label \in Nat /\ p.lines \in Nat \ {0}
                    /\ Len(p.events) \in Nat /\ DOMAIN p.events = 1..Len(p.events)
                    /\ \A k \in 1..Len(p.events) : /\ p.events[k].label \in Nat
                                                   /\ p.events[k].lines \in Nat \ {0}
<1>1. d.periods \in Seq(Range(d.periods)) /\ d.titled \in BOOLEAN
  BY DEF TimelineDiagram, IsSequence
<1>2. Len(d.periods) \in Nat /\ DOMAIN d.periods = 1..Len(d.periods) BY <1>1, LenProperties
<1>3. ASSUME NEW i \in 1..Len(d.periods)
      PROVE  LET p == d.periods[i]
             IN  /\ p \in Range(d.periods) /\ p.label \in Nat /\ p.lines \in Nat \ {0}
                 /\ Len(p.events) \in Nat /\ DOMAIN p.events = 1..Len(p.events)
                 /\ \A k \in 1..Len(p.events) : /\ p.events[k].label \in Nat
                                                /\ p.events[k].lines \in Nat \ {0}
  <2> DEFINE p == d.periods[i]
  <2>1. p \in Range(d.periods) BY <1>2 DEF Range
  <2> HIDE DEF p
  <2>2. /\ p.label \in Nat /\ p.lines \in Nat \ {0} /\ p.events \in Seq(Range(p.events))
        /\ \A e \in Range(p.events) : e.label \in Nat /\ e.lines \in Nat \ {0}
    BY <2>1 DEF TimelineDiagram, IsSequence
  <2>3. Len(p.events) \in Nat /\ DOMAIN p.events = 1..Len(p.events) BY <2>2, LenProperties
  <2>4. \A k \in 1..Len(p.events) : p.events[k] \in Range(p.events) BY <2>3 DEF Range
  <2> QED BY <2>1, <2>2, <2>3, <2>4 DEF p
<1> QED BY <1>1, <1>2, <1>3

(* Columns stand next to each other, a gap between them.                   *)
LEMMA ColumnsApart ==
    ASSUME NEW d, TimelineDiagram(d)
    PROVE  /\ \A i \in 1..Len(d.periods) :
                ColWidth(d.periods[i]) \in Nat /\ ColX(d, i) \in Nat /\ ColX(d, i) >= Margin
           /\ \A i, j \in 1..Len(d.periods) : i < j =>
                ColX(d, i) + ColWidth(d.periods[i]) < ColX(d, j)
<1> DEFINE P == Len(d.periods)
           f == [j \in DOMAIN d.periods |-> ColWidth(d.periods[j]) + 18]
<1>1. P \in Nat /\ DOMAIN d.periods = 1..P BY TimelineFacts
<1>2. ASSUME NEW i \in 1..P PROVE ColWidth(d.periods[i]) \in Nat
  <2> DEFINE p == d.periods[i]
             g == [k \in 1..Len(p.events) |-> p.events[k].label + 28]
             L == {e.label + 28 : e \in Range(p.events)}
             S == {92, p.label + 28} \cup L
  <2>1. /\ p.label \in Nat /\ Len(p.events) \in Nat /\ DOMAIN p.events = 1..Len(p.events)
        /\ \A k \in 1..Len(p.events) : p.events[k].label \in Nat BY TimelineFacts
  <2> HIDE DEF p
  <2>2. IsFiniteSet(DOMAIN g) /\ g = [k \in DOMAIN g |-> g[k]] BY <2>1, FS_Interval
  <2>3. L = {g[k] : k \in DOMAIN g}
    <3>1. Range(p.events) = {p.events[k] : k \in 1..Len(p.events)} BY <2>1 DEF Range
    <3>2. L = {p.events[k].label + 28 : k \in 1..Len(p.events)} BY <3>1
    <3> QED BY <3>2
  <2>4. L \subseteq Nat
    <3>1. \A k \in DOMAIN g : g[k] \in Nat BY <2>1
    <3> HIDE DEF g, L
    <3> QED BY <2>3, <3>1
  <2>5. IsFiniteSet(L)
    <3> HIDE DEF g, L
    <3> QED BY <2>2, <2>3, ImageFinite
  <2>6. IsFiniteSet({92, p.label + 28})
    <3>1. IsFiniteSet({92}) /\ IsFiniteSet({p.label + 28}) BY FS_Singleton
    <3>2. {92, p.label + 28} = {92} \cup {p.label + 28} OBVIOUS
    <3>3. IsFiniteSet({92} \cup {p.label + 28}) BY <3>1, FS_Union
    <3> QED BY <3>2, <3>3
  <2>7. {92, p.label + 28} \subseteq Nat BY <2>1
  <2> HIDE DEF L
  <2>8. IsFiniteSet(S) BY <2>5, <2>6, FS_Union
  <2>9. S \subseteq Nat /\ S \subseteq Int
    <3>1. S \subseteq Nat BY <2>4, <2>7
    <3> HIDE DEF S
    <3> QED BY <3>1
  <2>10. ColWidth(p) = MaxOf(S) BY DEF ColWidth, L
  <2> HIDE DEF S
  <2>11. ColWidth(p) \in Nat BY <2>8, <2>9, <2>10, MaxOfBounds
  <2> QED BY <2>11 DEF p
<1>3. \A i \in 1..P : f[i] = ColWidth(d.periods[i]) + 18 /\ f[i] \in Nat BY <1>1, <1>2
<1>4. \A i : ColX(d, i) = Margin + Before(f, i) BY DEF ColX
<1> HIDE DEF f, P
<1>5. \A i \in 1..(P + 1) : Before(f, i) \in Nat BY <1>1, <1>3, Cursor
<1>6. \A i \in 1..P : i \in 1..(P + 1) BY <1>1
<1>7. \A i \in 1..P : ColX(d, i) \in Nat /\ ColX(d, i) >= Margin
  <2>1. Margin = 16 BY DEF Margin
  <2> QED BY <1>4, <1>5, <1>6, <2>1
<1>8. ASSUME NEW i \in 1..P, NEW j \in 1..P, i < j
      PROVE  ColX(d, i) + ColWidth(d.periods[i]) < ColX(d, j)
  <2>1. Before(f, i) + f[i] <= Before(f, j)
    <3>1. j \in 1..(P + 1) BY <1>6
    <3> QED BY <1>1, <1>3, <1>8, <3>1, CursorPasses
  <2>2. Before(f, i) \in Nat /\ Before(f, j) \in Nat /\ ColWidth(d.periods[i]) \in Nat
    BY <1>2, <1>5, <1>6 DEF P
  <2>3. f[i] = ColWidth(d.periods[i]) + 18 BY <1>3
  <2>4. Margin = 16 BY DEF Margin
  <2> QED BY <1>4, <2>1, <2>2, <2>3, <2>4
<1> QED BY <1>2, <1>7, <1>8 DEF P

\* The box of an event, and that of a band.
EventBox(d, i, k) ==
    LET heights == [m \in DOMAIN d.periods[i].events |->
                      TallBox(d.periods[i].events[m].lines, 32) + RowGap]
    IN  Node(<<"event", i, k>>, ColX(d, i), EventsTop(d, i) + Before(heights, k),
             ColWidth(d.periods[i]), heights[k] - RowGap, Root)
BandBox(d, r) ==
    Node(<<"section", r[1]>>, ColX(d, r[1]), Margin,
         ColX(d, r[2]) + ColWidth(d.periods[r[2]]) - ColX(d, r[1]), 26, Root)

(* A period is at the top of its column, its events below it and each      *)
(* below those before.                                                     *)
LEMMA ColumnStacked ==
    ASSUME NEW d, TimelineDiagram(d), NEW i \in 1..Len(d.periods)
    PROVE  LET p == PeriodNode(d, i)
               E == Len(d.periods[i].events)
           IN  /\ IsNode(p) /\ p.id = <<"period", i>> /\ p.parent = Root
               /\ p.x = ColX(d, i) /\ p.w = ColWidth(d.periods[i])
               /\ p.y = PeriodY(d) /\ PeriodY(d) \in Nat /\ PeriodY(d) >= Margin
               /\ EventNodes(d, i) = {EventBox(d, i, k) : k \in 1..E}
               /\ \A k \in 1..E : /\ IsNode(EventBox(d, i, k)) /\ EventBox(d, i, k).id = <<"event", i, k>>
                                  /\ EventBox(d, i, k).parent = Root
                                  /\ EventBox(d, i, k).x = ColX(d, i) /\ EventBox(d, i, k).w = ColWidth(d.periods[i])
                                  /\ Bottom(p) <= EventBox(d, i, k).y /\ PeriodY(d) <= EventBox(d, i, k).y
               /\ \A k, l \in 1..E : k < l => Bottom(EventBox(d, i, k)) <= EventBox(d, i, l).y
<1> DEFINE q == d.periods[i]
           E == Len(q.events)
           p == PeriodNode(d, i)
           x == ColX(d, i)
           w == ColWidth(q)
           hs == [k \in DOMAIN q.events |-> TallBox(q.events[k].lines, 32) + RowGap]
           top == EventsTop(d, i)
           box(k) == Node(<<"event", i, k>>, x, top + Before(hs, k), w, hs[k] - RowGap, Root)
           event(k) == EventBox(d, i, k)
<1>1. /\ q.lines \in Nat \ {0} /\ E \in Nat /\ DOMAIN q.events = 1..E
      /\ \A k \in 1..E : q.events[k].lines \in Nat \ {0} BY TimelineFacts
<1>2. x \in Nat /\ w \in Nat BY ColumnsApart
<1>3. PeriodY(d) \in Nat /\ PeriodY(d) >= Margin BY DEF PeriodY, Margin
<1>4. TallBox(q.lines, 36) \in Nat BY <1>1 DEF TallBox
<1>5. p = Node(<<"period", i>>, x, PeriodY(d), w, TallBox(q.lines, 36), Root) BY DEF PeriodNode
<1>6. /\ p.id = <<"period", i>> /\ p.parent = Root /\ p.x = x /\ p.w = w /\ p.y = PeriodY(d)
      /\ p.h = TallBox(q.lines, 36)
  <2> HIDE DEF p
  <2> QED BY <1>5 DEF Node
<1>7. IsNode(p)
  <2>1. p = Node(p.id, p.x, p.y, p.w, p.h, p.parent)
    <3> HIDE DEF p
    <3> QED BY <1>5, <1>6
  <2> HIDE DEF p
  <2> QED BY <1>2, <1>3, <1>4, <1>6, <2>1 DEF IsNode
<1>8. top \in Nat /\ Bottom(p) <= top /\ PeriodY(d) <= top
  <2>1. Bottom(p) \in Nat
    <3> HIDE DEF p
    <3> QED BY <1>3, <1>4, <1>6 DEF Bottom
  <2>2. top = Larger(PeriodY(d) + 36, Bottom(p)) + RowGap BY DEF EventsTop
  <2> HIDE DEF p, top
  <2> QED BY <1>3, <2>1, <2>2 DEF Larger, RowGap
<1>9. \A k \in 1..E : hs[k] \in Nat /\ hs[k] - RowGap \in Nat
  <2>1. TAKE k \in 1..E
  <2>2. q.events[k].lines \in Nat \ {0} BY <1>1
  <2>3. hs[k] = TallBox(q.events[k].lines, 32) + RowGap BY <1>1
  <2> DEFINE lines == q.events[k].lines
  <2>4. TallBox(lines, 32) \in Nat
    <3> HIDE DEF lines
    <3>1. lines \in Nat /\ lines >= 1 BY <2>2 DEF lines
    <3> QED BY <3>1 DEF TallBox
  <2> HIDE DEF hs, q
  <2> QED BY <2>3, <2>4 DEF RowGap
<1>10. EventNodes(d, i) = {box(k) : k \in 1..E} BY <1>1 DEF EventNodes
<1> HIDE DEF hs, top, p, x, w, E
<1>11. \A k \in 1..(E + 1) : Before(hs, k) \in Nat BY <1>1, <1>9, Cursor
<1>12. ASSUME NEW k \in 1..E
       PROVE  /\ IsNode(box(k)) /\ box(k).id = <<"event", i, k>> /\ box(k).parent = Root
              /\ box(k).x = x /\ box(k).w = w
              /\ box(k).y = top + Before(hs, k) /\ box(k).h = hs[k] - RowGap
              /\ Before(hs, k) \in Nat
              /\ Bottom(p) <= box(k).y /\ PeriodY(d) <= box(k).y
  <2>1. Before(hs, k) \in Nat
    <3>1. k \in 1..(E + 1) BY <1>1
    <3> QED BY <1>11, <3>1
  <2>2. /\ box(k).id = <<"event", i, k>> /\ box(k).parent = Root
        /\ box(k).x = x /\ box(k).w = w
        /\ box(k).y = top + Before(hs, k) /\ box(k).h = hs[k] - RowGap BY DEF Node
  <2>3. box(k) = Node(box(k).id, box(k).x, box(k).y, box(k).w, box(k).h, box(k).parent)
    BY <2>2
  <2> HIDE DEF box
  <2>4. top + Before(hs, k) \in Int BY <1>8, <2>1
  <2>5. IsNode(box(k)) BY <1>2, <1>9, <2>2, <2>3, <2>4 DEF IsNode
  <2>6. Bottom(p) <= top + Before(hs, k) /\ PeriodY(d) <= top + Before(hs, k)
    <3>1. Bottom(p) \in Int BY <1>7 DEF IsNode, Bottom
    <3> QED BY <1>3, <1>8, <2>1, <3>1
  <2> QED BY <2>1, <2>2, <2>5, <2>6
<1>13. \A k : event(k) = box(k) BY DEF EventBox, hs, top, x, w
<1>14. ASSUME NEW k \in 1..E, NEW l \in 1..E, k < l PROVE Bottom(event(k)) <= event(l).y
  <2>1. Before(hs, k) + hs[k] <= Before(hs, l)
    <3>1. l \in 1..(E + 1) BY <1>1
    <3> QED BY <1>1, <1>9, <1>14, <3>1, CursorPasses
  <2>2. Bottom(box(k)) = (top + Before(hs, k)) + (hs[k] - RowGap) BY <1>12 DEF Bottom
  <2>3. Before(hs, k) \in Nat /\ Before(hs, l) \in Nat BY <1>12
  <2>4. box(l).y = top + Before(hs, l) BY <1>12
  <2> HIDE DEF box, event
  <2>5. Bottom(box(k)) <= box(l).y BY <1>8, <1>9, <2>1, <2>2, <2>3, <2>4 DEF RowGap
  <2> QED BY <1>13, <2>5
<1>15. EventNodes(d, i) = {event(k) : k \in 1..E}
  <2> HIDE DEF event, box
  <2> QED BY <1>10, <1>13
<1>16. \A k \in 1..E : /\ IsNode(event(k)) /\ event(k).id = <<"event", i, k>>
                       /\ event(k).parent = Root
                       /\ event(k).x = x /\ event(k).w = w
                       /\ Bottom(p) <= event(k).y /\ PeriodY(d) <= event(k).y
  <2> HIDE DEF event, box
  <2> QED BY <1>12, <1>13
<1> HIDE DEF event
<1> QED BY <1>3, <1>6, <1>7, <1>14, <1>15, <1>16 DEF event, p, x, w, E

(* The runs of a section are apart.                                        *)
LEMMA RunsApart ==
    ASSUME NEW d, TimelineDiagram(d)
    PROVE  /\ \A r \in Runs(d) : /\ r[1] \in 1..Len(d.periods) /\ r[2] \in 1..Len(d.periods)
                                 /\ r[1] <= r[2] /\ d.periods[r[1]].section # 0
           /\ \A r, s \in Runs(d) : r[1] = s[1] => r = s
           /\ \A r, s \in Runs(d) : r[1] < s[1] => r[2] < s[1]
<1> DEFINE P == Len(d.periods)
           at(i) == d.periods[i].section
<1>1. P \in Nat /\ DOMAIN d.periods = 1..P BY TimelineFacts
<1>2. Runs(d) = {r \in (1..P) \X (1..P) :
                   /\ r[1] <= r[2] /\ at(r[1]) # 0
                   /\ \A i \in r[1]..r[2] : at(i) = at(r[1])
                   /\ r[1] - 1 \in 1..P => at(r[1] - 1) # at(r[1])
                   /\ r[2] + 1 \in 1..P => at(r[2] + 1) # at(r[1])}
  BY <1>1 DEF Runs
<1> HIDE DEF P, at
<1>3. ASSUME NEW r \in Runs(d)
      PROVE  /\ r[1] \in 1..P /\ r[2] \in 1..P /\ r[1] <= r[2] /\ at(r[1]) # 0
             /\ r = <<r[1], r[2]>>
             /\ \A i \in r[1]..r[2] : at(i) = at(r[1])
             /\ r[1] - 1 \in 1..P => at(r[1] - 1) # at(r[1])
             /\ r[2] + 1 \in 1..P => at(r[2] + 1) # at(r[1])
  BY <1>2
<1>4. ASSUME NEW r \in Runs(d), NEW s \in Runs(d), r[1] = s[1], r[2] < s[2] PROVE FALSE
  <2>1. r[2] + 1 \in s[1]..s[2] /\ r[2] + 1 \in 1..P BY <1>1, <1>3, <1>4
  <2>2. at(r[2] + 1) = at(r[1]) BY <1>3, <1>4, <2>1
  <2> QED BY <1>3, <2>1, <2>2
<1>5. ASSUME NEW r \in Runs(d), NEW s \in Runs(d), r[1] = s[1] PROVE r = s
  <2>1. r[2] \in Int /\ s[2] \in Int BY <1>3
  <2>2. ~(r[2] < s[2]) /\ ~(s[2] < r[2]) BY <1>4, <1>5
  <2>3. r[2] = s[2] BY <2>1, <2>2
  <2>4. r = <<r[1], r[2]>> /\ s = <<s[1], s[2]>> BY <1>3
  <2> QED BY <1>5, <2>3, <2>4
<1>6. ASSUME NEW r \in Runs(d), NEW s \in Runs(d), r[1] < s[1] PROVE r[2] < s[1]
  <2>1. SUFFICES ASSUME ~(r[2] < s[1]) PROVE FALSE OBVIOUS
  <2>2. r[1] \in 1..P /\ r[2] \in 1..P /\ s[1] \in 1..P BY <1>3
  <2>3. s[1] \in r[1]..r[2] /\ s[1] - 1 \in r[1]..r[2] /\ s[1] - 1 \in 1..P
    BY <1>1, <1>6, <2>1, <2>2
  <2>4. at(s[1]) = at(r[1]) /\ at(s[1] - 1) = at(r[1]) BY <1>3, <2>3
  <2> QED BY <1>3, <2>3, <2>4
<1> QED BY <1>3, <1>5, <1>6 DEF P, at

(* A band is over its run, above all periods.                              *)
LEMMA BandPlaced ==
    ASSUME NEW d, TimelineDiagram(d), NEW r \in Runs(d)
    PROVE  LET b == BandBox(d, r)
           IN  /\ IsNode(b) /\ b.id = <<"section", r[1]>> /\ b.parent = Root
               /\ b.x = ColX(d, r[1]) /\ Right(b) = ColX(d, r[2]) + ColWidth(d.periods[r[2]])
               /\ b.y = Margin /\ Bottom(b) <= PeriodY(d)
<1> DEFINE x == ColX(d, r[1])
           v == ColX(d, r[2]) + ColWidth(d.periods[r[2]])
           b == Node(<<"section", r[1]>>, x, Margin, v - x, 26, Root)
<1>1. r[1] \in 1..Len(d.periods) /\ r[2] \in 1..Len(d.periods) /\ d.periods[r[1]].section # 0
  BY RunsApart
<1>2. x \in Nat /\ v \in Nat
  <2>1. /\ ColX(d, r[1]) \in Nat /\ ColX(d, r[2]) \in Nat
        /\ ColWidth(d.periods[r[2]]) \in Nat BY <1>1, ColumnsApart
  <2> QED BY <2>1
<1>3. PeriodY(d) = 52
  <2>1. d.periods[r[1]] \in Range(d.periods) BY <1>1, TimelineFacts
  <2> QED BY <1>1, <2>1 DEF PeriodY, Margin
<1> HIDE DEF x, v
<1>4. /\ b.id = <<"section", r[1]>> /\ b.parent = Root /\ b.x = x /\ b.y = 16 /\ b.w = v - x
      /\ b.h = 26 /\ b = Node(b.id, b.x, b.y, b.w, b.h, b.parent)
  BY DEF Node, Margin
<1> HIDE DEF b
<1>5. IsNode(b) BY <1>2, <1>4 DEF IsNode
<1>6. Right(b) = v /\ Bottom(b) = 42 BY <1>2, <1>4 DEF Right, Bottom
<1>7. b = BandBox(d, r)
  <2>1. ColX(d, r[2]) + ColWidth(d.periods[r[2]]) - ColX(d, r[1]) = v - x
    <3>1. /\ ColX(d, r[1]) \in Nat /\ ColX(d, r[2]) \in Nat
          /\ ColWidth(d.periods[r[2]]) \in Nat BY <1>1, ColumnsApart
    <3> QED BY <3>1 DEF v, x
  <2> QED BY <2>1 DEF BandBox, b, x
<1>8. b.y = Margin /\ Bottom(b) <= PeriodY(d) BY <1>3, <1>4, <1>6 DEF Margin
<1> QED BY <1>4, <1>5, <1>6, <1>7, <1>8 DEF x, v

(* The scene of any timeline.                                              *)
LEMMA TimelineScene ==
    ASSUME NEW d, TimelineDiagram(d)
    PROVE  /\ LayoutTimeline(d).ok = TRUE /\ SceneOk(LayoutTimeline(d))
           /\ \A i, j \in DOMAIN d.periods : i < j =>
                Right(BoxIn(LayoutTimeline(d).nodes, <<"period", i>>))
                  < BoxIn(LayoutTimeline(d).nodes, <<"period", j>>).x
<1> DEFINE P == Len(d.periods)
           E(i) == Len(d.periods[i].events)
           event(i, k) == EventBox(d, i, k)
           band(r) == BandBox(d, r)
           nodes == BandNodes(d) \cup
                      UNION {{PeriodNode(d, i)} \cup EventNodes(d, i) : i \in DOMAIN d.periods}
           edges == UNION {{Edge(<<"period", i>>, <<"event", i, k>>) :
                              k \in DOMAIN d.periods[i].events} : i \in DOMAIN d.periods}
           w == MaxOf({Right(b) : b \in nodes}) + Margin
           h == MaxOf({Bottom(b) : b \in nodes}) + Margin
           Col(b, i) == /\ i \in 1..P
                        /\ \/ b = PeriodNode(d, i)
                           \/ \E k \in 1..E(i) : b = event(i, k)
<1>1. P \in Nat /\ DOMAIN d.periods = 1..P /\ d.titled \in BOOLEAN BY TimelineFacts
<1>2. \A i \in 1..P : E(i) \in Nat /\ DOMAIN d.periods[i].events = 1..E(i) BY TimelineFacts
<1>3. LayoutTimeline(d) = WithTitle(Scene(nodes, edges, w, h), d.titled)
  BY DEF LayoutTimeline, Fitted
<1>4. \A i \in 1..P : EventNodes(d, i) = {event(i, k) : k \in 1..E(i)} BY ColumnStacked
<1>5. ASSUME NEW i \in 1..P
      PROVE  LET p == PeriodNode(d, i)
             IN  /\ IsNode(p) /\ p.id = <<"period", i>> /\ p.parent = Root
                 /\ p.x = ColX(d, i) /\ p.w = ColWidth(d.periods[i]) /\ p.y = PeriodY(d)
  BY ColumnStacked
<1>6. ASSUME NEW i \in 1..P, NEW k \in 1..E(i)
      PROVE  LET b == event(i, k)
             IN  /\ IsNode(b) /\ b.id = <<"event", i, k>> /\ b.parent = Root
                 /\ b.x = ColX(d, i) /\ b.w = ColWidth(d.periods[i])
                 /\ Bottom(PeriodNode(d, i)) <= b.y /\ PeriodY(d) <= b.y
  BY ColumnStacked
<1>7. \A i \in 1..P : \A k, l \in 1..E(i) : k < l => Bottom(event(i, k)) <= event(i, l).y
  BY ColumnStacked
<1>8. P # 0 => PeriodY(d) \in Nat /\ PeriodY(d) >= Margin BY <1>1 DEF PeriodY, Margin
<1>9. \A r \in Runs(d) :
        /\ IsNode(band(r)) /\ band(r).id = <<"section", r[1]>> /\ band(r).parent = Root
        /\ band(r).x = ColX(d, r[1])
        /\ Right(band(r)) = ColX(d, r[2]) + ColWidth(d.periods[r[2]])
        /\ band(r).y = Margin /\ Bottom(band(r)) <= PeriodY(d)
  BY BandPlaced
<1>10. BandNodes(d) = {band(r) : r \in Runs(d)} BY DEF BandNodes, BandBox
<1> HIDE DEF event, band
<1>11. \A b \in nodes : (\E i \in 1..P : Col(b, i)) \/ (\E r \in Runs(d) : b = band(r))
  <2>1. ASSUME NEW i \in 1..P, NEW b \in {PeriodNode(d, i)} \cup EventNodes(d, i)
        PROVE  Col(b, i)
    BY <1>4, <2>1
  <2>2. nodes = BandNodes(d) \cup UNION {{PeriodNode(d, i)} \cup EventNodes(d, i) : i \in 1..P}
    BY <1>1
  <2> HIDE DEF Col, nodes, P
  <2> QED BY <1>10, <2>1, <2>2
<1>12. \A i \in 1..P : PeriodNode(d, i) \in nodes
  <2> HIDE DEF P
  <2> QED BY <1>1
<1>13. \A i \in 1..P : \A k \in 1..E(i) : event(i, k) \in nodes
  <2>1. TAKE i \in 1..P
  <2>2. TAKE k \in 1..E(i)
  <2>3. event(i, k) \in EventNodes(d, i) BY <1>4
  <2> HIDE DEF P, event
  <2> QED BY <1>1, <2>3
<1>14. IsFiniteSet(nodes)
  <2> DEFINE f == [i \in 1..P |-> {PeriodNode(d, i)} \cup EventNodes(d, i)]
             g == [i \in 1..P |-> band(CHOOSE r \in Runs(d) : r[1] = i)]
  <2>1. ASSUME NEW i \in 1..P PROVE IsFiniteSet(f[i])
    <3> DEFINE M == E(i)
               e == [k \in 1..M |-> event(i, k)]
    <3>1. M \in Nat BY <1>2
    <3>0. EventNodes(d, i) = {event(i, k) : k \in 1..M} BY <1>4
    <3> HIDE DEF M
    <3>2. IsFiniteSet(DOMAIN e) /\ e = [k \in DOMAIN e |-> e[k]] BY <3>1, FS_Interval
    <3>3. EventNodes(d, i) = {e[k] : k \in DOMAIN e} BY <3>0
    <3>4. IsFiniteSet({e[k] : k \in DOMAIN e})
      <4> HIDE DEF e
      <4> QED BY <3>2, ImageFinite
    <3>5. IsFiniteSet({PeriodNode(d, i)}) BY FS_Singleton
    <3>6. IsFiniteSet({PeriodNode(d, i)} \cup EventNodes(d, i)) BY <3>3, <3>4, <3>5, FS_Union
    <3> QED BY <3>6
  <2>2. UNION {f[i] : i \in 1..P} = UNION {{PeriodNode(d, i)} \cup EventNodes(d, i) : i \in DOMAIN d.periods}
    BY <1>1
  <2>3. IsFiniteSet(UNION {f[i] : i \in 1..P})
    <3> HIDE DEF f, P
    <3> QED BY <1>1, <2>1, UnionFinite
  <2>4. IsFiniteSet({g[i] : i \in DOMAIN g})
    <3>1. IsFiniteSet(DOMAIN g) /\ g = [i \in DOMAIN g |-> g[i]] BY <1>1, FS_Interval
    <3> HIDE DEF g
    <3> QED BY <3>1, ImageFinite
  <2>5. \A r \in Runs(d) : band(r) \in {g[i] : i \in DOMAIN g}
    <3>1. TAKE r \in Runs(d)
    <3>2. r[1] \in 1..P BY RunsApart
    <3>3. r = CHOOSE s \in Runs(d) : s[1] = r[1] BY RunsApart
    <3>4. g[r[1]] = band(r) BY <3>2, <3>3
    <3>5. r[1] \in DOMAIN g BY <3>2
    <3> HIDE DEF g
    <3> QED BY <3>4, <3>5
  <2>6. BandNodes(d) \subseteq {g[i] : i \in DOMAIN g}
    <3> HIDE DEF g
    <3> QED BY <1>10, <2>5
  <2>7. IsFiniteSet(BandNodes(d))
    <3> HIDE DEF g
    <3> QED BY <2>4, <2>6, FS_Subset
  <2> DEFINE U == UNION {{PeriodNode(d, i)} \cup EventNodes(d, i) : i \in DOMAIN d.periods}
  <2>8. IsFiniteSet(U)
    <3> HIDE DEF f
    <3> QED BY <2>2, <2>3
  <2> HIDE DEF U
  <2>9. IsFiniteSet(BandNodes(d) \cup U) BY <2>7, <2>8, FS_Union
  <2> QED BY <2>9 DEF U
<1> HIDE DEF nodes
<1>15. ASSUME NEW b, NEW i, Col(b, i)
       PROVE  /\ IsNode(b) /\ b.parent = Root /\ b.id # Root
              /\ b.x = ColX(d, i) /\ b.w = ColWidth(d.periods[i]) /\ b.y >= PeriodY(d)
              /\ b.id = <<"period", i>> \/ \E k \in 1..E(i) : b.id = <<"event", i, k>>
              /\ i \in 1..P
  <2>1. i \in 1..P BY <1>15
  <2>2. PeriodY(d) \in Int BY <1>1, <1>8, <2>1
  <2>3. CASE b = PeriodNode(d, i)
    <3>1. /\ IsNode(b) /\ b.id = <<"period", i>> /\ b.parent = Root
          /\ b.x = ColX(d, i) /\ b.w = ColWidth(d.periods[i]) /\ b.y = PeriodY(d) BY <1>5, <2>1, <2>3
    <3>2. b.id # Root BY <3>1 DEF Root
    <3> HIDE DEF Col
    <3> QED BY <2>1, <2>2, <3>1, <3>2
  <2>4. ASSUME NEW k \in 1..E(i), b = event(i, k)
        PROVE  /\ IsNode(b) /\ b.parent = Root /\ b.id # Root
               /\ b.x = ColX(d, i) /\ b.w = ColWidth(d.periods[i]) /\ b.y >= PeriodY(d)
               /\ b.id = <<"event", i, k>>
    <3>1. /\ IsNode(b) /\ b.id = <<"event", i, k>> /\ b.parent = Root
          /\ b.x = ColX(d, i) /\ b.w = ColWidth(d.periods[i]) /\ PeriodY(d) <= b.y BY <1>6, <2>1, <2>4
    <3>2. b.id # Root BY <3>1 DEF Root
    <3>3. b.y \in Int BY <3>1 DEF IsNode
    <3> HIDE DEF Col
    <3> QED BY <2>2, <3>1, <3>2, <3>3
  <2> QED BY <1>15, <2>1, <2>3, <2>4
<1>16. ASSUME NEW r \in Runs(d)
       PROVE  IsNode(band(r)) /\ band(r).parent = Root /\ band(r).id # Root
              /\ band(r).id = <<"section", r[1]>>
  <2>1. <<"section", r[1]>> # Root BY DEF Root
  <2> QED BY <1>9, <2>1
<1>17. \A b \in nodes : IsNode(b) /\ b.parent = Root /\ b.id # Root /\ b.x >= 0 /\ b.y >= 0
  <2>1. ASSUME NEW b, NEW i, Col(b, i) PROVE b.x >= 0 /\ b.y >= 0
    <3>1. /\ b.x = ColX(d, i) /\ b.y >= PeriodY(d) /\ i \in 1..P /\ IsNode(b) BY <1>15, <2>1
    <3>2. ColX(d, i) \in Nat BY <3>1, ColumnsApart
    <3>3. PeriodY(d) \in Nat BY <1>1, <1>8, <3>1
    <3>4. b.y \in Int BY <3>1 DEF IsNode
    <3> HIDE DEF Col
    <3> QED BY <3>1, <3>2, <3>3, <3>4
  <2>2. ASSUME NEW r \in Runs(d) PROVE band(r).x >= 0 /\ band(r).y >= 0
    <3>1. r[1] \in 1..P BY RunsApart
    <3>2. ColX(d, r[1]) \in Nat BY <3>1, ColumnsApart
    <3> QED BY <1>9, <3>2 DEF Margin
  <2> HIDE DEF Col
  <2> QED BY <1>11, <1>15, <1>16, <2>1, <2>2
<1>18. ASSUME NEW a, NEW b, NEW i, NEW j, Col(a, i), Col(b, j), i # j PROVE Clear(a, b)
  <2>1. /\ a.x = ColX(d, i) /\ a.w = ColWidth(d.periods[i]) /\ i \in 1..P BY <1>15, <1>18
  <2>2. /\ b.x = ColX(d, j) /\ b.w = ColWidth(d.periods[j]) /\ j \in 1..P BY <1>15, <1>18
  <2>3. /\ ColX(d, i) \in Nat /\ ColWidth(d.periods[i]) \in Nat
        /\ ColX(d, j) \in Nat /\ ColWidth(d.periods[j]) \in Nat BY <2>1, <2>2, ColumnsApart
  <2>4. i < j \/ j < i BY <1>18, <2>1, <2>2
  <2>5. \/ ColX(d, i) + ColWidth(d.periods[i]) < ColX(d, j)
        \/ ColX(d, j) + ColWidth(d.periods[j]) < ColX(d, i)
    BY <2>1, <2>2, <2>4, ColumnsApart
  <2> HIDE DEF Col
  <2> QED BY <2>1, <2>2, <2>3, <2>5 DEF Clear, Right
<1>19. ASSUME NEW a, NEW b, NEW i, Col(a, i), Col(b, i), a # b PROVE Clear(a, b)
  <2>1. i \in 1..P BY <1>19
  <2>2. ASSUME NEW k \in 1..E(i)
        PROVE  Clear(PeriodNode(d, i), event(i, k)) /\ Clear(event(i, k), PeriodNode(d, i))
    <3>1. Bottom(PeriodNode(d, i)) <= event(i, k).y BY <1>6, <2>1
    <3> QED BY <3>1 DEF Clear
  <2>3. ASSUME NEW k \in 1..E(i), NEW l \in 1..E(i), k # l
        PROVE  Clear(event(i, k), event(i, l))
    <3>1. k < l \/ l < k BY <2>3
    <3>2. \/ Bottom(event(i, k)) <= event(i, l).y
          \/ Bottom(event(i, l)) <= event(i, k).y BY <1>7, <2>1, <3>1
    <3> QED BY <3>2 DEF Clear
  <2> QED BY <1>19, <2>2, <2>3
<1>20. ASSUME NEW b, NEW i, Col(b, i), NEW r \in Runs(d)
       PROVE  Clear(band(r), b) /\ Clear(b, band(r))
  <2>1. Bottom(band(r)) <= PeriodY(d) /\ IsNode(band(r)) BY <1>9
  <2>2. b.y >= PeriodY(d) /\ IsNode(b) /\ i \in 1..P BY <1>15, <1>20
  <2>3. PeriodY(d) \in Int BY <1>1, <1>8, <2>2
  <2>4. b.y \in Int /\ Bottom(band(r)) \in Int BY <2>1, <2>2 DEF IsNode, Bottom
  <2> HIDE DEF Col
  <2>5. Bottom(band(r)) <= b.y BY <2>1, <2>2, <2>3, <2>4
  <2> QED BY <2>5 DEF Clear
<1>21. ASSUME NEW r \in Runs(d), NEW s \in Runs(d), r # s
       PROVE  Clear(band(r), band(s)) /\ band(r).id # band(s).id
  <2>1. /\ r[1] \in 1..P /\ r[2] \in 1..P /\ s[1] \in 1..P /\ s[2] \in 1..P BY RunsApart
  <2>2. r[1] # s[1] BY <1>21, RunsApart
  <2>3. r[2] < s[1] \/ s[2] < r[1]
    <3>1. r[1] < s[1] \/ s[1] < r[1] BY <2>1, <2>2
    <3> QED BY <3>1, RunsApart
  <2>4. \/ ColX(d, r[2]) + ColWidth(d.periods[r[2]]) < ColX(d, s[1])
        \/ ColX(d, s[2]) + ColWidth(d.periods[s[2]]) < ColX(d, r[1])
    BY <2>1, <2>3, ColumnsApart
  <2>5. /\ ColX(d, r[2]) + ColWidth(d.periods[r[2]]) \in Int /\ ColX(d, s[1]) \in Int
        /\ ColX(d, s[2]) + ColWidth(d.periods[s[2]]) \in Int /\ ColX(d, r[1]) \in Int
    <3>1. /\ ColX(d, r[1]) \in Nat /\ ColX(d, s[1]) \in Nat
          /\ ColX(d, r[2]) \in Nat /\ ColWidth(d.periods[r[2]]) \in Nat
          /\ ColX(d, s[2]) \in Nat /\ ColWidth(d.periods[s[2]]) \in Nat BY <2>1, ColumnsApart
    <3> QED BY <3>1
  <2>6. /\ band(r).x = ColX(d, r[1]) /\ band(s).x = ColX(d, s[1])
        /\ Right(band(r)) = ColX(d, r[2]) + ColWidth(d.periods[r[2]])
        /\ Right(band(s)) = ColX(d, s[2]) + ColWidth(d.periods[s[2]]) BY <1>9
  <2>7. Right(band(r)) <= band(s).x \/ Right(band(s)) <= band(r).x BY <2>4, <2>5, <2>6
  <2>8. band(r).id # band(s).id BY <1>16, <2>2
  <2> QED BY <2>7, <2>8 DEF Clear
<1>22. ASSUME NEW a \in nodes, NEW b \in nodes, a # b PROVE Clear(a, b) /\ a.id # b.id
  <2>1. ASSUME NEW i, NEW j, Col(a, i), Col(b, j) PROVE Clear(a, b) /\ a.id # b.id
    <3>1. Clear(a, b)
      <4> HIDE DEF Col
      <4> QED BY <1>18, <1>19, <1>22, <2>1
    <3>2. a.id # b.id
      <4>1. SUFFICES ASSUME a.id = b.id PROVE FALSE OBVIOUS
      <4>2. \/ a = PeriodNode(d, i) /\ a.id = <<"period", i>>
            \/ \E k \in 1..E(i) : a = event(i, k) /\ a.id = <<"event", i, k>>
        BY <1>5, <1>6, <2>1
      <4>3. \/ b = PeriodNode(d, j) /\ b.id = <<"period", j>>
            \/ \E k \in 1..E(j) : b = event(j, k) /\ b.id = <<"event", j, k>>
        BY <1>5, <1>6, <2>1
      <4> HIDE DEF Col
      <4>4. CASE a = PeriodNode(d, i) /\ a.id = <<"period", i>>
        <5>1. b = PeriodNode(d, j) /\ b.id = <<"period", j>> BY <4>1, <4>3, <4>4
        <5>2. i = j BY <4>1, <4>4, <5>1
        <5> QED BY <1>22, <4>4, <5>1, <5>2
      <4>5. ASSUME NEW k \in 1..E(i), a = event(i, k), a.id = <<"event", i, k>> PROVE FALSE
        <5>1. PICK l \in 1..E(j) : b = event(j, l) /\ b.id = <<"event", j, l>>
          BY <4>1, <4>3, <4>5
        <5>2. i = j /\ k = l BY <4>1, <4>5, <5>1
        <5> QED BY <1>22, <4>5, <5>1, <5>2
      <4> QED BY <4>2, <4>4, <4>5
    <3> QED BY <3>1, <3>2
  <2>2. ASSUME NEW c, NEW i, Col(c, i), NEW r \in Runs(d) PROVE c.id # band(r).id
    <3>1. c.id = <<"period", i>> \/ \E k \in 1..E(i) : c.id = <<"event", i, k>> BY <1>15, <2>2
    <3>2. band(r).id = <<"section", r[1]>> BY <1>16
    <3> HIDE DEF Col
    <3> QED BY <3>1, <3>2
  <2> HIDE DEF Col
  <2>3. CASE \E i \in 1..P : Col(a, i)
    <3>1. CASE \E j \in 1..P : Col(b, j) BY <2>1, <2>3, <3>1
    <3>2. CASE \E r \in Runs(d) : b = band(r) BY <1>20, <2>2, <2>3, <3>2
    <3> QED BY <1>11, <3>1, <3>2
  <2>4. CASE \E r \in Runs(d) : a = band(r)
    <3>1. CASE \E j \in 1..P : Col(b, j) BY <1>20, <2>2, <2>4, <3>1
    <3>2. CASE \E r \in Runs(d) : b = band(r) BY <1>21, <1>22, <2>4, <3>2
    <3> QED BY <1>11, <3>1, <3>2
  <2> QED BY <1>11, <2>3, <2>4
<1>23. w \in Int /\ h \in Int /\ \A b \in nodes : Inside(b, w, h)
  <2>1. Margin \in Nat BY DEF Margin
  <2> QED BY <1>14, <1>17, <2>1, FittedHolds
<1>24. \A e \in edges : {e.from, e.to} \subseteq {b.id : b \in nodes}
  <2>1. ASSUME NEW i \in 1..P, NEW k \in 1..E(i)
        PROVE  LET e == Edge(<<"period", i>>, <<"event", i, k>>)
               IN  {e.from, e.to} \subseteq {b.id : b \in nodes}
    <3>1. PeriodNode(d, i) \in nodes /\ PeriodNode(d, i).id = <<"period", i>> BY <1>5, <1>12
    <3>2. event(i, k) \in nodes /\ event(i, k).id = <<"event", i, k>> BY <1>6, <1>13
    <3>3. /\ Edge(<<"period", i>>, <<"event", i, k>>).from = <<"period", i>>
          /\ Edge(<<"period", i>>, <<"event", i, k>>).to = <<"event", i, k>> BY DEF Edge
    <3> QED BY <3>1, <3>2, <3>3
  <2>2. ASSUME NEW e \in edges
        PROVE  \E i \in 1..P : \E k \in 1..E(i) : e = Edge(<<"period", i>>, <<"event", i, k>>)
    <3>1. PICK i \in 1..P : e \in {Edge(<<"period", i>>, <<"event", i, k>>) :
                                       k \in DOMAIN d.periods[i].events}
      <4> HIDE DEF P
      <4> QED BY <1>1
    <3>2. DOMAIN d.periods[i].events = 1..E(i) BY <1>2
    <3> HIDE DEF E
    <3> QED BY <3>1, <3>2
  <2> HIDE DEF edges, E, P
  <2> QED BY <2>1, <2>2
<1> HIDE DEF w, h, edges
<1>25. SceneOk(LayoutTimeline(d))
  BY <1>1, <1>3, <1>17, <1>22, <1>23, <1>24, FlatTitled
<1>26. LayoutTimeline(d).ok = TRUE BY <1>3 DEF WithTitle, Scene
<1>27. \A a, b \in LayoutTimeline(d).nodes : a.id = b.id => a = b BY <1>25 DEF SceneOk
<1>28. ASSUME NEW i \in 1..P
       PROVE  LET b == BoxIn(LayoutTimeline(d).nodes, <<"period", i>>)
              IN  b.x = ColX(d, i) /\ b.w = ColWidth(d.periods[i])
  <2> DEFINE p == PeriodNode(d, i)
  <2>1. /\ IsNode(p) /\ p \in nodes /\ p.id = <<"period", i>>
        /\ p.x = ColX(d, i) /\ p.w = ColWidth(d.periods[i]) BY <1>5, <1>12
  <2> HIDE DEF p
  <2>2. PICK c \in LayoutTimeline(d).nodes : c.id = p.id /\ c.x = p.x /\ c.w = p.w
    BY <1>1, <1>3, <2>1, TitledBox
  <2>3. BoxIn(LayoutTimeline(d).nodes, c.id) = c BY <1>27, BoxFound
  <2> QED BY <2>1, <2>2, <2>3
<1>29. ASSUME NEW i \in 1..P, NEW j \in 1..P, i < j
       PROVE  Right(BoxIn(LayoutTimeline(d).nodes, <<"period", i>>))
                < BoxIn(LayoutTimeline(d).nodes, <<"period", j>>).x
  <2>1. ColX(d, i) + ColWidth(d.periods[i]) < ColX(d, j) BY <1>29, ColumnsApart
  <2> QED BY <1>28, <2>1 DEF Right
<1> QED BY <1>1, <1>25, <1>26, <1>29

-----------------------------------------------------------------------------
(* The git graph.                                                          *)

(* Steps of one size: a later one is a step further at least.              *)
LEMMA StepsFurther ==
    ASSUME NEW a \in Nat, NEW b \in Nat, NEW p \in Nat
    PROVE  a * p \in Nat /\ (a < b => a * p + p <= b * p)
<1>0. a * p \in Nat OBVIOUS
<1>1. SUFFICES ASSUME a < b PROVE a * p + p <= b * p BY <1>0
<1>2. PICK k \in Nat : b = a + 1 + k
  <2>1. b - a - 1 \in Nat /\ b = a + 1 + (b - a - 1) BY <1>1
  <2> QED BY <2>1
<1>3. k * p \in Nat OBVIOUS
<1>4. b * p = a * p + p + k * p BY <1>2
<1> QED BY <1>0, <1>3, <1>4

(* The greatest of a number and what is made of the items of a sequence.   *)
LEMMA RangeFinite ==
    ASSUME NEW s, IsSequence(s)
    PROVE  /\ IsFiniteSet(Range(s)) /\ Len(s) \in Nat /\ DOMAIN s = 1..Len(s)
           /\ \A i \in 1..Len(s) : s[i] \in Range(s)
           /\ \A x \in Range(s) : \E i \in 1..Len(s) : x = s[i]
<1>1. s \in Seq(Range(s)) BY DEF IsSequence
<1>2. /\ Len(s) \in Nat /\ DOMAIN s = 1..Len(s) /\ s = [i \in DOMAIN s |-> s[i]]
  BY <1>1, LenProperties
<1>3. Range(s) = {s[i] : i \in DOMAIN s} BY DEF Range
<1>4. IsFiniteSet(DOMAIN s) BY <1>2, FS_Interval
<1>5. IsFiniteSet(Range(s)) BY <1>2, <1>3, <1>4, ImageFinite
<1> QED BY <1>2, <1>3, <1>5

(* Pills and heads are no wider than the widest.                           *)
LEMMA GitWidths ==
    ASSUME NEW d, GitDiagram(d)
    PROVE  /\ MaxPillW(d) \in Nat /\ MaxPillW(d) >= 30
           /\ \A i \in 1..Len(d.commits) :
                PillW(d, d.commits[i]) \in Nat /\ PillW(d, d.commits[i]) <= MaxPillW(d)
           /\ HeadW(d) \in Nat
<1>1. IsSequence(d.commits) /\ IsSequence(d.branches) BY DEF GitDiagram
<1>2. ASSUME NEW i \in 1..Len(d.commits) PROVE PillW(d, d.commits[i]) \in Nat
  <2>1. i \in DOMAIN d.commits BY <1>1, RangeFinite
  <2>2. d.commits[i].label \in Nat BY <2>1 DEF GitDiagram
  <2> QED BY <2>2 DEF PillW, CommitH, Larger
<1> DEFINE S == {PillW(d, c) : c \in Range(d.commits)}
<1>3. IsFiniteSet(S)
  <2> DEFINE f == [c \in Range(d.commits) |-> PillW(d, c)]
  <2>1. IsFiniteSet(DOMAIN f) /\ f = [c \in DOMAIN f |-> f[c]] BY <1>1, RangeFinite
  <2>2. S = {f[c] : c \in DOMAIN f} OBVIOUS
  <2> HIDE DEF f, S
  <2> QED BY <2>1, <2>2, ImageFinite
<1>4. S \subseteq Nat BY <1>1, <1>2, RangeFinite
<1>5. \A i \in 1..Len(d.commits) : PillW(d, d.commits[i]) \in S BY <1>1, RangeFinite
<1>6. IsFiniteSet({30}) BY FS_Singleton
<1>7. MaxPillW(d) = MaxOf({30} \cup S) BY DEF MaxPillW
<1> HIDE DEF S
<1>8. IsFiniteSet({30} \cup S) BY <1>3, <1>6, FS_Union
<1>9. {30} \cup S \subseteq Nat /\ {30} \cup S \subseteq Int /\ 30 \in {30} \cup S BY <1>4
<1>10. /\ MaxPillW(d) \in Nat /\ \A x \in {30} \cup S : x <= MaxPillW(d)
  BY <1>7, <1>8, <1>9, MaxOfBounds
<1>11. HeadW(d) \in Nat
  <2> DEFINE L == {b.label + 16 : b \in Range(d.branches)}
             f == [b \in Range(d.branches) |-> b.label + 16]
  <2>1. IsFiniteSet(DOMAIN f) /\ f = [c \in DOMAIN f |-> f[c]] BY <1>1, RangeFinite
  <2>2. L = {f[c] : c \in DOMAIN f} OBVIOUS
  <2>3. IsFiniteSet(L)
    <3> HIDE DEF f, L
    <3> QED BY <2>1, <2>2, ImageFinite
  <2>4. L \subseteq Nat BY DEF GitDiagram
  <2>5. HeadW(d) = MaxOf({48} \cup L) BY DEF HeadW
  <2>6. IsFiniteSet({48}) BY FS_Singleton
  <2> HIDE DEF L
  <2>7. IsFiniteSet({48} \cup L) BY <2>3, <2>6, FS_Union
  <2>8. {48} \cup L \subseteq Nat /\ {48} \cup L \subseteq Int BY <2>4
  <2> QED BY <2>5, <2>7, <2>8, MaxOfBounds
<1> QED BY <1>2, <1>5, <1>9, <1>10, <1>11

(* Commits are a pitch apart along the branches, branches across them.     *)
LEMMA GitCoordinates ==
    ASSUME NEW d, GitDiagram(d)
    PROVE  /\ \A i \in 1..Len(d.commits) :
                MainCoord(d, i - 1) \in Nat /\ MainCoord(d, i - 1) >= MainStart(d)
           /\ \A i, j \in 1..Len(d.commits) : i < j =>
                IF d.direction = "BT" THEN MainCoord(d, j - 1) + MainPitch(d) <= MainCoord(d, i - 1)
                                      ELSE MainCoord(d, i - 1) + MainPitch(d) <= MainCoord(d, j - 1)
           /\ \A l \in Nat : LaneCoord(d, l) \in Nat /\ LaneCoord(d, l) >= LaneStart(d)
           /\ \A l, m \in Nat : l < m => LaneCoord(d, l) + LanePitch(d) <= LaneCoord(d, m)
           /\ MainPitch(d) \in Nat /\ LanePitch(d) \in Nat /\ MainStart(d) \in Nat
           /\ LaneStart(d) \in Nat
<1> DEFINE N == Len(d.commits)
           p == MainPitch(d)
           q == LanePitch(d)
           last == Larger(0, N - 1)
           step(col) == IF d.direction = "BT" THEN last - col ELSE col
<1>1. N \in Nat
  <2>1. IsSequence(d.commits) BY DEF GitDiagram
  <2> QED BY <2>1, RangeFinite
<1>2. p \in Nat /\ q \in Nat
  <2>1. MaxPillW(d) \in Nat BY GitWidths
  <2> QED BY <2>1 DEF MainPitch, LanePitch, CommitH
<1>3. MainStart(d) \in Nat /\ LaneStart(d) \in Nat
  <2> DEFINE M == MaxPillW(d)
             H == HeadW(d)
  <2>1. M \in Nat /\ H \in Nat BY GitWidths
  <2>2. MainStart(d) = 28 + 16 + (IF Vertical(d) THEN 50 + 28 \div 2 ELSE H + M \div 2)
    BY DEF MainStart, HeadGap, Margin, HeadH, CommitH
  <2>3. LaneStart(d) = 16 + (IF Vertical(d) THEN M ELSE 28) \div 2 BY DEF LaneStart, Margin, CommitH
  <2> HIDE DEF M, H
  <2>4. M \div 2 \in Nat /\ 28 \div 2 = 14 BY <2>1
  <2> QED BY <2>1, <2>2, <2>3, <2>4
<1>4. \A col : MainCoord(d, col) = MainStart(d) + step(col) * p BY DEF MainCoord
<1>5. \A l : LaneCoord(d, l) = LaneStart(d) + l * q BY DEF LaneCoord
<1> HIDE DEF p, q, N
<1>6. \A i \in 1..N : step(i - 1) \in Nat
  <2>1. TAKE i \in 1..N
  <2>2. last = N - 1 BY <1>1 DEF Larger
  <2> HIDE DEF last
  <2> QED BY <1>1, <2>2
<1>7. \A i, j \in 1..N : i < j => IF d.direction = "BT" THEN step(j - 1) < step(i - 1)
                                                        ELSE step(i - 1) < step(j - 1)
  <2>1. TAKE i, j \in 1..N
  <2>2. last = N - 1 BY <1>1 DEF Larger
  <2> HIDE DEF last
  <2> QED BY <1>1, <2>2
<1> HIDE DEF step
<1>8. ASSUME NEW i \in 1..N
      PROVE  MainCoord(d, i - 1) \in Nat /\ MainCoord(d, i - 1) >= MainStart(d)
  <2>1. step(i - 1) * p \in Nat BY <1>2, <1>6, StepsFurther
  <2>2. MainCoord(d, i - 1) = MainStart(d) + step(i - 1) * p BY <1>4
  <2> QED BY <1>3, <2>1, <2>2
<1>9. ASSUME NEW i \in 1..N, NEW j \in 1..N, i < j
      PROVE  IF d.direction = "BT" THEN MainCoord(d, j - 1) + p <= MainCoord(d, i - 1)
                                   ELSE MainCoord(d, i - 1) + p <= MainCoord(d, j - 1)
  <2>1. step(i - 1) \in Nat /\ step(j - 1) \in Nat BY <1>6
  <2>2. IF d.direction = "BT" THEN step(j - 1) * p + p <= step(i - 1) * p
                              ELSE step(i - 1) * p + p <= step(j - 1) * p
    <3>1. CASE d.direction = "BT" BY <1>2, <1>7, <1>9, <2>1, <3>1, StepsFurther
    <3>2. CASE d.direction # "BT" BY <1>2, <1>7, <1>9, <2>1, <3>2, StepsFurther
    <3> QED BY <3>1, <3>2
  <2>3. step(i - 1) * p \in Nat /\ step(j - 1) * p \in Nat BY <1>2, <2>1, StepsFurther
  <2>4. /\ MainCoord(d, i - 1) = MainStart(d) + step(i - 1) * p
        /\ MainCoord(d, j - 1) = MainStart(d) + step(j - 1) * p BY <1>4
  <2> DEFINE u == step(i - 1) * p
             v == step(j - 1) * p
  <2> HIDE DEF u, v
  <2> QED BY <1>2, <1>3, <2>2, <2>3, <2>4 DEF u, v
<1>10. ASSUME NEW l \in Nat
       PROVE  LaneCoord(d, l) \in Nat /\ LaneCoord(d, l) >= LaneStart(d)
  <2>1. l * q \in Nat BY <1>2, StepsFurther
  <2>2. LaneCoord(d, l) = LaneStart(d) + l * q BY <1>5
  <2> QED BY <1>3, <2>1, <2>2
<1>11. ASSUME NEW l \in Nat, NEW m \in Nat, l < m
       PROVE  LaneCoord(d, l) + q <= LaneCoord(d, m)
  <2>1. l * q + q <= m * q /\ l * q \in Nat /\ m * q \in Nat BY <1>2, <1>11, StepsFurther
  <2>2. LaneCoord(d, l) = LaneStart(d) + l * q /\ LaneCoord(d, m) = LaneStart(d) + m * q
    BY <1>5
  <2> QED BY <1>2, <1>3, <2>1, <2>2
<1> QED BY <1>2, <1>3, <1>8, <1>9, <1>10, <1>11 DEF p, q, N

(* A commit and a head are boxes about their coordinates.                  *)
LEMMA GitBoxes ==
    ASSUME NEW d, GitDiagram(d), NEW lane \in Nat
    PROVE  /\ \A i \in 1..Len(d.commits) :
                LET b == CommitNode(d, i, lane)
                    w == PillW(d, d.commits[i])
                IN  /\ IsNode(b) /\ b.id = <<"commit", i>> /\ b.parent = Root
                    /\ b.w = w /\ b.h = 28
                    /\ Vertical(d) => /\ b.x = LaneCoord(d, lane) - w \div 2
                                      /\ b.y = MainCoord(d, i - 1) - 14
                    /\ ~Vertical(d) => /\ b.x = MainCoord(d, i - 1) - w \div 2
                                       /\ b.y = LaneCoord(d, lane) - 14
           /\ \A c \in Range(d.branches) :
                LET b == HeadNode(d, c, lane)
                IN  /\ IsNode(b) /\ b.id = <<"branch", c.name>> /\ b.parent = Root
                    /\ b.w = HeadW(d) /\ b.h = 50
                    /\ Vertical(d) => b.x = LaneCoord(d, lane) - HeadW(d) \div 2 /\ b.y = 16
                    /\ ~Vertical(d) => b.x = 16 /\ b.y = LaneCoord(d, lane) - 25
<1>1. LaneCoord(d, lane) \in Nat /\ HeadW(d) \in Nat BY GitCoordinates, GitWidths
<1>2. ASSUME NEW i \in 1..Len(d.commits)
      PROVE  LET b == CommitNode(d, i, lane)
                 w == PillW(d, d.commits[i])
             IN  /\ IsNode(b) /\ b.id = <<"commit", i>> /\ b.parent = Root
                 /\ b.w = w /\ b.h = 28
                 /\ Vertical(d) => /\ b.x = LaneCoord(d, lane) - w \div 2
                                   /\ b.y = MainCoord(d, i - 1) - 14
                 /\ ~Vertical(d) => /\ b.x = MainCoord(d, i - 1) - w \div 2
                                    /\ b.y = LaneCoord(d, lane) - 14
  <2> DEFINE b == CommitNode(d, i, lane)
             w == PillW(d, d.commits[i])
             m == MainCoord(d, i - 1)
             c == LaneCoord(d, lane)
  <2>1. m \in Nat /\ w \in Nat /\ c \in Nat BY <1>1, GitCoordinates, GitWidths
  <2>2. b = IF Vertical(d) THEN Node(<<"commit", i>>, c - w \div 2, m - CommitH \div 2, w, CommitH, Root)
            ELSE Node(<<"commit", i>>, m - w \div 2, c - CommitH \div 2, w, CommitH, Root)
    BY DEF CommitNode
  <2>3. CommitH = 28 /\ CommitH \div 2 = 14 BY DEF CommitH
  <2> HIDE DEF b, w, m, c
  <2>4. w \div 2 \in Int BY <2>1
  <2>5. CASE Vertical(d)
    <3>1. b = Node(<<"commit", i>>, c - w \div 2, m - 14, w, 28, Root) BY <2>2, <2>3, <2>5
    <3>2. /\ b.id = <<"commit", i>> /\ b.parent = Root /\ b.w = w /\ b.h = 28
          /\ b.x = c - w \div 2 /\ b.y = m - 14 BY <3>1 DEF Node
    <3>i. /\ 28 \in Int /\ c - w \div 2 \in Int /\ m - 14 \in Int BY <2>1, <2>4
    <3>3. IsNode(b) BY <2>1, <2>4, <3>1, <3>i, NodeIs
    <3> QED BY <2>5, <3>2, <3>3 DEF b, w, m, c
  <2>6. CASE ~Vertical(d)
    <3>1. b = Node(<<"commit", i>>, m - w \div 2, c - 14, w, 28, Root) BY <2>2, <2>3, <2>6
    <3>2. /\ b.id = <<"commit", i>> /\ b.parent = Root /\ b.w = w /\ b.h = 28
          /\ b.x = m - w \div 2 /\ b.y = c - 14 BY <3>1 DEF Node
    <3>i. /\ 28 \in Int /\ m - w \div 2 \in Int /\ c - 14 \in Int BY <2>1, <2>4
    <3>3. IsNode(b) BY <2>1, <2>4, <3>1, <3>i, NodeIs
    <3> QED BY <2>6, <3>2, <3>3 DEF b, w, m, c
  <2> QED BY <2>5, <2>6
<1>3. ASSUME NEW v \in Range(d.branches)
      PROVE  LET b == HeadNode(d, v, lane)
             IN  /\ IsNode(b) /\ b.id = <<"branch", v.name>> /\ b.parent = Root
                 /\ b.w = HeadW(d) /\ b.h = 50
                 /\ Vertical(d) => b.x = LaneCoord(d, lane) - HeadW(d) \div 2 /\ b.y = 16
                 /\ ~Vertical(d) => b.x = 16 /\ b.y = LaneCoord(d, lane) - 25
  <2> DEFINE b == HeadNode(d, v, lane)
             w == HeadW(d)
             c == LaneCoord(d, lane)
  <2>1. w \in Nat /\ c \in Nat BY <1>1
  <2>2. b = IF Vertical(d) THEN Node(<<"branch", v.name>>, c - w \div 2, Margin, w, HeadH, Root)
            ELSE Node(<<"branch", v.name>>, Margin, c - HeadH \div 2, w, HeadH, Root)
    BY DEF HeadNode
  <2>3. HeadH = 50 /\ HeadH \div 2 = 25 /\ Margin = 16 BY DEF HeadH, Margin
  <2> HIDE DEF b, w, c
  <2>4. w \div 2 \in Int BY <2>1
  <2>5. CASE Vertical(d)
    <3>1. b = Node(<<"branch", v.name>>, c - w \div 2, 16, w, 50, Root) BY <2>2, <2>3, <2>5
    <3>2. /\ b.id = <<"branch", v.name>> /\ b.parent = Root /\ b.w = w /\ b.h = 50
          /\ b.x = c - w \div 2 /\ b.y = 16 BY <3>1 DEF Node
    <3>i. /\ 50 \in Int /\ 16 \in Int /\ c - w \div 2 \in Int BY <2>1, <2>4
    <3>3. IsNode(b) BY <2>1, <2>4, <3>1, <3>i, NodeIs
    <3> QED BY <2>5, <3>2, <3>3 DEF b, w, c
  <2>6. CASE ~Vertical(d)
    <3>1. b = Node(<<"branch", v.name>>, 16, c - 25, w, 50, Root) BY <2>2, <2>3, <2>6
    <3>2. /\ b.id = <<"branch", v.name>> /\ b.parent = Root /\ b.w = w /\ b.h = 50
          /\ b.x = 16 /\ b.y = c - 25 BY <3>1 DEF Node
    <3>i. /\ 50 \in Int /\ 16 \in Int /\ c - 25 \in Int BY <2>1, <2>4
    <3>3. IsNode(b) BY <2>1, <2>4, <3>1, <3>i, NodeIs
    <3> QED BY <2>6, <3>2, <3>3 DEF b, w, c
  <2> QED BY <2>5, <2>6
<1> QED BY <1>2, <1>3

Names(d) == {b.name : b \in Range(d.branches)}

HeadBoxes(d, s) == IF Vertical(d) THEN {b \in s.nodes : b.id[1] = "branch"} ELSE {}
GitOk(d, s) ==
    SceneBut(s, HeadBoxes(d, s), HeadW(d) <= LanePitch(d), HeadW(d) <= MaxPillW(d) + 2 * Margin)

(* The scene of a git graph with the branches on lanes of their own.       *)
LEMMA GitScene ==
    ASSUME NEW d, GitDiagram(d),
           NEW laneOf \in [Names(d) -> Nat],
           \A n, m \in Names(d) : laneOf[n] = laneOf[m] => n = m,
           \A c \in Range(d.commits) : c.branch \in Names(d)
    PROVE  LET s == Built(d, laneOf)
           IN  /\ s.ok = TRUE /\ GitOk(d, s)
               /\ \A i \in DOMAIN d.commits : \A p \in d.commits[i].parents :
                    LET a == BoxIn(s.nodes, <<"commit", p>>)
                        b == BoxIn(s.nodes, <<"commit", i>>)
                    IN  /\ d.direction = "LR" => Right(a) < b.x
                        /\ d.direction = "TB" => Bottom(a) < b.y
                        /\ d.direction = "BT" => Bottom(b) < a.y
<1> DEFINE N == Len(d.commits)
           M == MaxPillW(d)
           H == HeadW(d)
           lane(i) == laneOf[d.commits[i].branch]
           commit(i) == CommitNode(d, i, lane(i))
           head(b) == HeadNode(d, b, laneOf[b.name])
           wd(i) == PillW(d, d.commits[i])
           main(i) == MainCoord(d, i - 1)
           commits == {commit(i) : i \in DOMAIN d.commits}
           heads == {head(b) : b \in Range(d.branches)}
           nodes == heads \cup commits
           edges == UNION {{Edge(<<"commit", p>>, <<"commit", i>>) : p \in d.commits[i].parents} : i \in DOMAIN d.commits}
           w == MaxOf({Right(b) : b \in nodes}) + Margin
           h == MaxOf({Bottom(b) : b \in nodes}) + Margin
           s == Built(d, laneOf)
<1>1. /\ N \in Nat /\ DOMAIN d.commits = 1..N /\ IsFiniteSet(Range(d.branches))
      /\ \A i \in 1..N : d.commits[i] \in Range(d.commits)
  <2>1. IsSequence(d.commits) /\ IsSequence(d.branches) BY DEF GitDiagram
  <2> QED BY <2>1, RangeFinite
<1>2. s = Scene(nodes, edges, w, h)
  <2>1. DOMAIN laneOf = Names(d) OBVIOUS
  <2>2. ~(\E c \in Range(d.commits) : c.branch \notin DOMAIN laneOf) BY <2>1
  <2> QED BY <2>2 DEF Built, Fitted
<1>3. \A i \in 1..N : lane(i) \in Nat /\ d.commits[i].branch \in Names(d) BY <1>1
<1>4. \A b \in Range(d.branches) : laneOf[b.name] \in Nat /\ b.name \in Names(d) BY DEF Names
<1>5. \A b, c \in Range(d.branches) : b.name = c.name => b = c
  <2>1. IsSequence(d.branches) BY DEF GitDiagram
  <2>2. \A b \in Range(d.branches) : \E i \in DOMAIN d.branches : b = d.branches[i]
    BY DEF Range
  <2> QED BY <2>2 DEF GitDiagram
<1>6. M \in Nat /\ M >= 30 /\ H \in Nat /\ \A i \in 1..N : wd(i) \in Nat /\ wd(i) <= M
  BY GitWidths
<1>7. \A i \in 1..N : main(i) \in Nat /\ main(i) >= MainStart(d) BY GitCoordinates
<1>8. /\ MainPitch(d) = IF Vertical(d) THEN 62 ELSE M + 28
      /\ LanePitch(d) = IF Vertical(d) THEN M + 28 ELSE 62
      /\ MainStart(d) = IF Vertical(d) THEN 108 ELSE 44 + (H + M \div 2)
      /\ LaneStart(d) = IF Vertical(d) THEN 16 + M \div 2 ELSE 30
  BY <1>6 DEF MainPitch, LanePitch, MainStart, LaneStart, CommitH, HeadGap, Margin, HeadH
<1>9. ASSUME NEW i \in 1..N
      PROVE  LET b == commit(i)
             IN  /\ IsNode(b) /\ b.id = <<"commit", i>> /\ b.parent = Root
                 /\ b.w = wd(i) /\ b.h = 28
                 /\ Vertical(d) => /\ b.x = LaneCoord(d, lane(i)) - wd(i) \div 2
                                   /\ b.y = main(i) - 14
                 /\ ~Vertical(d) => /\ b.x = main(i) - wd(i) \div 2
                                    /\ b.y = LaneCoord(d, lane(i)) - 14
  <2>1. lane(i) \in Nat BY <1>3
  <2> HIDE DEF lane
  <2> QED BY <2>1, GitBoxes
<1>10. ASSUME NEW v \in Range(d.branches)
       PROVE  LET b == head(v)
              IN  /\ IsNode(b) /\ b.id = <<"branch", v.name>> /\ b.parent = Root
                  /\ b.w = H /\ b.h = 50
                  /\ Vertical(d) => b.x = LaneCoord(d, laneOf[v.name]) - H \div 2 /\ b.y = 16
                  /\ ~Vertical(d) => b.x = 16 /\ b.y = LaneCoord(d, laneOf[v.name]) - 25
  BY <1>4, GitBoxes
<1>11. \A b \in nodes : (\E i \in 1..N : b = commit(i)) \/ (\E v \in Range(d.branches) : b = head(v))
  BY <1>1
<1>12. (\A i \in 1..N : commit(i) \in nodes) /\ (\A v \in Range(d.branches) : head(v) \in nodes)
  BY <1>1
<1>13. IsFiniteSet(nodes)
  <2> DEFINE f == [i \in 1..N |-> commit(i)]
             g == [v \in Range(d.branches) |-> head(v)]
  <2>1. IsFiniteSet(DOMAIN f) /\ f = [i \in DOMAIN f |-> f[i]] BY <1>1, FS_Interval
  <2>2. IsFiniteSet(DOMAIN g) /\ g = [v \in DOMAIN g |-> g[v]] BY <1>1
  <2>3. commits = {f[i] : i \in DOMAIN f} /\ heads = {g[v] : v \in DOMAIN g} BY <1>1
  <2> HIDE DEF f, g, commits, heads
  <2>4. IsFiniteSet(commits) BY <2>1, <2>3, ImageFinite
  <2>5. IsFiniteSet(heads) BY <2>2, <2>3, ImageFinite
  <2> QED BY <2>4, <2>5, FS_Union
<1> HIDE DEF nodes, commit, head, N, M, H, lane, wd, main
<1>14. ASSUME NEW i \in 1..N
       PROVE  commit(i).x >= 0 /\ commit(i).y >= 0 /\ commit(i).id # Root
  <2>1. /\ wd(i) \in Nat /\ wd(i) <= M /\ main(i) \in Nat /\ main(i) >= MainStart(d)
        /\ M \in Nat /\ H \in Nat BY <1>6, <1>7
  <2>2. LaneCoord(d, lane(i)) \in Nat /\ LaneCoord(d, lane(i)) >= LaneStart(d)
    BY <1>3, GitCoordinates
  <2>3. wd(i) \div 2 <= M \div 2 /\ wd(i) \div 2 \in Nat /\ M \div 2 \in Nat BY <2>1
  <2>4. commit(i).id # Root BY <1>9 DEF Root
  <2>5. CASE Vertical(d)
    <3>1. commit(i).x = LaneCoord(d, lane(i)) - wd(i) \div 2 /\ commit(i).y = main(i) - 14
      BY <1>9, <2>5
    <3>2. MainStart(d) = 108 /\ LaneStart(d) = 16 + M \div 2 BY <1>8, <2>5
    <3> QED BY <2>1, <2>2, <2>3, <2>4, <3>1, <3>2
  <2>6. CASE ~Vertical(d)
    <3>1. commit(i).x = main(i) - wd(i) \div 2 /\ commit(i).y = LaneCoord(d, lane(i)) - 14
      BY <1>9, <2>6
    <3>2. MainStart(d) = 44 + (H + M \div 2) /\ LaneStart(d) = 30 BY <1>8, <2>6
    <3> QED BY <2>1, <2>2, <2>3, <2>4, <3>1, <3>2
  <2> QED BY <2>5, <2>6
<1>15. ASSUME NEW v \in Range(d.branches)
       PROVE  /\ head(v).x >= 0 \/ (Vertical(d) /\ ~(H <= M + 32))
              /\ head(v).y >= 0 /\ head(v).id # Root
  <2> DEFINE c == LaneCoord(d, laneOf[v.name])
  <2>1. c \in Nat /\ c >= LaneStart(d) BY <1>4, GitCoordinates
  <2>2. head(v).id # Root BY <1>10 DEF Root
  <2> HIDE DEF c
  <2>3. CASE Vertical(d)
    <3>1. head(v).x = c - H \div 2 /\ head(v).y = 16 BY <1>10, <2>3 DEF c
    <3>2. LaneStart(d) = 16 + M \div 2 BY <1>8, <2>3
    <3>3. /\ H <= M + 32 => H \div 2 <= 16 + M \div 2
          /\ H \div 2 \in Nat /\ M \div 2 \in Nat BY <1>6
    <3> QED BY <2>1, <2>2, <2>3, <3>1, <3>2, <3>3
  <2>4. CASE ~Vertical(d)
    <3>1. head(v).x = 16 /\ head(v).y = c - 25 BY <1>10, <2>4 DEF c
    <3>2. LaneStart(d) = 30 BY <1>8, <2>4
    <3> QED BY <2>1, <2>2, <3>1, <3>2
  <2> QED BY <2>3, <2>4
<1>16. ASSUME NEW i \in 1..N, NEW j \in 1..N, i < j
       PROVE  /\ d.direction = "LR" => Right(commit(i)) < commit(j).x
              /\ d.direction = "TB" => Bottom(commit(i)) < commit(j).y
              /\ d.direction = "BT" => Bottom(commit(j)) < commit(i).y
  <2>1. /\ wd(i) \in Nat /\ wd(i) <= M /\ wd(j) \in Nat /\ wd(j) <= M /\ M \in Nat
        /\ main(i) \in Nat /\ main(j) \in Nat BY <1>6, <1>7
  <2>2. IF d.direction = "BT" THEN main(j) + MainPitch(d) <= main(i)
                              ELSE main(i) + MainPitch(d) <= main(j)
    BY <1>16, GitCoordinates DEF main, N
  <2>3. ASSUME d.direction = "LR" PROVE Right(commit(i)) < commit(j).x
    <3>1. ~Vertical(d) /\ d.direction # "BT" BY <2>3 DEF Vertical
    <3>2. commit(i).x = main(i) - wd(i) \div 2 /\ commit(i).w = wd(i)
          /\ commit(j).x = main(j) - wd(j) \div 2 BY <1>9, <3>1
    <3>3. main(i) + (M + 28) <= main(j) BY <1>8, <2>2, <3>1
    <3>4. /\ wd(i) - wd(i) \div 2 <= M - M \div 2 /\ wd(j) \div 2 <= M \div 2
          /\ wd(i) \div 2 \in Int /\ wd(j) \div 2 \in Int /\ M \div 2 \in Int BY <2>1
    <3> QED BY <2>1, <3>2, <3>3, <3>4 DEF Right
  <2>4. ASSUME d.direction = "TB" PROVE Bottom(commit(i)) < commit(j).y
    <3>1. Vertical(d) /\ d.direction # "BT" BY <2>4 DEF Vertical
    <3>2. commit(i).y = main(i) - 14 /\ commit(i).h = 28 /\ commit(j).y = main(j) - 14
      BY <1>9, <3>1
    <3>3. main(i) + 62 <= main(j) BY <1>8, <2>2, <3>1
    <3> QED BY <2>1, <3>2, <3>3 DEF Bottom
  <2>5. ASSUME d.direction = "BT" PROVE Bottom(commit(j)) < commit(i).y
    <3>1. Vertical(d) BY <2>5 DEF Vertical
    <3>2. commit(j).y = main(j) - 14 /\ commit(j).h = 28 /\ commit(i).y = main(i) - 14
      BY <1>9, <3>1
    <3>3. main(j) + 62 <= main(i) BY <1>8, <2>2, <2>5, <3>1
    <3> QED BY <2>1, <3>2, <3>3 DEF Bottom
  <2> QED BY <2>3, <2>4, <2>5
<1>17. ASSUME NEW i \in 1..N, NEW j \in 1..N, i # j
       PROVE  Clear(commit(i), commit(j))
  <2>1. \A k \in 1..N : /\ commit(k).x \in Int /\ commit(k).y \in Int
                        /\ Right(commit(k)) \in Int /\ Bottom(commit(k)) \in Int
    BY <1>9 DEF IsNode, Right, Bottom
  <2>2. i < j \/ j < i BY <1>1, <1>17
  <2>3. d.direction \in {"LR", "TB", "BT"} BY DEF GitDiagram
  <2> QED BY <1>16, <2>1, <2>2, <2>3 DEF Clear
<1>18. ASSUME NEW u \in Range(d.branches), NEW v \in Range(d.branches), u # v
       PROVE  Clear(head(u), head(v)) \/ (Vertical(d) /\ ~(H <= LanePitch(d)))
  <2> DEFINE a == LaneCoord(d, laneOf[u.name])
             b == LaneCoord(d, laneOf[v.name])
  <2>1. laneOf[u.name] # laneOf[v.name] BY <1>4, <1>5, <1>18
  <2>2. laneOf[u.name] < laneOf[v.name] \/ laneOf[v.name] < laneOf[u.name] BY <1>4, <2>1
  <2>3. a + LanePitch(d) <= b \/ b + LanePitch(d) <= a BY <1>4, <2>2, GitCoordinates
  <2>4. a \in Nat /\ b \in Nat BY <1>4, GitCoordinates
  <2> HIDE DEF a, b
  <2>5. CASE Vertical(d)
    <3>1. head(u).x = a - H \div 2 /\ head(v).x = b - H \div 2 /\ head(u).w = H /\ head(v).w = H
      BY <1>10, <2>5 DEF a, b
    <3>2. LanePitch(d) = M + 28 BY <1>8, <2>5
    <3>3. H \in Nat /\ M \in Nat /\ H \div 2 \in Int BY <1>6
    <3>4. H <= LanePitch(d) => Right(head(u)) <= head(v).x \/ Right(head(v)) <= head(u).x
      BY <2>3, <2>4, <3>1, <3>2, <3>3 DEF Right
    <3> QED BY <2>5, <3>4 DEF Clear
  <2>6. CASE ~Vertical(d)
    <3>1. head(u).y = a - 25 /\ head(v).y = b - 25 /\ head(u).h = 50 /\ head(v).h = 50
      BY <1>10, <2>6 DEF a, b
    <3>2. LanePitch(d) = 62 BY <1>8, <2>6
    <3>3. Bottom(head(u)) <= head(v).y \/ Bottom(head(v)) <= head(u).y
      BY <2>3, <2>4, <3>1, <3>2 DEF Bottom
    <3> QED BY <3>3 DEF Clear
  <2> QED BY <2>5, <2>6
<1>19. ASSUME NEW u \in Range(d.branches), NEW i \in 1..N
       PROVE  Clear(head(u), commit(i)) /\ Clear(commit(i), head(u))
  <2>1. /\ wd(i) \in Nat /\ wd(i) <= M /\ main(i) \in Nat /\ main(i) >= MainStart(d)
        /\ M \in Nat /\ H \in Nat BY <1>6, <1>7
  <2>2. CASE Vertical(d)
    <3>1. head(u).y = 16 /\ head(u).h = 50 BY <1>10, <2>2
    <3>2. commit(i).y = main(i) - 14 /\ main(i) >= 108 BY <1>8, <1>9, <2>1, <2>2
    <3>3. Bottom(head(u)) <= commit(i).y BY <2>1, <3>1, <3>2 DEF Bottom
    <3> QED BY <3>3 DEF Clear
  <2>3. CASE ~Vertical(d)
    <3>1. head(u).x = 16 /\ head(u).w = H BY <1>10, <2>3
    <3>2. commit(i).x = main(i) - wd(i) \div 2 /\ main(i) >= 44 + (H + M \div 2)
      BY <1>8, <1>9, <2>1, <2>3
    <3>3. wd(i) \div 2 <= M \div 2 /\ wd(i) \div 2 \in Nat /\ M \div 2 \in Nat BY <2>1
    <3>4. Right(head(u)) <= commit(i).x BY <2>1, <3>1, <3>2, <3>3 DEF Right
    <3> QED BY <3>4 DEF Clear
  <2> QED BY <2>2, <2>3
<1>h. \A v \in Range(d.branches) : Vertical(d) => head(v) \in HeadBoxes(d, [nodes |-> nodes])
  <2>1. TAKE v \in Range(d.branches)
  <2>2. head(v).id[1] = "branch"
    <3>1. head(v).id = <<"branch", v.name>> BY <1>10
    <3> QED BY <3>1
  <2> QED BY <1>12, <2>2 DEF HeadBoxes
<1> DEFINE Hs == HeadBoxes(d, [nodes |-> nodes])
<1> HIDE DEF Hs
<1>20. ASSUME NEW a \in nodes, NEW b \in nodes, a # b
       PROVE  /\ Clear(a, b) \/ ({a, b} \subseteq Hs /\ ~(H <= LanePitch(d)))
              /\ a.id # b.id
  <2>1. ASSUME NEW i \in 1..N, NEW j \in 1..N, a = commit(i), b = commit(j)
        PROVE  Clear(a, b) /\ a.id # b.id
    <3>1. i # j BY <1>20, <2>1
    <3>2. a.id = <<"commit", i>> /\ b.id = <<"commit", j>> BY <1>9, <2>1
    <3> QED BY <1>17, <2>1, <3>1, <3>2
  <2>2. ASSUME NEW u \in Range(d.branches), NEW v \in Range(d.branches), a = head(u), b = head(v)
        PROVE  /\ Clear(a, b) \/ ({a, b} \subseteq Hs /\ ~(H <= LanePitch(d)))
               /\ a.id # b.id
    <3>1. u # v /\ u.name # v.name BY <1>5, <1>20, <2>2
    <3>2. a.id = <<"branch", u.name>> /\ b.id = <<"branch", v.name>> BY <1>10, <2>2
    <3>3. Clear(head(u), head(v)) \/ (Vertical(d) /\ ~(H <= LanePitch(d))) BY <1>18, <3>1
    <3>4. Vertical(d) => a \in Hs /\ b \in Hs BY <1>h, <2>2 DEF Hs
    <3>5. a.id # b.id BY <3>1, <3>2
    <3> QED BY <2>2, <3>3, <3>4, <3>5
  <2>3. ASSUME NEW u \in Range(d.branches), NEW i \in 1..N
        PROVE  head(u).id # commit(i).id
    <3>1. head(u).id = <<"branch", u.name>> /\ commit(i).id = <<"commit", i>> BY <1>9, <1>10
    <3> QED BY <3>1
  <2> QED BY <1>11, <1>19, <2>1, <2>2, <2>3
<1>21. \A b \in nodes : /\ IsNode(b) /\ b.parent = Root /\ b.id # Root
                        /\ b.x >= 0 \/ (b \in Hs /\ ~(H <= M + 32))
                        /\ b.y >= 0
  <2>1. \A i \in 1..N : /\ IsNode(commit(i)) /\ commit(i).parent = Root /\ commit(i).id # Root
                        /\ commit(i).x >= 0 /\ commit(i).y >= 0 BY <1>9, <1>14
  <2>2. \A v \in Range(d.branches) :
          /\ IsNode(head(v)) /\ head(v).parent = Root /\ head(v).id # Root
          /\ head(v).x >= 0 \/ (head(v) \in Hs /\ ~(H <= M + 32))
          /\ head(v).y >= 0 BY <1>10, <1>15, <1>h DEF Hs
  <2> QED BY <1>11, <2>1, <2>2
<1>22. w \in Int /\ h \in Int /\ \A b \in nodes : Right(b) <= w /\ Bottom(b) <= h
  <2>1. Margin \in Nat BY DEF Margin
  <2> QED BY <1>13, <1>21, <2>1, FittedEnds
<1>23. ASSUME NEW i \in 1..N, NEW p \in d.commits[i].parents
       PROVE  p \in 1..N /\ p < i
  <2>1. p \in 1..(i - 1) BY <1>1 DEF GitDiagram
  <2> QED BY <1>1, <2>1
<1>24. \A e \in edges : {e.from, e.to} \subseteq {b.id : b \in nodes}
  <2>1. ASSUME NEW i \in 1..N, NEW p \in d.commits[i].parents
        PROVE  LET e == Edge(<<"commit", p>>, <<"commit", i>>)
               IN  {e.from, e.to} \subseteq {b.id : b \in nodes}
    <3>1. commit(i) \in nodes /\ commit(i).id = <<"commit", i>> BY <1>9, <1>12
    <3>2. commit(p) \in nodes /\ commit(p).id = <<"commit", p>> BY <1>9, <1>12, <1>23
    <3>3. /\ Edge(<<"commit", p>>, <<"commit", i>>).from = <<"commit", p>>
          /\ Edge(<<"commit", p>>, <<"commit", i>>).to = <<"commit", i>> BY DEF Edge
    <3> QED BY <3>1, <3>2, <3>3
  <2>2. ASSUME NEW e \in edges
        PROVE  \E i \in 1..N : \E p \in d.commits[i].parents : e = Edge(<<"commit", p>>, <<"commit", i>>)
    <3>1. PICK i \in 1..N : e \in {Edge(<<"commit", p>>, <<"commit", i>>) : p \in d.commits[i].parents}
      BY <1>1
    <3> QED BY <3>1
  <2> HIDE DEF edges
  <2>3. ASSUME NEW e \in edges PROVE {e.from, e.to} \subseteq {b.id : b \in nodes}
    <3>1. PICK i \in 1..N : \E p \in d.commits[i].parents :
                              e = Edge(<<"commit", p>>, <<"commit", i>>)
      BY <2>2
    <3>2. PICK p \in d.commits[i].parents : e = Edge(<<"commit", p>>, <<"commit", i>>) BY <3>1
    <3> QED BY <2>1, <3>2
  <2> QED BY <2>3
<1> HIDE DEF w, h, edges, s
<1>26. /\ s.ok = TRUE /\ s.nodes = nodes /\ s.edges = edges /\ s.w = w /\ s.h = h
  BY <1>2 DEF Scene
<1>25. GitOk(d, s)
  <2>1. HeadBoxes(d, s) = Hs BY <1>26 DEF HeadBoxes, Hs
  <2>2. M + 2 * Margin = M + 32 BY <1>6 DEF Margin
  <2>3. ContainersEncloseMembers(nodes)
    <3>1. \A n, p \in nodes : n.parent # p.id BY <1>21
    <3> QED BY <3>1 DEF ContainersEncloseMembers
  <2>4. ASSUME NEW a \in nodes, NEW b \in nodes, a.id # b.id
        PROVE  OverlapArea(a, b) <= Slack \/ ({a, b} \subseteq Hs /\ ~(H <= LanePitch(d)))
    <3>1. Clear(a, b) \/ ({a, b} \subseteq Hs /\ ~(H <= LanePitch(d))) BY <1>20, <2>4
    <3>2. IsNode(a) /\ IsNode(b) BY <1>21
    <3> QED BY <3>1, <3>2, ClearApart
  <2>5. \A a, b \in nodes : a.id = b.id => a = b BY <1>20
  <2>6. SceneBut(s, Hs, H <= LanePitch(d), H <= M + 2 * Margin)
    BY <1>21, <1>22, <1>24, <1>26, <2>2, <2>3, <2>4, <2>5 DEF SceneBut
  <2> QED BY <2>1, <2>6 DEF GitOk, H, M
<1>27. ASSUME NEW i \in 1..N PROVE BoxIn(s.nodes, <<"commit", i>>) = commit(i)
  <2>1. \A a, b \in nodes : a.id = b.id => a = b BY <1>20
  <2>2. BoxIn(nodes, commit(i).id) = commit(i) BY <1>12, <2>1, BoxFound
  <2>3. commit(i).id = <<"commit", i>> BY <1>9
  <2> QED BY <1>26, <2>2, <2>3
<1>28. ASSUME NEW i \in 1..N, NEW p \in d.commits[i].parents
       PROVE  LET a == BoxIn(s.nodes, <<"commit", p>>)
                  b == BoxIn(s.nodes, <<"commit", i>>)
              IN  /\ d.direction = "LR" => Right(a) < b.x
                  /\ d.direction = "TB" => Bottom(a) < b.y
                  /\ d.direction = "BT" => Bottom(b) < a.y
  <2>1. p \in 1..N /\ p < i BY <1>23
  <2>2. BoxIn(s.nodes, <<"commit", p>>) = commit(p) BY <1>27, <2>1
  <2>3. BoxIn(s.nodes, <<"commit", i>>) = commit(i) BY <1>27
  <2> QED BY <1>16, <2>1, <2>2, <2>3
<1> QED BY <1>1, <1>25, <1>26, <1>28 DEF s

(* No box is drawn when a name means nothing.                              *)
LEMMA ErrOk == Err.ok = FALSE /\ SceneOk(Err)
<1>1. Err.ok = FALSE /\ Err.nodes = {} /\ Err.edges = {} BY DEF Err
<1>2. NoSiblingOverlaps({}) /\ ContainersEncloseMembers({})
  BY DEF NoSiblingOverlaps, ContainersEncloseMembers
<1> QED BY <1>1, <1>2 DEF SceneOk, StyleOk

(* Whichever lanes the tidying takes, a git graph whose commits are on     *)
(* declared branches is drawn soundly, but for its heads.                  *)
LEMMA GitShown ==
    ASSUME NEW d, GitDiagram(d), NEW s \in GitScenes(d)
    PROVE  /\ s.ok <=> \A c \in Range(d.commits) : c.branch \in DOMAIN Declared(d)
           /\ GitOk(d, s)
           /\ s.ok => \A i \in DOMAIN d.commits : \A p \in d.commits[i].parents :
                LET a == BoxIn(s.nodes, <<"commit", p>>)
                    b == BoxIn(s.nodes, <<"commit", i>>)
                IN  /\ d.direction = "LR" => Right(a) < b.x
                    /\ d.direction = "TB" => Bottom(a) < b.y
                    /\ d.direction = "BT" => Bottom(b) < a.y
<1> DEFINE at(n) == CHOOSE i \in DOMAIN d.branches : d.branches[i].name = n
           f == [b \in Range(d.branches) |-> b.name]
<1>1. /\ IsFiniteSet(Range(d.branches)) /\ Len(d.branches) \in Nat
      /\ DOMAIN d.branches = 1..Len(d.branches)
      /\ \A b \in Range(d.branches) : \E i \in 1..Len(d.branches) : b = d.branches[i]
      /\ \A i \in 1..Len(d.branches) : d.branches[i] \in Range(d.branches)
  <2>1. IsSequence(d.branches) BY DEF GitDiagram
  <2> QED BY <2>1, RangeFinite
<1>2. DOMAIN Declared(d) = Names(d) BY DEF Declared, Names
<1>3. ASSUME NEW n \in Names(d)
      PROVE  at(n) \in 1..Len(d.branches) /\ d.branches[at(n)].name = n
  <2>1. \E i \in DOMAIN d.branches : d.branches[i].name = n BY <1>1 DEF Names
  <2> QED BY <1>1, <2>1
<1>4. ASSUME NEW n \in Names(d)
      PROVE  Declared(d)[n] \in Nat /\ Declared(d)[n] = at(n) - 1
  <2>1. Declared(d)[n] = at(n) - 1 BY DEF Declared, Names
  <2> HIDE DEF at
  <2> QED BY <1>1, <1>3, <2>1
<1>5. Declared(d) \in [Names(d) -> Nat]
  <2>1. Declared(d) = [n \in Names(d) |-> Declared(d)[n]] BY DEF Declared, Names
  <2> QED BY <1>4, <2>1
<1> HIDE DEF at
<1>6. \A n, m \in Names(d) : Declared(d)[n] = Declared(d)[m] => n = m
  <2>1. ASSUME NEW n \in Names(d), NEW m \in Names(d), Declared(d)[n] = Declared(d)[m]
        PROVE  n = m
    <3>1. at(n) - 1 = at(m) - 1 /\ at(n) \in Nat /\ at(m) \in Nat BY <1>1, <1>3, <1>4, <2>1
    <3>2. at(n) = at(m) BY <3>1
    <3> QED BY <1>3, <3>2
  <2> QED BY <2>1
<1>7. IsFiniteSet(Names(d))
  <2>1. DOMAIN f = Range(d.branches) /\ f = [b \in DOMAIN f |-> f[b]] OBVIOUS
  <2>2. Names(d) = {f[b] : b \in DOMAIN f} BY DEF Names
  <2> HIDE DEF f
  <2> QED BY <1>1, <2>1, <2>2, ImageFinite
<1>8. PICK laneOf : s = Built(d, laneOf) /\ laneOf \in [Names(d) -> Nat]
                    /\ \A n, m \in Names(d) : laneOf[n] = laneOf[m] => n = m
  <2>1. CASE d.branches = << >>
    <3>1. Names(d) = {} BY <1>1, <2>1 DEF Names
    <3>2. << >> \in [Names(d) -> Nat] BY <3>1
    <3>3. s = Built(d, << >>) BY <2>1 DEF GitScenes
    <3> QED BY <3>1, <3>2, <3>3
  <2>2. CASE d.branches # << >>
    <3>1. PICK l \in TidyLanes(d) : s = Built(d, l) BY <2>2 DEF GitScenes
    <3>2. CASE l = Declared(d) BY <1>5, <1>6, <3>1, <3>2
    <3>3. CASE l # Declared(d)
      <4>1. /\ l \in [Names(d) -> 0..(Cardinality(Names(d)) - 1)]
            /\ \A n, m \in Names(d) : l[n] = l[m] => n = m
        BY <1>2, <3>1, <3>3 DEF TidyLanes
      <4>2. 0..(Cardinality(Names(d)) - 1) \subseteq Nat
        BY <1>7, FS_CardinalityType
      <4>3. l \in [Names(d) -> Nat] BY <4>1, <4>2
      <4> QED BY <3>1, <4>1, <4>3
    <3> QED BY <3>2, <3>3
  <2> QED BY <2>1, <2>2
<1>9. CASE \A c \in Range(d.commits) : c.branch \in Names(d)
  BY <1>2, <1>8, <1>9, GitScene
<1>10. CASE \E c \in Range(d.commits) : c.branch \notin Names(d)
  <2>1. DOMAIN laneOf = Names(d) BY <1>8
  <2>2. s = Err BY <1>8, <1>10, <2>1 DEF Built
  <2>3. GitOk(d, Err) BY ErrOk, SceneOkBut DEF GitOk
  <2> QED BY <1>2, <1>10, <2>2, <2>3, ErrOk
<1> QED BY <1>9, <1>10

-----------------------------------------------------------------------------
(* Every scene that is shown.                                              *)

(* SceneSound by its parts.                                                *)
LEMMA SoundBut ==
    ASSUME DeclaredOnce =>
             /\ scene.ok <=> EndsDeclared
             /\ SceneBut(scene, Heads, HeadsApart, HeadsInside)
             /\ scene.ok => OrderKept
    PROVE  SceneSound
BY DEF SceneSound, SceneBut, Drawn

LEMMA SoundWhen ==
    ASSUME DeclaredOnce =>
             (scene.ok <=> EndsDeclared) /\ SceneOk(scene) /\ (scene.ok => OrderKept)
    PROVE  SceneSound
<1>1. SceneOk(scene) => SceneBut(scene, Heads, HeadsApart, HeadsInside) BY SceneOkBut
<1> QED BY <1>1, SoundBut

LEMMA SequenceSound ==
    ASSUME WellFormed(ast), ast.family = "sequence", scene \in LayoutByFamily(ast, cloudCollapsed)
    PROVE  SceneSound
<1>1. SequenceDiagram(ast) BY DEF WellFormed
<1>2. scene = LayoutSequence(ast) BY DEF LayoutByFamily
<1>3. EndsDeclared <=> SequenceKnown(ast) BY DEF EndsDeclared
<1>4. DeclaredOnce <=> \A k \in DOMAIN ast.notes : <<"note", k>> \notin Actors(ast)
  BY DEF DeclaredOnce
<1>5. CASE ~SequenceKnown(ast)
  <2>1. scene = Err BY <1>2, <1>5 DEF LayoutSequence
  <2> QED BY <1>3, <1>5, <2>1, ErrOk, SoundWhen
<1>6. CASE SequenceKnown(ast) /\ DeclaredOnce
  <2>1. /\ scene.ok = TRUE /\ SceneOk(scene)
        /\ \A i, j \in DOMAIN ast.actors : i < j =>
             LET a == BoxIn(scene.nodes, ast.actors[i].id)
                 b == BoxIn(scene.nodes, ast.actors[j].id)
             IN  a.y = b.y /\ Right(a) < b.x
    BY <1>1, <1>2, <1>4, <1>6, SequenceScene
  <2>2. DOMAIN ast.notes = 1..Len(ast.notes) /\ DOMAIN ast.messages = 1..Len(ast.messages)
    BY <1>1, RangeFinite DEF SequenceDiagram
  <2>3. OrderKept
    <3>1. \A id : BoxOf(id) = BoxIn(scene.nodes, id) BY DEF BoxOf, BoxIn
    <3>2. /\ \A j, k \in DOMAIN ast.notes : j < k => NoteRow(ast, j) < NoteRow(ast, k)
          /\ \A k \in DOMAIN ast.notes : \A m \in DOMAIN ast.messages :
               IF m <= ast.notes[k].after THEN MessageRow(ast, m) < NoteRow(ast, k)
                                          ELSE NoteRow(ast, k) < MessageRow(ast, m)
      BY <1>1, <2>2, RowsOrdered
    <3> QED BY <2>1, <3>1, <3>2 DEF OrderKept
  <2> QED BY <1>3, <1>6, <2>1, <2>3, SoundWhen
<1> QED BY <1>5, <1>6, SoundWhen

LEMMA TimelineSound ==
    ASSUME WellFormed(ast), ast.family = "timeline", scene \in LayoutByFamily(ast, cloudCollapsed)
    PROVE  SceneSound
<1>1. TimelineDiagram(ast) BY DEF WellFormed
<1>2. scene = LayoutTimeline(ast) BY DEF LayoutByFamily
<1>3. EndsDeclared BY DEF EndsDeclared
<1>4. /\ scene.ok = TRUE /\ SceneOk(scene)
      /\ \A i, j \in DOMAIN ast.periods : i < j =>
           Right(BoxIn(scene.nodes, <<"period", i>>)) < BoxIn(scene.nodes, <<"period", j>>).x
  BY <1>1, <1>2, TimelineScene
<1>5. \A id : BoxOf(id) = BoxIn(scene.nodes, id) BY DEF BoxOf, BoxIn
<1>6. OrderKept BY <1>4, <1>5 DEF OrderKept
<1> QED BY <1>3, <1>4, <1>6, SoundWhen

LEMMA GitSound ==
    ASSUME WellFormed(ast), ast.family = "gitGraph", scene \in LayoutByFamily(ast, cloudCollapsed)
    PROVE  SceneSound
<1>1. GitDiagram(ast) BY DEF WellFormed
<1>2. scene \in GitScenes(ast) BY DEF LayoutByFamily
<1>3. EndsDeclared <=> \A c \in Range(ast.commits) : c.branch \in DOMAIN Declared(ast)
  BY DEF EndsDeclared
<1>4. /\ scene.ok <=> EndsDeclared
      /\ GitOk(ast, scene)
      /\ scene.ok => \A i \in DOMAIN ast.commits : \A p \in ast.commits[i].parents :
           LET a == BoxIn(scene.nodes, <<"commit", p>>)
               b == BoxIn(scene.nodes, <<"commit", i>>)
           IN  /\ ast.direction = "LR" => Right(a) < b.x
               /\ ast.direction = "TB" => Bottom(a) < b.y
               /\ ast.direction = "BT" => Bottom(b) < a.y
  BY <1>1, <1>2, <1>3, GitShown
<1>5. \A id : BoxOf(id) = BoxIn(scene.nodes, id) BY DEF BoxOf, BoxIn
<1>6. scene.ok => OrderKept BY <1>4, <1>5 DEF OrderKept
<1>7. Heads = HeadBoxes(ast, scene) BY DEF Heads, HeadBoxes
<1>8. SceneBut(scene, Heads, HeadsApart, HeadsInside)
  BY <1>4, <1>7 DEF GitOk, HeadsApart, HeadsInside
<1> QED BY <1>4, <1>6, <1>8, SoundBut

LEMMA GanttSound ==
    ASSUME WellFormed(ast), ast.family = "gantt", scene \in LayoutByFamily(ast, cloudCollapsed)
    PROVE  SceneSound
<1>1. GanttDiagram(ast) BY DEF WellFormed
<1>2. scene = LayoutGantt(ast) BY DEF LayoutByFamily
<1>3. EndsDeclared <=> GanttKnown(ast) BY DEF EndsDeclared
<1>4. DeclaredOnce <=> Apart(ast.tasks) BY DEF DeclaredOnce
<1>5. CASE ~GanttKnown(ast)
  <2>1. scene = Err BY <1>2, <1>5 DEF LayoutGantt
  <2> QED BY <1>3, <1>5, <2>1, ErrOk, SoundWhen
<1>6. CASE GanttKnown(ast) /\ DeclaredOnce
  <2>1. /\ scene.ok = TRUE /\ SceneOk(scene)
        /\ \A i, j \in DOMAIN ast.tasks : i < j =>
             Bottom(BoxIn(scene.nodes, ast.tasks[i].id)) < BoxIn(scene.nodes, ast.tasks[j].id).y
    BY <1>1, <1>2, <1>4, <1>6, GanttScene
  <2>2. \A id : BoxOf(id) = BoxIn(scene.nodes, id) BY DEF BoxOf, BoxIn
  <2>3. OrderKept BY <2>1, <2>2 DEF OrderKept
  <2> QED BY <1>3, <1>6, <2>1, <2>3, SoundWhen
<1> QED BY <1>5, <1>6, SoundWhen

-----------------------------------------------------------------------------
(* Elements in groups: what is pushed, and what recurses along the nesting. *)

(* Those pushes the items of a sequence that are in a set, each as often   *)
(* as it is there.                                                         *)
LEMMA ThoseHolds ==
    ASSUME NEW s, IsSequence(s), NEW S
    PROVE  /\ Those(s, S) \in Seq(Range(s))
           /\ Range(Those(s, S)) = Range(s) \cap S
           /\ (\A i, j \in 1..Len(s) : s[i] = s[j] => i = j) =>
                \A i, j \in DOMAIN Those(s, S) : Those(s, S)[i] = Those(s, S)[j] => i = j
<1> DEFINE N == Len(s)
           R == Range(s)
           V == Seq(R)
           F == [p \in (1..N) \X V |-> IF s[p[1]] \in S THEN Append(p[2], s[p[1]]) ELSE p[2]]
           Run(w) == w = [n \in 0..N |->
                            IF n = 0 THEN << >>
                            ELSE IF s[n] \in S THEN Append(w[n - 1], s[n]) ELSE w[n - 1]]
           run == CHOOSE w : Run(w)
           once == \A i, j \in 1..N : s[i] = s[j] => i = j
           Good(n, t) ==
             /\ t \in V /\ Range(t) = {s[i] : i \in 1..n} \cap S
             /\ once => \A i, j \in DOMAIN t : t[i] = t[j] => i = j
<1>1. /\ N \in Nat /\ DOMAIN s = 1..N /\ \A i \in 1..N : s[i] \in R
      /\ R = {s[i] : i \in 1..N}
  <2>1. R = {s[i] : i \in DOMAIN s} BY DEF Range
  <2> QED BY <2>1, RangeFinite
<1>2. ASSUME NEW n \in 1..N, NEW v \in V
      PROVE  (IF s[n] \in S THEN Append(v, s[n]) ELSE v) \in V
  BY <1>1, AppendProperties
<1>3. PICK g \in [0..N -> V] : IsLoop(g, N, << >>, F)
  <2>1. F \in [(1..N) \X V -> V]
    <3> HIDE DEF V, R
    <3> QED BY <1>2
  <2>2. << >> \in V BY EmptySeq
  <2> HIDE DEF F, V
  <2> QED BY <1>1, <2>1, <2>2, Loop
<1>4. ASSUME NEW n \in 1..N
      PROVE  g[n] = IF s[n] \in S THEN Append(g[n - 1], s[n]) ELSE g[n - 1]
  <2>1. n - 1 \in 0..N BY <1>1
  <2>2. g[n - 1] \in V BY <2>1
  <2> HIDE DEF F, V, N
  <2>3. g[n] = F[n, g[n - 1]] BY <1>3, Zenon DEF IsLoop
  <2> QED BY <2>2, <2>3, Zenon DEF F
<1>5. Run(run)
  <2>1. Run(g)
    <3>3. \A n \in 0..N : n # 0 => n \in 1..N BY <1>1
    <3> HIDE DEF V, F, N
    <3>1. g = [n \in 0..N |-> g[n]] OBVIOUS
    <3>2. g[0] = << >> BY <1>3, Zenon DEF IsLoop
    <3> QED BY <1>4, <3>1, <3>2, <3>3
  <2> HIDE DEF Run
  <2> QED BY <2>1
<1>6. Those(s, S) = run[N] BY DEF Those
<1> DEFINE r == run
<1>7. /\ r[0] = << >>
      /\ \A n \in 1..N : r[n] = IF s[n] \in S THEN Append(r[n - 1], s[n]) ELSE r[n - 1]
  <2> HIDE DEF run, Run
  <2>0. Run(r) BY <1>5
  <2>2. 0 \in 0..N /\ \A n \in 1..N : n \in 0..N /\ n # 0 BY <1>1
  <2> HIDE DEF r, N
  <2>1. r = [n \in 0..N |->
               IF n = 0 THEN << >>
               ELSE IF s[n] \in S THEN Append(r[n - 1], s[n]) ELSE r[n - 1]] BY <2>0 DEF Run, N
  <2> QED BY <2>1, <2>2
<1> HIDE DEF r, F
<1> DEFINE T == {n \in 0..N : Good(n, r[n])}
<1>8. 0 \in T
  <2>1. << >> \in V /\ Range(<< >>) = {} /\ DOMAIN << >> = {} BY EmptySeq DEF Range
  <2>2. {s[i] : i \in 1..0} = {} OBVIOUS
  <2>3. 0 \in 0..N BY <1>1
  <2> HIDE DEF V
  <2> QED BY <1>7, <2>1, <2>2, <2>3
<1>9. ASSUME NEW n \in 1..N, n - 1 \in T PROVE n \in T
  <2> DEFINE t == r[n - 1]
             u == Append(t, s[n])
  <2>1. t \in V /\ Range(t) = {s[i] : i \in 1..(n - 1)} \cap S BY <1>9
  <2>2. once => \A i, j \in DOMAIN t : t[i] = t[j] => i = j BY <1>9
  <2>3. r[n] = IF s[n] \in S THEN u ELSE t BY <1>7
  <2>4. {s[i] : i \in 1..n} = {s[i] : i \in 1..(n - 1)} \cup {s[n]}
    <3>1. 1..n = (1..(n - 1)) \cup {n} BY <1>1
    <3> QED BY <3>1
  <2>5. n \in 0..N BY <1>1
  <2> HIDE DEF t
  <2>6. CASE s[n] \notin S
    <3>1. {s[i] : i \in 1..n} \cap S = {s[i] : i \in 1..(n - 1)} \cap S BY <2>4, <2>6
    <3>2. r[n] = t BY <2>3, <2>6
    <3> HIDE DEF V
    <3> QED BY <2>1, <2>2, <2>5, <3>1, <3>2
  <2>7. CASE s[n] \in S
    <3> DEFINE L == Len(t)
    <3>1. s[n] \in R BY <1>1
    <3>2. L \in Nat /\ DOMAIN t = 1..L BY <2>1, LenProperties
    <3>3. /\ u \in V /\ DOMAIN u = 1..(L + 1) /\ u[L + 1] = s[n]
          /\ \A i \in 1..L : u[i] = t[i]
      <4>1. Len(u) = L + 1 /\ u \in V BY <2>1, <3>1, AppendProperties
      <4>2. DOMAIN u = 1..(L + 1) BY <4>1, LenProperties
      <4> QED BY <2>1, <3>1, <4>1, <4>2, AppendProperties
    <3> HIDE DEF u, L, V
    <3>4. \A i \in 1..(L + 1) : i = L + 1 \/ i \in 1..L BY <3>2
    <3>4a. \A i \in 1..L : i \in 1..(L + 1) BY <3>2
    <3>4b. L + 1 \in 1..(L + 1) BY <3>2
    <3>5. Range(u) = Range(t) \cup {s[n]} BY <3>2, <3>3, <3>4, <3>4a, <3>4b DEF Range
    <3>6. Range(u) = {s[i] : i \in 1..n} \cap S BY <2>1, <2>4, <2>7, <3>5
    <3>7. ASSUME once PROVE \A i, j \in DOMAIN u : u[i] = u[j] => i = j
      <4>1. s[n] \notin Range(t)
        <5>1. ASSUME NEW i \in 1..(n - 1) PROVE s[i] # s[n]
          <6>1. i \in 1..N /\ i # n
            <7> HIDE DEF N
            <7> QED BY <1>1
          <6> QED BY <3>7, <6>1
        <5> QED BY <2>1, <5>1
      <4>2. \A i \in 1..L : t[i] # s[n] BY <3>2, <4>1 DEF Range
      <4> QED BY <2>2, <3>2, <3>3, <3>4, <3>7, <4>2
    <3>8. r[n] = u BY <2>3, <2>7
    <3> QED BY <2>5, <3>3, <3>6, <3>7, <3>8
  <2> QED BY <2>6, <2>7
<1>10. N \in T
  <2>1. N \in 0..N BY <1>1
  <2> HIDE DEF T
  <2> QED BY <1>1, <1>8, <1>9, <2>1, UpTo
<1>11. Good(N, r[N]) BY <1>10
<1> HIDE DEF V
<1> QED BY <1>1, <1>6, <1>11 DEF r, V

(* What passes to an element from those of lower rank holds of all.        *)
LEMMA RankInduct ==
    ASSUME NEW E, NEW rank \in [E -> Nat], NEW T,
           \A e \in E : (\A k \in E : rank[k] < rank[e] => k \in T) => e \in T
    PROVE  E \subseteq T
<1>1. SUFFICES ASSUME NEW x \in E, x \notin T PROVE FALSE OBVIOUS
<1> DEFINE S == {rank[e] : e \in E \ T}
<1>2. S \subseteq Nat /\ S # {} BY <1>1
<1>3. PICK m \in S : \A k \in S : m <= k
  <2> HIDE DEF S
  <2> QED BY <1>2, LeastNat
<1>4. PICK e \in E \ T : m = rank[e] BY <1>3
<1>5. ASSUME NEW k \in E, rank[k] < rank[e] PROVE k \in T
  <2>1. SUFFICES ASSUME k \notin T PROVE FALSE OBVIOUS
  <2>2. rank[k] \in S BY <2>1
  <2>3. rank[e] <= rank[k] BY <1>3, <1>4, <2>2
  <2>4. rank[e] \in Nat /\ rank[k] \in Nat OBVIOUS
  <2> QED BY <1>5, <2>3, <2>4
<1> QED BY <1>4, <1>5

\* F makes of a function the one whose values are computed from it, each
\* from the values of elements of a lower rank.
LooksDown(F, E, V, D, rank) ==
    /\ V # {} /\ D \in Nat /\ rank \in [E -> 0..D] /\ F \in [[E -> V] -> [E -> V]]
    /\ \A g, h \in [E -> V] : \A e \in E :
         (\A k \in E : rank[k] < rank[e] => g[k] = h[k]) => F[g][e] = F[h][e]
Solved(F, E, V) == \E g \in [E -> V] : g = F[g]

(* A recursion that looks at elements of lower rank only has a solution.   *)
LEMMA Recursion ==
    ASSUME NEW E, NEW V, NEW D, NEW rank, NEW F, LooksDown(F, E, V, D, rank)
    PROVE  Solved(F, E, V)
<1> DEFINE W == [E -> V]
           N == D + 2
           G == [p \in (1..N) \X W |-> F[p[2]]]
<1>0. /\ V # {} /\ D \in Nat /\ rank \in [E -> 0..D] /\ F \in [[E -> V] -> [E -> V]]
      /\ \A g, h \in [E -> V] : \A e \in E :
           (\A k \in E : rank[k] < rank[e] => g[k] = h[k]) => F[g][e] = F[h][e]
  BY DEF LooksDown
<1>1. PICK v \in V : TRUE BY <1>0
<1>2. [e \in E |-> v] \in W /\ N \in Nat BY <1>0
<1>3. PICK f \in [0..N -> W] : IsLoop(f, N, [e \in E |-> v], G)
  <2>1. G \in [(1..N) \X W -> W] BY <1>0
  <2> HIDE DEF G, W, N
  <2> QED BY <1>2, <2>1, Loop
<1>4. ASSUME NEW n \in 1..N PROVE n - 1 \in 0..N /\ f[n - 1] \in W /\ f[n] = F[f[n - 1]]
  <2>1. n - 1 \in 0..N BY <1>2
  <2>2. f[n - 1] \in W BY <2>1
  <2> HIDE DEF W, G, N
  <2>3. f[n] = G[n, f[n - 1]] BY <1>3, Zenon DEF IsLoop
  <2> QED BY <2>1, <2>2, <2>3, Zenon DEF G
<1> HIDE DEF G
\* After n rounds the values of the elements of a rank under n stay.
<1> DEFINE Stays(n) == \A e \in E : rank[e] < n => f[n + 1][e] = f[n][e]
           T == {n \in 0..(N - 1) : Stays(n)}
<1>5. 0 \in T
  <2>1. \A e \in E : rank[e] \in 0..D BY <1>0
  <2>2. \A e \in E : ~(rank[e] < 0) BY <2>1
  <2>3. 0 \in 0..(N - 1) BY <1>0
  <2> QED BY <2>2, <2>3
<1>6. ASSUME NEW n \in 1..(N - 1), n - 1 \in T PROVE n \in T
  <2>1. n \in 1..N /\ n + 1 \in 1..N /\ (n + 1) - 1 = n /\ (n - 1) + 1 = n /\ n \in 0..(N - 1)
    BY <1>2
  <2>2. f[n + 1] = F[f[n]] /\ f[n] \in W
    <3>1. f[n + 1] = F[f[(n + 1) - 1]] /\ f[(n + 1) - 1] \in W BY <1>4, <2>1
    <3> QED BY <2>1, <3>1
  <2>3. f[n] = F[f[n - 1]] /\ f[n - 1] \in W BY <1>4, <2>1
  <2>4. ASSUME NEW e \in E, rank[e] < n PROVE f[n + 1][e] = f[n][e]
    <3>1. ASSUME NEW k \in E, rank[k] < rank[e] PROVE f[n][k] = f[n - 1][k]
      <4>1. rank[k] \in 0..D /\ rank[e] \in 0..D /\ D \in Nat BY <1>0
      <4>2. rank[k] < n - 1 BY <2>4, <3>1, <4>1
      <4>3. f[(n - 1) + 1][k] = f[n - 1][k] BY <1>6, <4>2
      <4> QED BY <2>1, <4>3
    <3>2. F[f[n]][e] = F[f[n - 1]][e] BY <1>0, <2>2, <2>3, <3>1
    <3> QED BY <2>2, <2>3, <3>2
  <2> QED BY <2>1, <2>4
<1>7. N - 1 \in T
  <2>1. N - 1 \in Nat /\ N - 1 \in 0..(N - 1) BY <1>0
  <2> HIDE DEF T, N
  <2> QED BY <1>5, <1>6, <2>1, UpTo
<1>8. Stays(N - 1) BY <1>7
<1> DEFINE g == f[N - 1]
<1>9. (N - 1) + 1 = N /\ N \in 1..N /\ N - 1 = D + 1 BY <1>0
<1>10. g \in W /\ f[N] = F[g] /\ f[N] \in W
  <2>1. N \in 0..N BY <1>9
  <2> HIDE DEF N
  <2> QED BY <1>4, <1>9, <2>1
<1>11. \A e \in E : f[N][e] = g[e]
  <2>1. \A e \in E : rank[e] < D + 1
    <3>1. \A e \in E : rank[e] \in 0..D BY <1>0
    <3> QED BY <1>0, <3>1
  <2> HIDE DEF T
  <2> QED BY <1>8, <1>9, <2>1
<1>12. f[N] = g
  <2> HIDE DEF g, N
  <2> QED BY <1>10, <1>11
<1> HIDE DEF g, N, T
<1> QED BY <1>10, <1>12 DEF Solved

\* A sequence that has each member of a set once.
Lists(s, S) ==
    /\ s \in Seq(S) /\ Range(s) = S
    /\ \A i, j \in DOMAIN s : s[i] = s[j] => i = j

LEMMA ListFacts ==
    ASSUME NEW s, NEW S, Lists(s, S)
    PROVE  /\ IsSequence(s) /\ Len(s) \in Nat /\ DOMAIN s = 1..Len(s)
           /\ \A i \in 1..Len(s) : s[i] \in S
           /\ \A x \in S : NthOf(s, x) \in 1..Len(s) /\ s[NthOf(s, x)] = x
           /\ IsFiniteSet(S)
<1>1. s \in Seq(S) /\ Range(s) = S BY DEF Lists
<1>2. IsSequence(s) BY <1>1 DEF IsSequence
<1>3. /\ Len(s) \in Nat /\ DOMAIN s = 1..Len(s) /\ \A i \in 1..Len(s) : s[i] \in S
      /\ \A x \in S : \E i \in 1..Len(s) : x = s[i]
      /\ IsFiniteSet(S)
  BY <1>1, <1>2, RangeFinite
<1>4. ASSUME NEW x \in S PROVE NthOf(s, x) \in 1..Len(s) /\ s[NthOf(s, x)] = x
  BY <1>3 DEF NthOf
<1> QED BY <1>2, <1>3, <1>4

(* The members that are also in another set, listed by Those.              *)
LEMMA ThoseList ==
    ASSUME NEW s, NEW S, Lists(s, S), NEW A
    PROVE  Lists(Those(s, A), S \cap A)
<1>1. s \in Seq(S) /\ Range(s) = S /\ IsSequence(s) /\ DOMAIN s = 1..Len(s)
  BY ListFacts DEF Lists
<1> DEFINE t == Those(s, A)
<1>2. /\ t \in Seq(S) /\ Range(t) = S \cap A
      /\ \A i, j \in DOMAIN t : t[i] = t[j] => i = j
  BY <1>1, ThoseHolds DEF Lists
<1> HIDE DEF t
<1>3. DOMAIN t = 1..Len(t) /\ Len(t) \in Nat BY <1>2, LenProperties
<1>4. \A i \in 1..Len(t) : t[i] \in S \cap A BY <1>2, <1>3 DEF Range
<1>5. t = [i \in 1..Len(t) |-> t[i]] BY <1>2, LenProperties
<1>6. t \in Seq(S \cap A) BY <1>3, <1>4, <1>5, IsASeq
<1> QED BY <1>2, <1>6 DEF Lists, t

(* One list after the other.                                               *)
LEMMA ConcatLists ==
    ASSUME NEW a, NEW A, Lists(a, A), NEW b, NEW B, Lists(b, B), A \cap B = {}
    PROVE  Lists(a \o b, A \cup B)
<1> DEFINE s == a \o b
           m == Len(a)
           n == Len(b)
<1>1. /\ a \in Seq(A \cup B) /\ b \in Seq(A \cup B) /\ m \in Nat /\ n \in Nat
      /\ DOMAIN a = 1..m /\ DOMAIN b = 1..n
      /\ (\A i \in 1..m : a[i] \in A) /\ \A i \in 1..n : b[i] \in B
  <2>1. a \in Seq(A) /\ b \in Seq(B) BY DEF Lists
  <2>2. a \in Seq(A \cup B) /\ b \in Seq(A \cup B) BY <2>1
  <2> QED BY <2>1, <2>2, ListFacts
<1>2. /\ s \in Seq(A \cup B) /\ Len(s) = m + n
      /\ \A i \in 1..(m + n) : s[i] = IF i <= m THEN a[i] ELSE b[i - m]
  BY <1>1, ConcatProperties
<1>3. DOMAIN s = 1..(m + n) BY <1>2, LenProperties
<1> HIDE DEF s, m, n
<1>4. ASSUME NEW i \in 1..(m + n)
      PROVE  \/ i \in 1..m /\ s[i] = a[i]
             \/ i \notin 1..m /\ i - m \in 1..n /\ s[i] = b[i - m]
  BY <1>1, <1>2
<1>5. ASSUME NEW i \in 1..(m + n), NEW j \in 1..(m + n), s[i] = s[j]
      PROVE  i = j
  <2>1. CASE i \in 1..m
    <3>1. s[i] \in A /\ s[i] = a[i] BY <1>1, <1>4, <2>1
    <3>2. j \in 1..m /\ s[j] = a[j] BY <1>1, <1>4, <1>5, <3>1
    <3> QED BY <1>1, <1>5, <2>1, <3>1, <3>2 DEF Lists
  <2>2. CASE i \notin 1..m
    <3>1. i - m \in 1..n /\ s[i] = b[i - m] BY <1>4, <2>2
    <3>2. j - m \in 1..n /\ s[j] = b[j - m] BY <1>1, <1>4, <1>5, <3>1
    <3>3. i - m = j - m BY <1>1, <1>5, <3>1, <3>2 DEF Lists
    <3> QED BY <1>1, <3>3
  <2> QED BY <2>1, <2>2
<1>6. \A x \in A \cup B : \E i \in 1..(m + n) : s[i] = x
  <2>1. ASSUME NEW x \in A PROVE \E i \in 1..(m + n) : s[i] = x
    <3>1. PICK i \in 1..m : a[i] = x BY <1>1, ListFacts DEF m
    <3>2. i \in 1..(m + n) /\ i <= m BY <1>1
    <3> QED BY <1>2, <3>1, <3>2
  <2>2. ASSUME NEW x \in B PROVE \E i \in 1..(m + n) : s[i] = x
    <3>1. PICK i \in 1..n : b[i] = x BY <1>1, ListFacts DEF n
    <3>2. m + i \in 1..(m + n) /\ ~(m + i <= m) /\ (m + i) - m = i BY <1>1
    <3>3. s[m + i] = b[i] BY <1>2, <3>2
    <3> QED BY <3>1, <3>2, <3>3
  <2> QED BY <2>1, <2>2
<1>7. Range(s) = A \cup B
  <2>1. \A i \in 1..(m + n) : s[i] \in A \cup B BY <1>1, <1>4
  <2> QED BY <1>3, <1>6, <2>1 DEF Range
<1> QED BY <1>2, <1>3, <1>5, <1>7 DEF Lists, s

(* The leaves, or the groups, of a list before the rest of it.             *)
LEMMA SplitLists ==
    ASSUME NEW s, NEW S, Lists(s, S)
    PROVE  Lists(LeavesFirst(s), S) /\ Lists(GroupsFirst(s), S)
<1> DEFINE leaves == {e \in Range(s) : ~e.group}
           groups == {e \in Range(s) : e.group}
<1>1. Range(s) = S BY DEF Lists
<1>2. /\ S \cap leaves = leaves /\ S \cap groups = groups
      /\ leaves \cap groups = {} /\ leaves \cup groups = S /\ groups \cup leaves = S
  BY <1>1
<1>3. Lists(Those(s, leaves), S \cap leaves) /\ Lists(Those(s, groups), S \cap groups)
  BY ThoseList
<1>4. LeavesFirst(s) = Those(s, leaves) \o Those(s, groups) BY DEF LeavesFirst
<1>5. GroupsFirst(s) = Those(s, groups) \o Those(s, leaves) BY DEF GroupsFirst
<1> HIDE DEF leaves, groups
<1>6. Lists(Those(s, leaves), leaves) /\ Lists(Those(s, groups), groups) BY <1>2, <1>3
<1>7. groups \cap leaves = {} BY <1>2
<1>8. Lists(LeavesFirst(s), S) BY <1>2, <1>4, <1>6, ConcatLists
<1>9. Lists(GroupsFirst(s), S) BY <1>2, <1>5, <1>6, <1>7, ConcatLists
<1> QED BY <1>8, <1>9

\* Elements of their own ids, in groups that are not in themselves.
Nested(els) ==
    /\ IsSequence(els) /\ Apart(els)
    /\ \A e \in Elements(els) :
         /\ e.id # Root /\ e.label \in Nat /\ e.group \in BOOLEAN
         /\ e.parent = Root \/ \E g \in Elements(els) : g.group /\ g.id = e.parent
    /\ \E D \in Nat : \E depth \in [Ids(els) -> 0..D] :
         \A e \in Elements(els) : e.parent # Root => depth[e.parent] < depth[e.id]

LEMMA ParsedNested ==
    ASSUME NEW d, NestedDiagram(d), Apart(d.elements)
    PROVE  Nested(d.elements)
<1> DEFINE els == d.elements
           L == Len(els)
<1>1. L \in Nat BY RangeFinite DEF NestedDiagram
<1>2. PICK depth \in [Ids(els) -> 1..L] :
        \A e \in Elements(els) : e.parent # Root => depth[e.parent] < depth[e.id]
  BY DEF NestedDiagram, Ids, Elements
<1> HIDE DEF L
<1>3. depth \in [Ids(els) -> 0..L]
  <2>1. 1..L \subseteq 0..L BY <1>1
  <2> QED BY <2>1
<1>4. /\ IsSequence(els)
      /\ \A e \in Elements(els) :
           /\ e.id # Root /\ e.label \in Nat /\ e.group \in BOOLEAN
           /\ e.parent = Root \/ \E g \in Elements(els) : g.group /\ g.id = e.parent
  BY DEF NestedDiagram, Elements
<1> HIDE DEF els
<1>5. Nested(els) BY <1>1, <1>2, <1>3, <1>4 DEF Nested, els
<1> QED BY <1>5 DEF els

LEMMA NestedFacts ==
    ASSUME NEW els, Nested(els)
    PROVE  /\ Lists(els, Elements(els)) /\ IsFiniteSet(Elements(els))
           /\ \A e, f \in Elements(els) : e.id = f.id => e = f
           /\ \A e \in Elements(els) : /\ e.id # Root /\ e.label \in Nat /\ e.group \in BOOLEAN
                                       /\ e.id \in Ids(els) /\ Element(els, e.id) = e
           /\ \A e \in Elements(els) : e.parent # Root =>
                LET p == Element(els, e.parent)
                IN  p \in Elements(els) /\ p.id = e.parent /\ p.group /\ e.parent \in Ids(els)
           /\ \A id \in Ids(els) : Element(els, id) \in Elements(els) /\ Element(els, id).id = id
<1> DEFINE E == Elements(els)
<1>1. /\ IsFiniteSet(E) /\ Len(els) \in Nat /\ DOMAIN els = 1..Len(els)
      /\ \A i \in 1..Len(els) : els[i] \in E
      /\ \A x \in E : \E i \in 1..Len(els) : x = els[i]
  BY RangeFinite DEF Nested, Elements
<1>2. \A i, j \in DOMAIN els : els[i].id = els[j].id => i = j BY DEF Nested, Apart
<1>3. Lists(els, E)
  <2>1. els \in Seq(E) /\ Range(els) = E BY DEF Nested, IsSequence, Elements
  <2> QED BY <1>2, <2>1 DEF Lists
<1> HIDE DEF E
<1>4. \A e, f \in E : e.id = f.id => e = f BY <1>1, <1>2
<1>5. \A e \in E : e.id # Root /\ e.label \in Nat /\ e.group \in BOOLEAN BY DEF Nested, E
<1>6. ASSUME NEW id \in Ids(els)
      PROVE  Element(els, id) \in E /\ Element(els, id).id = id
  <2>1. \E e \in Elements(els) : e.id = id BY DEF Ids
  <2> QED BY <2>1 DEF Element, E
<1>7. \A e \in E : e.id \in Ids(els) BY DEF Ids, E
<1>8. \A e \in E : Element(els, e.id) = e BY <1>4, <1>6, <1>7
<1>9. ASSUME NEW e \in E, e.parent # Root
      PROVE  LET p == Element(els, e.parent)
             IN  p \in E /\ p.id = e.parent /\ p.group /\ e.parent \in Ids(els)
  <2>1. PICK g \in E : g.group /\ g.id = e.parent BY <1>9 DEF Nested, E
  <2>2. Element(els, e.parent) = g BY <1>8, <2>1
  <2> QED BY <1>7, <2>1, <2>2
<1> QED BY <1>1, <1>3, <1>4, <1>5, <1>6, <1>7, <1>8, <1>9 DEF E

(* The items in a group are listed, in the order of each layout.           *)
LEMMA KidsList ==
    ASSUME NEW els, Nested(els), NEW p
    PROVE  LET in == {e \in Elements(els) : e.parent = p}
           IN  Lists(Kids(els, p), in) /\ Lists(NetKids(els, p), in)
<1> DEFINE in == {e \in Elements(els) : e.parent = p}
<1>1. Lists(els, Elements(els)) BY NestedFacts
<1>2. Lists(Those(els, in), Elements(els) \cap in) BY <1>1, ThoseList
<1>3. Elements(els) \cap in = in OBVIOUS
<1> HIDE DEF in
<1>4. Lists(Kids(els, p), in) BY <1>2, <1>3 DEF Kids, in
<1>5. Lists(NetKids(els, p), in) BY <1>4, SplitLists DEF NetKids
<1> QED BY <1>4, <1>5 DEF in

(* The cloud's groups first: the same elements.                            *)
LEMMA GroupsFirstNested ==
    ASSUME NEW els, Nested(els)
    PROVE  /\ Nested(GroupsFirst(els)) /\ Elements(GroupsFirst(els)) = Elements(els)
           /\ Ids(GroupsFirst(els)) = Ids(els)
<1> DEFINE gs == GroupsFirst(els)
<1>1. Lists(gs, Elements(els)) BY NestedFacts, SplitLists
<1>2. Elements(gs) = Elements(els) BY <1>1 DEF Lists, Elements
<1>3. Ids(gs) = Ids(els) BY <1>2 DEF Ids
<1>4. IsSequence(gs) /\ DOMAIN gs = 1..Len(gs) /\ \A i \in 1..Len(gs) : gs[i] \in Elements(els)
  BY <1>1, ListFacts
<1>5. Apart(gs)
  <2>1. ASSUME NEW i \in DOMAIN gs, NEW j \in DOMAIN gs, gs[i].id = gs[j].id PROVE i = j
    <3>1. gs[i] = gs[j] BY <1>4, <2>1, NestedFacts
    <3> QED BY <1>1, <3>1 DEF Lists
  <2> QED BY <2>1 DEF Apart
<1> HIDE DEF gs
<1>6. Nested(gs) BY <1>2, <1>3, <1>4, <1>5 DEF Nested
<1> QED BY <1>2, <1>3, <1>6 DEF gs

(* Two ranks of the elements: one is lower in a group than what the group  *)
(* holds, the other the reverse.                                           *)
LEMMA Ranks ==
    ASSUME NEW els, Nested(els)
    PROVE  \E D \in Nat : \E down, up \in [Elements(els) -> 0..D] :
             \A e \in Elements(els) : e.parent # Root =>
               /\ down[Element(els, e.parent)] < down[e]
               /\ up[e] < up[Element(els, e.parent)]
<1> DEFINE E == Elements(els)
<1>1. PICK D \in Nat : \E depth \in [Ids(els) -> 0..D] :
        \A e \in E : e.parent # Root => depth[e.parent] < depth[e.id]
  BY DEF Nested
<1>2. PICK depth \in [Ids(els) -> 0..D] :
        \A e \in E : e.parent # Root => depth[e.parent] < depth[e.id]
  BY <1>1
<1> DEFINE down == [e \in E |-> depth[e.id]]
           up == [e \in E |-> D - depth[e.id]]
<1>3. \A e \in E : depth[e.id] \in 0..D BY NestedFacts
<1>4. down \in [E -> 0..D] BY <1>3
<1>5. up \in [E -> 0..D]
  <2>1. \A e \in E : D - depth[e.id] \in 0..D BY <1>3
  <2> QED BY <2>1
<1>6. ASSUME NEW e \in E, e.parent # Root
      PROVE  /\ down[Element(els, e.parent)] < down[e]
             /\ up[e] < up[Element(els, e.parent)]
  <2> DEFINE p == Element(els, e.parent)
  <2>1. p \in E /\ p.id = e.parent BY <1>6, NestedFacts
  <2> HIDE DEF p
  <2>2. depth[p.id] < depth[e.id] BY <1>2, <1>6, <2>1
  <2>3. depth[p.id] \in 0..D /\ depth[e.id] \in 0..D BY <1>3, <2>1
  <2>4. down[p] < down[e] /\ up[e] < up[p] BY <2>1, <2>2, <2>3
  <2> QED BY <2>4 DEF p
<1> HIDE DEF down, up
<1> QED BY <1>4, <1>5, <1>6

(* What holds of an element when it does of all it holds, holds of all.    *)
LEMMA KidsInduct ==
    ASSUME NEW els, Nested(els), NEW T,
           \A e \in Elements(els) :
             (\A f \in Elements(els) : f.parent = e.id => f \in T) => e \in T
    PROVE  Elements(els) \subseteq T
<1> DEFINE E == Elements(els)
<1>0. PICK D \in Nat : \E down, up \in [E -> 0..D] :
        \A e \in E : e.parent # Root => up[e] < up[Element(els, e.parent)]
  BY Ranks
<1>1. PICK down \in [E -> 0..D], up \in [E -> 0..D] :
        \A e \in E : e.parent # Root => up[e] < up[Element(els, e.parent)]
  BY <1>0
<1>2. up \in [E -> Nat]
  <2>1. \A e \in E : up[e] \in Nat BY <1>1
  <2> QED BY <1>1, <2>1
<1>3. ASSUME NEW e \in E, \A k \in E : up[k] < up[e] => k \in T PROVE e \in T
  <2>1. ASSUME NEW f \in E, f.parent = e.id PROVE f \in T
    <3>1. e.id # Root /\ Element(els, e.id) = e BY NestedFacts
    <3>2. up[f] < up[e] BY <1>1, <2>1, <3>1
    <3> QED BY <1>3, <3>2
  <2> QED BY <2>1
<1> HIDE DEF E
<1>4. E \subseteq T BY <1>2, <1>3, RankInduct
<1> QED BY <1>4 DEF E

(* What holds of an element when it does of the group it is in, holds of   *)
(* all.                                                                    *)
LEMMA ParentsInduct ==
    ASSUME NEW els, Nested(els), NEW T,
           \A e \in Elements(els) :
             (e.parent # Root => Element(els, e.parent) \in T) => e \in T
    PROVE  Elements(els) \subseteq T
<1> DEFINE E == Elements(els)
<1>0. PICK D \in Nat : \E down, up \in [E -> 0..D] :
        \A e \in E : e.parent # Root => down[Element(els, e.parent)] < down[e]
  BY Ranks
<1>1. PICK down \in [E -> 0..D], up \in [E -> 0..D] :
        \A e \in E : e.parent # Root => down[Element(els, e.parent)] < down[e]
  BY <1>0
<1>2. down \in [E -> Nat]
  <2>1. \A e \in E : down[e] \in Nat BY <1>1
  <2> QED BY <1>1, <2>1
<1>3. ASSUME NEW e \in E, \A k \in E : down[k] < down[e] => k \in T PROVE e \in T
  <2>1. e.parent # Root => Element(els, e.parent) \in E BY NestedFacts
  <2> QED BY <1>1, <1>3, <2>1
<1> HIDE DEF E
<1>4. E \subseteq T BY <1>2, <1>3, RankInduct
<1> QED BY <1>4 DEF E

\* The values of some items, in their order.
Inner(w, kids) == [i \in DOMAIN kids |-> w[kids[i]]]

LEMMA InnerTyped ==
    ASSUME NEW kids, NEW S, Lists(kids, S), NEW w, NEW V, \A e \in S : w[e] \in V
    PROVE  Inner(w, kids) \in Seq(V) /\ Len(Inner(w, kids)) = Len(kids)
<1>1. Len(kids) \in Nat /\ DOMAIN kids = 1..Len(kids) /\ \A i \in 1..Len(kids) : kids[i] \in S
  BY ListFacts
<1> DEFINE t == Inner(w, kids)
<1>2. t = [i \in 1..Len(kids) |-> w[kids[i]]] BY <1>1 DEF Inner
<1>3. \A i \in 1..Len(kids) : w[kids[i]] \in V BY <1>1
<1> HIDE DEF t
<1>5. t \in Seq(V) BY <1>1, <1>2, <1>3, IsASeq
<1>6. Len(t) = Len(kids)
  <2>1. DOMAIN t = 1..Len(kids) BY <1>2
  <2> QED BY <1>1, <1>5, <2>1, LenProperties
<1> QED BY <1>5, <1>6 DEF t

\* The value g of an element comes of G from those of what it holds.
Inward(g, els, kids, G) == \A e \in Elements(els) : g[e] = G[<<e, Inner(g, kids[e])>>]

(* Values can be computed from the inside: that of an element from those   *)
(* of what it holds.                                                       *)
LEMMA KidsRecursion ==
    ASSUME NEW els, Nested(els), NEW V, V # {}, NEW kids,
           \A e \in Elements(els) : Lists(kids[e], {f \in Elements(els) : f.parent = e.id}),
           NEW G \in [Elements(els) \X Seq(V) -> V]
    PROVE  \E g \in [Elements(els) -> V] : Inward(g, els, kids, G)
<1> DEFINE E == Elements(els)
           W == [E -> V]
           F == [g \in W |-> [e \in E |-> G[<<e, Inner(g, kids[e])>>]]]
<1>0. PICK D \in Nat : \E down, up \in [E -> 0..D] :
        \A e \in E : e.parent # Root => up[e] < up[Element(els, e.parent)]
  BY Ranks
<1>1. PICK down \in [E -> 0..D], up \in [E -> 0..D] :
        \A e \in E : e.parent # Root => up[e] < up[Element(els, e.parent)]
  BY <1>0
<1> DEFINE in(e) == {f \in E : f.parent = e.id}
<1>2. ASSUME NEW g \in W, NEW e \in E PROVE Inner(g, kids[e]) \in Seq(V)
  <2>1. \A f \in in(e) : g[f] \in V OBVIOUS
  <2>2. Lists(kids[e], in(e)) OBVIOUS
  <2> HIDE DEF in, W, E
  <2> QED BY <2>1, <2>2, InnerTyped
<1>3. ASSUME NEW g \in W PROVE F[g] \in W /\ \A e \in E : F[g][e] = G[<<e, Inner(g, kids[e])>>]
  <2>1. \A e \in E : G[<<e, Inner(g, kids[e])>>] \in V
    <3> HIDE DEF E, W
    <3>1. G \in [E \X Seq(V) -> V] BY DEF E
    <3> QED BY <1>2, <3>1
  <2>2. F[g] = [e \in E |-> G[<<e, Inner(g, kids[e])>>]] OBVIOUS
  <2> HIDE DEF F, E
  <2> QED BY <2>1, <2>2
<1>4. F \in [W -> W]
  <2>1. F = [g \in W |-> F[g]] OBVIOUS
  <2> HIDE DEF F, W
  <2> QED BY <1>3, <2>1
<1>5. ASSUME NEW g \in W, NEW h \in W, NEW e \in E,
             \A k \in E : up[k] < up[e] => g[k] = h[k]
      PROVE  F[g][e] = F[h][e]
  <2>1. ASSUME NEW f \in in(e) PROVE g[f] = h[f]
    <3>1. e.id # Root /\ Element(els, e.id) = e BY NestedFacts
    <3>2. up[f] < up[e] BY <1>1, <2>1, <3>1
    <3> QED BY <1>5, <3>2
  <2>2. Lists(kids[e], in(e)) OBVIOUS
  <2> HIDE DEF F, W, E, in
  <2>3. DOMAIN kids[e] = 1..Len(kids[e]) /\ \A i \in 1..Len(kids[e]) : kids[e][i] \in in(e)
    BY <2>2, ListFacts
  <2>4. Inner(g, kids[e]) = Inner(h, kids[e]) BY <2>1, <2>3 DEF Inner
  <2>5. F[g][e] = G[<<e, Inner(g, kids[e])>>] BY <1>3
  <2>6. F[h][e] = G[<<e, Inner(h, kids[e])>>] BY <1>3
  <2> QED BY <2>4, <2>5, <2>6
<1>6. \E g \in W : g = F[g]
  <2>1. up \in [E -> 0..D] BY <1>1
  <2>2. F \in [[E -> V] -> [E -> V]] BY <1>4
  <2> HIDE DEF F
  <2>3. LooksDown(F, E, V, D, up) BY <1>0, <1>5, <2>1, <2>2 DEF LooksDown
  <2> HIDE DEF E
  <2>4. Solved(F, E, V) BY <2>3, Recursion
  <2> QED BY <2>4 DEF Solved
<1> HIDE DEF F, W
<1>7. PICK g \in W : g = F[g] BY <1>6
<1>8. \A e \in E : g[e] = G[<<e, Inner(g, kids[e])>>]
  <2>1. \A e \in E : F[g][e] = G[<<e, Inner(g, kids[e])>>] BY <1>3
  <2> QED BY <1>7, <2>1
<1> QED BY <1>7, <1>8 DEF W, E, Inward

\* The value g of an element comes of G from that of the group it is in.
Outward(g, els, shown, v, G) ==
    \A e \in shown : g[e] = G[<<e, IF e.parent = Root THEN v ELSE g[Element(els, e.parent)]>>]

(* Values can be computed from the outside: that of an element from that   *)
(* of the group it is in. The elements may be some that go with the groups *)
(* they are in.                                                            *)
LEMMA ParentsRecursion ==
    ASSUME NEW els, Nested(els), NEW Sh, Sh \subseteq Elements(els),
           \A e \in Sh : e.parent # Root => Element(els, e.parent) \in Sh,
           NEW V, NEW v \in V, NEW G \in [Sh \X V -> V]
    PROVE  \E g \in [Sh -> V] : Outward(g, els, Sh, v, G)
<1> DEFINE W == [Sh -> V]
           Of(g, e) == IF e.parent = Root THEN v ELSE g[Element(els, e.parent)]
           F == [g \in W |-> [e \in Sh |-> G[<<e, Of(g, e)>>]]]
<1>0. PICK D \in Nat : \E down, up \in [Elements(els) -> 0..D] :
        \A e \in Elements(els) : e.parent # Root => down[Element(els, e.parent)] < down[e]
  BY Ranks
<1>1. PICK down \in [Elements(els) -> 0..D], up \in [Elements(els) -> 0..D] :
        \A e \in Elements(els) : e.parent # Root => down[Element(els, e.parent)] < down[e]
  BY <1>0
<1> DEFINE rank == [e \in Sh |-> down[e]]
<1>2. rank \in [Sh -> 0..D] /\ \A e \in Sh : rank[e] = down[e] BY <1>1
<1>3. ASSUME NEW g \in W, NEW e \in Sh PROVE Of(g, e) \in V OBVIOUS
<1> HIDE DEF Of
<1>4. ASSUME NEW g \in W PROVE F[g] \in W /\ \A e \in Sh : F[g][e] = G[<<e, Of(g, e)>>]
  <2>1. \A e \in Sh : G[<<e, Of(g, e)>>] \in V BY <1>3
  <2>2. F[g] = [e \in Sh |-> G[<<e, Of(g, e)>>]] OBVIOUS
  <2> HIDE DEF F
  <2> QED BY <2>1, <2>2
<1>5. F \in [W -> W]
  <2>1. F = [g \in W |-> F[g]] OBVIOUS
  <2> HIDE DEF F, W
  <2> QED BY <1>4, <2>1
<1> HIDE DEF rank
<1>6. ASSUME NEW g \in W, NEW h \in W, NEW e \in Sh,
             \A k \in Sh : rank[k] < rank[e] => g[k] = h[k]
      PROVE  F[g][e] = F[h][e]
  <2>1. Of(g, e) = Of(h, e)
    <3>1. CASE e.parent = Root BY <3>1 DEF Of
    <3>2. CASE e.parent # Root
      <4>1. Element(els, e.parent) \in Sh /\ rank[Element(els, e.parent)] < rank[e]
        BY <1>1, <1>2, <3>2
      <4> QED BY <1>6, <3>2, <4>1 DEF Of
    <3> QED BY <3>1, <3>2
  <2> HIDE DEF F, W
  <2>2. F[g][e] = G[<<e, Of(g, e)>>] BY <1>4
  <2>3. F[h][e] = G[<<e, Of(h, e)>>] BY <1>4
  <2> QED BY <2>1, <2>2, <2>3
<1>7. \E g \in W : g = F[g]
  <2>1. F \in [[Sh -> V] -> [Sh -> V]] BY <1>5
  <2> HIDE DEF F
  <2>2. LooksDown(F, Sh, V, D, rank) BY <1>0, <1>2, <1>6, <2>1 DEF LooksDown
  <2>3. Solved(F, Sh, V) BY <2>2, Recursion
  <2> QED BY <2>3 DEF Solved
<1> HIDE DEF F
<1>8. PICK g \in W : g = F[g] BY <1>7
<1>9. \A e \in Sh : g[e] = G[<<e, Of(g, e)>>]
  <2>1. \A e \in Sh : F[g][e] = G[<<e, Of(g, e)>>] BY <1>4
  <2> QED BY <1>8, <2>1
<1> QED BY <1>8, <1>9 DEF Of, Outward

\* Two boxes at their places among their siblings.
Beside(p, a, q, b) ==
    \/ p.x + a.w <= q.x \/ q.x + b.w <= p.x
    \/ p.y + a.h <= q.y \/ q.y + b.h <= p.y

\* The places and sizes of some elements of a diagram fit: siblings are beside
\* one another, and a group has room for what it holds.
Fit(els, shown, size, cell, pad, header) ==
    /\ shown \subseteq Elements(els) /\ pad \in Nat /\ header \in Nat
    /\ \A e \in shown : e.parent # Root => Element(els, e.parent) \in shown
    /\ \A e \in shown : {cell[e].x, cell[e].y, size[e].w, size[e].h} \subseteq Nat
    /\ \A e, f \in shown : e # f /\ e.parent = f.parent => Beside(cell[e], size[e], cell[f], size[f])
    /\ \A e \in shown : e.parent # Root =>
         LET p == Element(els, e.parent)
         IN  /\ (pad + cell[e].x) + size[e].w <= size[p].w
             /\ (header + cell[e].y) + size[e].h <= size[p].h

(* What is in a container is placed from where the container is.           *)
LEMMA BoxesPlaced ==
    ASSUME NEW els, Nested(els), NEW shown, NEW size, NEW cell, NEW pad, NEW header,
           Fit(els, shown, size, cell, pad, header)
    PROVE  \E at :
             /\ Boxes(els, shown, size, cell, pad, header) =
                  {Node(e.id, at[e].x, at[e].y, size[e].w, size[e].h, e.parent) : e \in shown}
             /\ \A e \in shown :
                  /\ at[e].x \in Nat /\ at[e].y \in Nat
                  /\ e.parent = Root => at[e] = cell[e]
                  /\ e.parent # Root =>
                       LET p == at[Element(els, e.parent)]
                       IN  at[e].x = p.x + (pad + cell[e].x) /\ at[e].y = p.y + (header + cell[e].y)
<1> DEFINE V == {cell[e] : e \in shown} \cup [x : Nat, y : Nat]
           v == [x |-> 0, y |-> 0]
           Put(e, p) == IF e.parent = Root THEN cell[e]
                        ELSE [x |-> p.x + pad + cell[e].x, y |-> p.y + header + cell[e].y]
           G == [q \in shown \X V |-> Put(q[1], q[2])]
           Run(w) == w = [e \in shown |->
                            LET c == cell[e]
                            IN  IF e.parent = Root THEN c
                                ELSE LET p == w[Element(els, e.parent)]
                                     IN  [x |-> p.x + pad + c.x, y |-> p.y + header + c.y]]
           at == CHOOSE w : Run(w)
<1>1. /\ shown \subseteq Elements(els) /\ pad \in Nat /\ header \in Nat
      /\ \A e \in shown : e.parent # Root => Element(els, e.parent) \in shown
      /\ \A e \in shown : cell[e].x \in Nat /\ cell[e].y \in Nat
  BY DEF Fit
<1>2. v \in V OBVIOUS
<1>3. \A p \in V : p.x \in Nat /\ p.y \in Nat BY <1>1
<1>4. ASSUME NEW e \in shown, NEW p \in V PROVE Put(e, p) \in V
  <2>1. cell[e] \in V OBVIOUS
  <2>2. p.x \in Nat /\ p.y \in Nat /\ cell[e].x \in Nat /\ cell[e].y \in Nat BY <1>1, <1>3
  <2>3. [x |-> p.x + pad + cell[e].x, y |-> p.y + header + cell[e].y] \in [x : Nat, y : Nat]
    BY <1>1, <2>2
  <2>4. [x |-> p.x + pad + cell[e].x, y |-> p.y + header + cell[e].y] \in V BY <2>3
  <2> HIDE DEF V
  <2> QED BY <2>1, <2>4
<1> HIDE DEF V, v, Put
<1>5. PICK g \in [shown -> V] :
        \A e \in shown : g[e] = G[<<e, IF e.parent = Root THEN v ELSE g[Element(els, e.parent)]>>]
  <2>1. G \in [shown \X V -> V] BY <1>4
  <2> HIDE DEF G
  <2>2. \E g \in [shown -> V] : Outward(g, els, shown, v, G)
    BY <1>1, <1>2, <2>1, ParentsRecursion
  <2> QED BY <2>2 DEF Outward
<1>6. Run(at)
  <2>1. ASSUME NEW e \in shown
        PROVE  g[e] = IF e.parent = Root THEN cell[e]
                      ELSE [x |-> g[Element(els, e.parent)].x + pad + cell[e].x,
                            y |-> g[Element(els, e.parent)].y + header + cell[e].y]
    <3>1. CASE e.parent = Root
      <4>1. g[e] = G[<<e, v>>] BY <1>5, <3>1
      <4>2. G[<<e, v>>] = Put(e, v) BY <1>2
      <4> QED BY <3>1, <4>1, <4>2 DEF Put
    <3>2. CASE e.parent # Root
      <4> DEFINE p == g[Element(els, e.parent)]
      <4>1. g[e] = G[<<e, p>>] BY <1>5, <3>2
      <4>2. p \in V BY <1>1, <1>5, <3>2
      <4> HIDE DEF p
      <4>3. G[<<e, p>>] = Put(e, p) BY <4>2
      <4>4. g[e] = Put(e, p) BY <4>1, <4>3
      <4>5. g[e] = [x |-> p.x + pad + cell[e].x, y |-> p.y + header + cell[e].y]
        BY <3>2, <4>4 DEF Put
      <4> QED BY <3>2, <4>5 DEF p
    <3> QED BY <3>1, <3>2
  <2>2. g = [e \in shown |-> g[e]] OBVIOUS
  <2> HIDE DEF G
  <2>3. Run(g) BY <2>1, <2>2
  <2> HIDE DEF Run
  <2> QED BY <2>3
<1>7. Boxes(els, shown, size, cell, pad, header) =
        {Node(e.id, at[e].x, at[e].y, size[e].w, size[e].h, e.parent) : e \in shown}
  BY DEF Boxes
<1> HIDE DEF Run, at
<1>8. \A e \in shown : at[e] = IF e.parent = Root THEN cell[e]
                               ELSE [x |-> at[Element(els, e.parent)].x + pad + cell[e].x,
                                     y |-> at[Element(els, e.parent)].y + header + cell[e].y]
  BY <1>6 DEF Run
<1> DEFINE T == {e \in Elements(els) : e \in shown => at[e].x \in Nat /\ at[e].y \in Nat}
<1>9. ASSUME NEW e \in Elements(els), e.parent # Root => Element(els, e.parent) \in T
      PROVE  e \in T
  <2> SUFFICES ASSUME e \in shown PROVE at[e].x \in Nat /\ at[e].y \in Nat OBVIOUS
  <2>1. CASE e.parent = Root BY <1>1, <1>8, <2>1
  <2>2. CASE e.parent # Root
    <3> DEFINE p == at[Element(els, e.parent)]
    <3>1. p.x \in Nat /\ p.y \in Nat BY <1>1, <1>9, <2>2
    <3>2. at[e] = [x |-> p.x + pad + cell[e].x, y |-> p.y + header + cell[e].y] BY <1>8, <2>2
    <3> HIDE DEF p
    <3> QED BY <1>1, <3>1, <3>2
  <2> QED BY <2>1, <2>2
<1>10. Elements(els) \subseteq T
  <2> HIDE DEF T
  <2> QED BY <1>9, ParentsInduct
<1>11. \A e \in shown : at[e].x \in Nat /\ at[e].y \in Nat BY <1>1, <1>10
<1>12. ASSUME NEW e \in shown, e.parent # Root
       PROVE  LET p == at[Element(els, e.parent)]
              IN  at[e].x = p.x + (pad + cell[e].x) /\ at[e].y = p.y + (header + cell[e].y)
  <2> DEFINE p == at[Element(els, e.parent)]
  <2>1. p.x \in Nat /\ p.y \in Nat BY <1>1, <1>11, <1>12
  <2>2. at[e] = [x |-> p.x + pad + cell[e].x, y |-> p.y + header + cell[e].y] BY <1>8, <1>12
  <2> HIDE DEF p
  <2>3. at[e].x = p.x + (pad + cell[e].x) /\ at[e].y = p.y + (header + cell[e].y)
    BY <1>1, <2>1, <2>2
  <2> QED BY <2>3 DEF p
<1> QED BY <1>7, <1>8, <1>11, <1>12

(* Such a drawing is sound.                                                *)
LEMMA BoxesSound ==
    ASSUME NEW els, Nested(els), NEW shown, NEW size, NEW cell, NEW pad, NEW header,
           Fit(els, shown, size, cell, pad, header),
           NEW edges, \A l \in edges : {l.from, l.to} \subseteq {e.id : e \in shown}
    PROVE  LET s == Fitted(Boxes(els, shown, size, cell, pad, header), edges, 0)
           IN  s.ok = TRUE /\ SceneOk(s)
<1> DEFINE nodes == Boxes(els, shown, size, cell, pad, header)
           w == MaxOf({Right(b) : b \in nodes}) + 0
           h == MaxOf({Bottom(b) : b \in nodes}) + 0
           s == Fitted(nodes, edges, 0)
<1>1. /\ shown \subseteq Elements(els) /\ pad \in Nat /\ header \in Nat
      /\ \A e \in shown : e.parent # Root => Element(els, e.parent) \in shown
      /\ \A e \in shown : /\ cell[e].x \in Nat /\ cell[e].y \in Nat
                          /\ size[e].w \in Nat /\ size[e].h \in Nat
  BY DEF Fit
<1>2. PICK at :
        /\ nodes = {Node(e.id, at[e].x, at[e].y, size[e].w, size[e].h, e.parent) : e \in shown}
        /\ \A e \in shown :
             /\ at[e].x \in Nat /\ at[e].y \in Nat
             /\ e.parent = Root => at[e] = cell[e]
             /\ e.parent # Root =>
                  LET p == at[Element(els, e.parent)]
                  IN  at[e].x = p.x + (pad + cell[e].x) /\ at[e].y = p.y + (header + cell[e].y)
  BY BoxesPlaced
<1> HIDE DEF nodes
<1> DEFINE box(e) == Node(e.id, at[e].x, at[e].y, size[e].w, size[e].h, e.parent)
<1>3. nodes = {box(e) : e \in shown} BY <1>2
<1>4. ASSUME NEW e \in shown
      PROVE  /\ IsNode(box(e)) /\ box(e).id = e.id /\ box(e).parent = e.parent
             /\ box(e).x = at[e].x /\ box(e).y = at[e].y
             /\ Right(box(e)) = at[e].x + size[e].w /\ Bottom(box(e)) = at[e].y + size[e].h
             /\ box(e).x >= 0 /\ box(e).y >= 0
  <2>1. /\ at[e].x \in Nat /\ at[e].y \in Nat /\ size[e].w \in Nat /\ size[e].h \in Nat
    BY <1>1, <1>2
  <2>2. /\ IsNode(box(e)) /\ box(e).id = e.id /\ box(e).parent = e.parent
        /\ box(e).x = at[e].x /\ box(e).y = at[e].y
        /\ Right(box(e)) = at[e].x + size[e].w /\ Bottom(box(e)) = at[e].y + size[e].h
    BY <2>1, NodeIs
  <2> HIDE DEF box
  <2> QED BY <2>1, <2>2
<1> HIDE DEF box
<1>5. ASSUME NEW e \in shown, NEW f \in shown, e # f, e.parent = f.parent
      PROVE  Clear(box(e), box(f))
  <2>1. Beside(cell[e], size[e], cell[f], size[f]) BY <1>5 DEF Fit
  <2>2. /\ at[e].x \in Nat /\ at[e].y \in Nat /\ at[f].x \in Nat /\ at[f].y \in Nat
        /\ cell[e].x \in Nat /\ cell[e].y \in Nat /\ cell[f].x \in Nat /\ cell[f].y \in Nat
        /\ size[e].w \in Nat /\ size[e].h \in Nat /\ size[f].w \in Nat /\ size[f].h \in Nat
    BY <1>1, <1>2
  <2>3. PICK X \in Nat, Y \in Nat :
          /\ at[e].x = X + cell[e].x /\ at[e].y = Y + cell[e].y
          /\ at[f].x = X + cell[f].x /\ at[f].y = Y + cell[f].y
    <3>1. CASE e.parent = Root
      <4>1. at[e] = cell[e] /\ at[f] = cell[f] BY <1>2, <1>5, <3>1
      <4>2. /\ at[e].x = 0 + cell[e].x /\ at[e].y = 0 + cell[e].y
            /\ at[f].x = 0 + cell[f].x /\ at[f].y = 0 + cell[f].y BY <2>2, <4>1
      <4> QED BY <4>2
    <3>2. CASE e.parent # Root
      <4> DEFINE p == at[Element(els, e.parent)]
      <4>1. /\ at[e].x = p.x + (pad + cell[e].x) /\ at[e].y = p.y + (header + cell[e].y)
            /\ at[f].x = p.x + (pad + cell[f].x) /\ at[f].y = p.y + (header + cell[f].y)
        BY <1>2, <1>5, <3>2
      <4>2. p.x \in Nat /\ p.y \in Nat BY <1>1, <1>2, <3>2
      <4> HIDE DEF p
      <4>3. /\ at[e].x = (p.x + pad) + cell[e].x /\ at[e].y = (p.y + header) + cell[e].y
            /\ at[f].x = (p.x + pad) + cell[f].x /\ at[f].y = (p.y + header) + cell[f].y
            /\ p.x + pad \in Nat /\ p.y + header \in Nat
        BY <1>1, <2>2, <4>1, <4>2
      <4> QED BY <4>3
    <3> QED BY <3>1, <3>2
  <2>4. \/ Right(box(e)) <= box(f).x \/ Right(box(f)) <= box(e).x
        \/ Bottom(box(e)) <= box(f).y \/ Bottom(box(f)) <= box(e).y
    BY <1>4, <2>1, <2>2, <2>3 DEF Beside
  <2> QED BY <2>4 DEF Clear
<1>6. \A e, f \in shown : e.id = f.id => e = f BY <1>1, NestedFacts
<1>7. NoSiblingOverlaps(nodes)
  <2>1. ASSUME NEW e \in shown, NEW f \in shown,
               box(e).id # box(f).id, box(e).parent = box(f).parent
        PROVE  OverlapArea(box(e), box(f)) <= Slack
    <3>1. e # f /\ e.parent = f.parent BY <1>4, <2>1
    <3>2. Clear(box(e), box(f)) /\ IsNode(box(e)) /\ IsNode(box(f)) BY <1>4, <1>5, <3>1
    <3> QED BY <3>2, ClearApart
  <2> QED BY <1>3, <2>1 DEF NoSiblingOverlaps
<1>8. ContainersEncloseMembers(nodes)
  <2>1. ASSUME NEW e \in shown, NEW f \in shown, box(e).parent = box(f).id
        PROVE  LET n == box(e)
                   p == box(f)
               IN  /\ n.x >= p.x - Slack /\ n.y >= p.y - Slack
                   /\ Right(n) <= Right(p) + Slack /\ Bottom(n) <= Bottom(p) + Slack
    <3>1. e.parent # Root /\ Element(els, e.parent) = f
      <4>1. e.parent = f.id /\ f \in Elements(els) BY <1>1, <1>4, <2>1
      <4> QED BY <4>1, NestedFacts
    <3>2. /\ at[e].x = at[f].x + (pad + cell[e].x) /\ at[e].y = at[f].y + (header + cell[e].y)
      BY <1>2, <3>1
    <3>3. /\ (pad + cell[e].x) + size[e].w <= size[f].w
          /\ (header + cell[e].y) + size[e].h <= size[f].h
      BY <3>1 DEF Fit
    <3>4. /\ at[f].x \in Nat /\ at[f].y \in Nat /\ cell[e].x \in Nat /\ cell[e].y \in Nat
          /\ size[e].w \in Nat /\ size[e].h \in Nat /\ size[f].w \in Nat /\ size[f].h \in Nat
      BY <1>1, <1>2
    <3>5. /\ at[e].x >= at[f].x - 1 /\ at[e].y >= at[f].y - 1
          /\ at[e].x + size[e].w <= (at[f].x + size[f].w) + 1
          /\ at[e].y + size[e].h <= (at[f].y + size[f].h) + 1
      BY <1>1, <3>2, <3>3, <3>4
    <3> QED BY <1>4, <3>5 DEF Slack
  <2> QED BY <1>3, <2>1 DEF ContainersEncloseMembers
<1>9. \A a, b \in nodes : a.id = b.id => a = b BY <1>3, <1>4, <1>6
<1>10. {b.id : b \in nodes} = {e.id : e \in shown} BY <1>3, <1>4
<1>11. \A b \in nodes : b.parent \in {c.id : c \in nodes} \cup {Root}
  <2>1. ASSUME NEW e \in shown PROVE e.parent \in {f.id : f \in shown} \cup {Root}
    <3>1. CASE e.parent # Root
      <4>1. Element(els, e.parent) \in shown /\ Element(els, e.parent).id = e.parent
        BY <1>1, <3>1, NestedFacts
      <4> QED BY <4>1
    <3> QED BY <3>1
  <2> QED BY <1>3, <1>4, <1>10, <2>1
<1>12. IsFiniteSet(nodes)
  <2> DEFINE f == [e \in shown |-> box(e)]
  <2>1. IsFiniteSet(shown) BY <1>1, NestedFacts, FS_Subset
  <2>2. DOMAIN f = shown /\ f = [e \in DOMAIN f |-> f[e]] OBVIOUS
  <2>3. nodes = {f[e] : e \in DOMAIN f} BY <1>3
  <2> HIDE DEF f
  <2> QED BY <2>1, <2>2, <2>3, ImageFinite
<1>13. \A b \in nodes : IsNode(b) /\ b.x >= 0 /\ b.y >= 0 BY <1>3, <1>4
<1>14. w \in Int /\ h \in Int /\ \A b \in nodes : Inside(b, w, h)
  BY <1>12, <1>13, FittedHolds
<1>15. s = Scene(nodes, edges, w, h) BY DEF Fitted
<1> HIDE DEF w, h, s
<1>16. s.ok = TRUE /\ s.nodes = nodes /\ s.edges = edges /\ s.w = w /\ s.h = h
  BY <1>15 DEF Scene
<1>17. \A b \in nodes : Right(b) <= w /\ Bottom(b) <= h BY <1>14 DEF Inside
<1>18. \A l \in edges : {l.from, l.to} \subseteq {b.id : b \in nodes} BY <1>10
<1>19. SceneOk(s) BY <1>7, <1>8, <1>9, <1>11, <1>13, <1>16, <1>17, <1>18 DEF SceneOk, StyleOk
<1> QED BY <1>16, <1>19 DEF s, nodes

-----------------------------------------------------------------------------
(* Boxes packed in rows: the grid, the rows of spans and the shelves.      *)

LEMMA DivMod ==
    ASSUME NEW n \in Nat, NEW c \in Nat, c > 0
    PROVE  /\ n \div c \in Nat /\ n % c \in Nat /\ n % c < c
           /\ n = c * (n \div c) + (n % c)
OBVIOUS

LEMMA DivBelow ==
    ASSUME NEW n \in Nat, NEW N \in Nat, n < N, NEW c \in Nat, c > 0
    PROVE  n \div c + 1 <= (N + c - 1) \div c
<1> DEFINE q == n \div c
           M == (N + c) - 1
           Q == M \div c
<1>1. N + c - 1 = M /\ M \in Nat OBVIOUS
<1>2. q \in Nat /\ n % c \in Nat /\ n % c < c /\ n = c * q + (n % c) BY DivMod
<1>3. Q \in Nat /\ M % c \in Nat /\ M % c < c /\ M = c * Q + (M % c) BY <1>1, DivMod
<1> HIDE DEF q, Q
<1>4. SUFFICES ASSUME Q <= q PROVE FALSE BY <1>1, <1>2, <1>3 DEF q, Q
<1>5. c * Q <= c * q BY <1>2, <1>3, <1>4
<1>6. c * q \in Nat /\ c * Q \in Nat BY <1>2, <1>3
<1> HIDE DEF M
<1>7. c * Q + (M % c) < n + c BY <1>2, <1>3, <1>5, <1>6
<1>8. M >= n + c BY DEF M
<1> QED BY <1>1, <1>3, <1>7, <1>8

LEMMA MaxOver ==
    ASSUME NEW S, IsFiniteSet(S), NEW f, f = [x \in S |-> f[x]], \A x \in S : f[x] \in Nat
    PROVE  LET m == MaxOf({f[x] : x \in S}) IN m \in Nat /\ \A x \in S : f[x] <= m
<1> DEFINE R == {f[x] : x \in S}
<1>1. DOMAIN f = S OBVIOUS
<1>2. IsFiniteSet(R) BY <1>1, ImageFinite
<1>3. R \subseteq Nat /\ R \subseteq Int /\ \A x \in S : f[x] \in R OBVIOUS
<1> HIDE DEF R
<1>4. MaxOf(R) \in Nat /\ \A x \in R : x <= MaxOf(R) BY <1>2, <1>3, MaxOfBounds
<1> QED BY <1>3, <1>4 DEF R

\* The places of a packing keep their items beside one another.
Packed(cells, sizes) ==
    /\ \A i \in DOMAIN sizes : cells[i].x \in Nat /\ cells[i].y \in Nat
    /\ \A i, j \in DOMAIN sizes : i # j => Beside(cells[i], sizes[i], cells[j], sizes[j])

Sized(sizes) ==
    IsSequence(sizes) /\ \A i \in DOMAIN sizes : sizes[i].w \in Nat /\ sizes[i].h \in Nat

(* Every cell of the grid is its own and has room for its item, whatever   *)
(* the sizes and the number of columns.                                    *)
LEMMA GridPacked ==
    ASSUME NEW sizes, Sized(sizes), NEW columns \in Nat, NEW gap \in Nat
    PROVE  LET g == VariableGrid(sizes, columns, gap)
           IN  /\ Packed(g.cells, sizes) /\ g.w \in Nat /\ g.h \in Nat
               /\ \A i \in DOMAIN sizes : /\ g.cells[i].x + sizes[i].w <= g.w
                                          /\ g.cells[i].y + sizes[i].h <= g.h
<1> DEFINE N == Len(sizes)
           cols == Larger(1, columns)
           rows == Larger(1, (Len(sizes) + cols - 1) \div cols)
           col(i) == ((i - 1) % cols) + 1
           row(i) == (i - 1) \div cols + 1
           inCol(c) == {j \in DOMAIN sizes : col(j) = c}
           inRow(r) == {j \in DOMAIN sizes : row(j) = r}
           colW == [c \in 1..cols |-> MaxOf({sizes[i].w : i \in inCol(c)}) + gap]
           rowH == [r \in 1..rows |-> MaxOf({sizes[i].h : i \in inRow(r)}) + gap]
           used == IF Len(sizes) < cols THEN Larger(1, Len(sizes)) ELSE cols
           cells == [i \in DOMAIN sizes |-> [x |-> Before(colW, col(i)), y |-> Before(rowH, row(i))]]
           g == VariableGrid(sizes, columns, gap)
<1>1. N \in Nat /\ DOMAIN sizes = 1..N /\ \A i \in 1..N : sizes[i].w \in Nat /\ sizes[i].h \in Nat
  <2>1. N \in Nat /\ DOMAIN sizes = 1..N BY RangeFinite DEF Sized
  <2> QED BY <2>1 DEF Sized
<1>2. cols \in Nat /\ cols >= 1 BY DEF Larger
<1>3. g = [cells |-> cells, w |-> Before(colW, used + 1) - gap, h |-> Before(rowH, rows + 1) - gap]
  BY DEF VariableGrid
<1> HIDE DEF cols
<1>4. rows \in Nat /\ rows >= 1 /\ (N + cols - 1) \div cols <= rows
  <2>1. (N + cols - 1) \div cols \in Int BY <1>1, <1>2
  <2> QED BY <2>1 DEF Larger
<1>5. ASSUME NEW i \in 1..N
      PROVE  /\ col(i) \in 1..cols /\ row(i) \in 1..rows
             /\ i - 1 = cols * (row(i) - 1) + (col(i) - 1)
  <2> DEFINE k == i - 1
  <2>0. cols > 0 /\ cols \in Nat BY <1>2
  <2>1. k \in Nat /\ k < N /\ N \in Nat BY <1>1
  <2> HIDE DEF k, N
  <2>a. /\ k \div cols \in Nat /\ k % cols \in Nat /\ k % cols < cols
        /\ k = cols * (k \div cols) + (k % cols)
    BY ONLY <2>0, <2>1, DivMod
  <2>b. k \div cols + 1 <= (N + cols - 1) \div cols BY ONLY <2>0, <2>1, DivBelow
  <2>2. /\ (i - 1) \div cols \in Nat /\ (i - 1) % cols \in Nat /\ (i - 1) % cols < cols
        /\ i - 1 = cols * ((i - 1) \div cols) + ((i - 1) % cols)
    BY <2>a DEF k
  <2>3. (i - 1) \div cols + 1 <= rows
    <3>1. (i - 1) \div cols + 1 <= (N + cols - 1) \div cols BY <2>b DEF k
    <3>2. (N + cols - 1) \div cols \in Int BY <2>0, <2>1
    <3> QED BY <1>4, <2>2, <3>1, <3>2
  <2>4. (row(i) - 1) = (i - 1) \div cols /\ (col(i) - 1) = (i - 1) % cols BY <2>2
  <2> QED BY <1>2, <1>4, <2>2, <2>3, <2>4
<1>6. used \in 1..cols /\ \A i \in 1..N : col(i) <= used
  <2>1. used \in 1..cols BY <1>1, <1>2 DEF Larger
  <2>2. ASSUME NEW i \in 1..N PROVE col(i) <= used
    <3>1. CASE N < cols
      <4>1. i - 1 = cols * (row(i) - 1) + (col(i) - 1) /\ row(i) \in 1..rows /\ col(i) \in 1..cols
        BY <1>5
      <4> HIDE DEF row, col
      <4>r. row(i) - 1 \in Nat BY <1>4, <4>1
      <4>2. cols * (row(i) - 1) \in Nat BY ONLY <1>2, <4>r
      <4>3. col(i) <= i BY <1>1, <4>1, <4>2
      <4>4. used >= N BY <1>1, <3>1 DEF Larger
      <4> QED BY <1>1, <2>1, <4>1, <4>3, <4>4
    <3>2. CASE ~(N < cols)
      <4>1. used = cols BY <3>2
      <4> QED BY <1>2, <1>5, <4>1
    <3> QED BY <3>1, <3>2
  <2> QED BY <2>1, <2>2
<1>7. ASSUME NEW c \in 1..cols
      PROVE  colW[c] \in Nat /\ colW[c] >= gap /\ \A i \in 1..N : col(i) = c => sizes[i].w + gap <= colW[c]
  <2> DEFINE f == [i \in inCol(c) |-> sizes[i].w]
             m == MaxOf({f[i] : i \in inCol(c)})
  <2>1. IsFiniteSet(inCol(c))
    <3>1. IsFiniteSet(1..N) BY <1>1, FS_Interval
    <3> QED BY <1>1, <3>1, FS_Subset
  <2>2. f = [i \in inCol(c) |-> f[i]] /\ \A i \in inCol(c) : f[i] \in Nat /\ f[i] = sizes[i].w BY <1>1
  <2>3. {sizes[i].w : i \in inCol(c)} = {f[i] : i \in inCol(c)} OBVIOUS
  <2>4. colW[c] = m + gap BY <2>3
  <2>5. \A i \in 1..N : col(i) = c => i \in inCol(c) BY <1>1
  <2> HIDE DEF f, colW, inCol, col
  <2>6. m \in Nat /\ \A i \in inCol(c) : f[i] <= m BY <2>1, <2>2, MaxOver
  <2> HIDE DEF m
  <2> QED BY <1>1, <2>2, <2>4, <2>5, <2>6
<1>8. ASSUME NEW r \in 1..rows
      PROVE  rowH[r] \in Nat /\ rowH[r] >= gap /\ \A i \in 1..N : row(i) = r => sizes[i].h + gap <= rowH[r]
  <2> DEFINE f == [i \in inRow(r) |-> sizes[i].h]
             m == MaxOf({f[i] : i \in inRow(r)})
  <2>1. IsFiniteSet(inRow(r))
    <3>1. IsFiniteSet(1..N) BY <1>1, FS_Interval
    <3> QED BY <1>1, <3>1, FS_Subset
  <2>2. f = [i \in inRow(r) |-> f[i]] /\ \A i \in inRow(r) : f[i] \in Nat /\ f[i] = sizes[i].h BY <1>1
  <2>3. {sizes[i].h : i \in inRow(r)} = {f[i] : i \in inRow(r)} OBVIOUS
  <2>4. rowH[r] = m + gap BY <2>3
  <2>5. \A i \in 1..N : row(i) = r => i \in inRow(r) BY <1>1
  <2> HIDE DEF f, rowH, inRow, row, rows
  <2>6. m \in Nat /\ \A i \in inRow(r) : f[i] <= m BY <2>1, <2>2, MaxOver
  <2> HIDE DEF m
  <2> QED BY <1>1, <2>2, <2>4, <2>5, <2>6
<1> HIDE DEF colW, rowH, N, rows
<1>9. /\ \A c \in 1..(cols + 1) : Before(colW, c) \in Nat
      /\ \A c \in 1..cols : \A b \in 1..(cols + 1) : c < b => Before(colW, c) + colW[c] <= Before(colW, b)
  <2>1. \A c \in 1..cols : colW[c] \in Nat BY <1>7
  <2>2. \A c \in 1..(cols + 1) : Before(colW, c) \in Nat BY <1>2, <2>1, Cursor
  <2>3. ASSUME NEW c \in 1..cols, NEW b \in 1..(cols + 1), c < b
        PROVE  Before(colW, c) + colW[c] <= Before(colW, b)
    BY <1>2, <2>1, <2>3, CursorPasses
  <2> QED BY <2>2, <2>3
<1>10. /\ \A r \in 1..(rows + 1) : Before(rowH, r) \in Nat
       /\ \A r \in 1..rows : \A b \in 1..(rows + 1) : r < b => Before(rowH, r) + rowH[r] <= Before(rowH, b)
  <2>1. \A r \in 1..rows : rowH[r] \in Nat BY <1>8
  <2>2. \A r \in 1..(rows + 1) : Before(rowH, r) \in Nat BY <1>4, <2>1, Cursor
  <2>3. ASSUME NEW r \in 1..rows, NEW b \in 1..(rows + 1), r < b
        PROVE  Before(rowH, r) + rowH[r] <= Before(rowH, b)
    BY <1>4, <2>1, <2>3, CursorPasses
  <2> QED BY <2>2, <2>3
<1> HIDE DEF used
<1>11. /\ g.cells = cells /\ g.w = Before(colW, used + 1) - gap /\ g.h = Before(rowH, rows + 1) - gap
  <2> HIDE DEF g, cells
  <2> QED BY <1>3
<1>12. \A i \in 1..N : cells[i].x = Before(colW, col(i)) /\ cells[i].y = Before(rowH, row(i)) BY <1>1
<1> HIDE DEF g, cells, col, row
<1>13. ASSUME NEW i \in 1..N
       PROVE  /\ cells[i].x \in Nat /\ cells[i].y \in Nat
              /\ cells[i].x + sizes[i].w <= g.w /\ cells[i].y + sizes[i].h <= g.h
  <2>1. /\ col(i) \in 1..cols /\ row(i) \in 1..rows /\ col(i) <= used /\ used \in 1..cols
    BY <1>5, <1>6
  <2>2. col(i) \in 1..(cols + 1) /\ row(i) \in 1..(rows + 1) BY <1>2, <1>4, <2>1
  <2>3. cells[i].x \in Nat /\ cells[i].y \in Nat BY <1>9, <1>10, <1>12, <2>2
  <2>4. used + 1 \in 1..(cols + 1) /\ col(i) < used + 1 BY <1>2, <2>1
  <2>5. cells[i].x + colW[col(i)] <= Before(colW, used + 1) /\ Before(colW, used + 1) \in Nat
    BY <1>9, <1>12, <2>1, <2>4
  <2>6. rows + 1 \in 1..(rows + 1) /\ row(i) < rows + 1 BY <1>4, <2>1
  <2>7. cells[i].y + rowH[row(i)] <= Before(rowH, rows + 1) /\ Before(rowH, rows + 1) \in Nat
    BY <1>10, <1>12, <2>1, <2>6
  <2>8. colW[col(i)] \in Nat /\ sizes[i].w + gap <= colW[col(i)] BY <1>7, <2>1
  <2>9. rowH[row(i)] \in Nat /\ sizes[i].h + gap <= rowH[row(i)] BY <1>8, <2>1
  <2>10. sizes[i].w \in Nat /\ sizes[i].h \in Nat BY <1>1
  <2>11. cells[i].x + sizes[i].w <= g.w 
    <3>1. Before(colW, used + 1) \in Int /\ gap \in Nat BY <2>5
    <3> QED BY ONLY <1>11, <2>3, <2>5, <2>8, <2>10, <3>1
  <2>12. cells[i].y + sizes[i].h <= g.h 
    <3>1. Before(rowH, rows + 1) \in Int /\ gap \in Nat BY <2>7
    <3> QED BY ONLY <1>11, <2>3, <2>7, <2>9, <2>10, <3>1
  <2> QED BY <2>3, <2>11, <2>12
<1>14. ASSUME NEW i \in 1..N, NEW j \in 1..N, i # j
       PROVE  Beside(cells[i], sizes[i], cells[j], sizes[j])
  <2>1. ASSUME NEW a \in 1..N, NEW b \in 1..N, col(a) < col(b)
        PROVE  cells[a].x + sizes[a].w <= cells[b].x
    <3>1. col(a) \in 1..cols /\ col(b) \in 1..cols BY <1>5
    <3>2. col(b) \in 1..(cols + 1) BY <1>2, <3>1
    <3>3. cells[a].x + colW[col(a)] <= cells[b].x BY <1>9, <1>12, <2>1, <3>1, <3>2
    <3>4. colW[col(a)] \in Nat /\ sizes[a].w + gap <= colW[col(a)] BY <1>7, <3>1
    <3>5. sizes[a].w \in Nat /\ cells[a].x \in Nat /\ cells[b].x \in Nat BY <1>1, <1>13
    <3>6. gap \in Nat OBVIOUS
    <3> QED BY ONLY <3>3, <3>4, <3>5, <3>6
  <2>2. ASSUME NEW a \in 1..N, NEW b \in 1..N, row(a) < row(b)
        PROVE  cells[a].y + sizes[a].h <= cells[b].y
    <3>1. row(a) \in 1..rows /\ row(b) \in 1..rows BY <1>5
    <3>2. row(b) \in 1..(rows + 1) BY <1>4, <3>1
    <3>3. cells[a].y + rowH[row(a)] <= cells[b].y BY <1>10, <1>12, <2>2, <3>1, <3>2
    <3>4. rowH[row(a)] \in Nat /\ sizes[a].h + gap <= rowH[row(a)] BY <1>8, <3>1
    <3>5. sizes[a].h \in Nat /\ cells[a].y \in Nat /\ cells[b].y \in Nat BY <1>1, <1>13
    <3>6. gap \in Nat OBVIOUS
    <3> QED BY ONLY <3>3, <3>4, <3>5, <3>6
  <2>3. col(i) # col(j) \/ row(i) # row(j)
    <3>1. /\ i - 1 = cols * (row(i) - 1) + (col(i) - 1)
          /\ j - 1 = cols * (row(j) - 1) + (col(j) - 1) BY <1>5
    <3>2. ASSUME col(i) = col(j), row(i) = row(j) PROVE FALSE
      <4>1. i - 1 = j - 1 BY <3>1, <3>2
      <4> QED BY <1>1, <1>14, <4>1
    <3> QED BY <3>2
  <2>4. /\ col(i) \in Nat /\ col(j) \in Nat /\ row(i) \in Nat /\ row(j) \in Nat
    <3>1. \A k \in 1..N : col(k) \in 1..cols /\ row(k) \in 1..rows BY <1>5
    <3>2. cols \in Nat /\ rows \in Nat BY <1>2, <1>4
    <3> QED BY <3>1, <3>2
  <2>5. col(i) < col(j) \/ col(j) < col(i) \/ row(i) < row(j) \/ row(j) < row(i) BY <2>3, <2>4
  <2> QED BY <2>1, <2>2, <2>5 DEF Beside
<1>15. g.w \in Nat /\ g.h \in Nat
  <2>1. 1 \in 1..cols /\ used + 1 \in 1..(cols + 1) /\ 1 < used + 1 /\ 1 \in 1..(cols + 1)
    BY <1>2, <1>6
  <2>2. /\ Before(colW, 1) + colW[1] <= Before(colW, used + 1) /\ Before(colW, 1) \in Nat
        /\ Before(colW, used + 1) \in Nat /\ colW[1] \in Nat /\ colW[1] >= gap
    BY <1>7, <1>9, <2>1
  <2>3. 1 \in 1..rows /\ rows + 1 \in 1..(rows + 1) /\ 1 < rows + 1 /\ 1 \in 1..(rows + 1)
    BY <1>4
  <2>4. /\ Before(rowH, 1) + rowH[1] <= Before(rowH, rows + 1) /\ Before(rowH, 1) \in Nat
        /\ Before(rowH, rows + 1) \in Nat /\ rowH[1] \in Nat /\ rowH[1] >= gap
    BY <1>8, <1>10, <2>3
  <2>5. gap \in Nat OBVIOUS
  <2> QED BY ONLY <1>11, <2>2, <2>4, <2>5
<1>16. Packed(cells, sizes) BY <1>1, <1>13, <1>14 DEF Packed
<1> QED BY <1>1, <1>11, <1>13, <1>15, <1>16 DEF g

(* Items in a row of a container come one after the other, and one that    *)
(* spans every column has the row to itself.                               *)
LEMMA SlotsPlaced ==
    ASSUME NEW spans, IsSequence(spans), NEW columns \in Nat,
           \A i \in DOMAIN spans : spans[i] \in Nat /\ 1 <= spans[i] /\ spans[i] <= columns
    PROVE  LET s == AutoPlace(spans, columns)
           IN  /\ \A i \in DOMAIN spans : /\ s[i].col \in Nat
                                          /\ s[i].row \in Nat /\ 1 <= s[i].row /\ s[i].row <= Len(spans)
               /\ \A i, j \in DOMAIN spans : i < j =>
                    \/ s[i].row < s[j].row
                    \/ /\ s[i].row = s[j].row /\ s[i].col + spans[i] <= s[j].col
                       /\ spans[i] < columns
<1> DEFINE N == Len(spans)
           V == [col : Nat, row : Nat, next : Nat]
           a == [col |-> 0, row |-> 1, next |-> 0]
           wraps(n, p) == p.next > 0 /\ p.next + spans[n] > columns
           col(n, p) == IF wraps(n, p) THEN 0 ELSE p.next
           Body(n, p) == [col |-> col(n, p), row |-> IF wraps(n, p) THEN p.row + 1 ELSE p.row,
                          next |-> col(n, p) + spans[n]]
           F == [q \in (1..N) \X V |-> Body(q[1], q[2])]
           Run(w) == w = [i \in 0..Len(spans) |->
              IF i = 0 THEN [col |-> 0, row |-> 1, next |-> 0]
              ELSE LET prev == w[i - 1]
                       wr == prev.next > 0 /\ prev.next + spans[i] > columns
                       cl == IF wr THEN 0 ELSE prev.next
                   IN  [col |-> cl, row |-> IF wr THEN prev.row + 1 ELSE prev.row,
                        next |-> cl + spans[i]]]
           r == CHOOSE w : Run(w)
<1>1. N \in Nat /\ DOMAIN spans = 1..N BY RangeFinite
<1>2. \A i \in 1..N : spans[i] \in Nat /\ 1 <= spans[i] /\ spans[i] <= columns BY <1>1
<1>3. ASSUME NEW n \in 1..N, NEW p \in V PROVE Body(n, p) \in V BY <1>2
<1>4. AutoPlace(spans, columns) = [i \in DOMAIN spans |-> r[i]] BY DEF AutoPlace
<1>5. ASSUME NEW w
      PROVE  Run(w) <=> w = [n \in 0..N |-> IF n = 0 THEN a ELSE Body(n, w[n - 1])]
  OBVIOUS
<1>6. a \in V OBVIOUS
<1> HIDE DEF N, Run, Body, V, a
<1>7. PICK g \in [0..N -> V] : IsLoop(g, N, a, F)
  <2>1. F \in [(1..N) \X V -> V] BY <1>3
  <2> HIDE DEF F
  <2> QED BY <1>1, <1>6, <2>1, Loop
<1>8. ASSUME NEW n \in 1..N PROVE g[n] = Body(n, g[n - 1])
  <2>1. n - 1 \in 0..N BY <1>1
  <2>2. g[n - 1] \in V BY <2>1
  <2> HIDE DEF F
  <2>3. g[n] = F[n, g[n - 1]] BY <1>7, Zenon DEF IsLoop
  <2> QED BY <2>2, <2>3, Zenon DEF F
<1>9. Run(r)
  <2>1. g = [n \in 0..N |-> IF n = 0 THEN a ELSE Body(n, g[n - 1])]
    <3>1. g = [n \in 0..N |-> g[n]] OBVIOUS
    <3>2. g[0] = a BY <1>7, Zenon DEF IsLoop
    <3>3. \A n \in 0..N : n # 0 => n \in 1..N BY <1>1
    <3> HIDE DEF F
    <3> QED BY <1>8, <3>1, <3>2, <3>3
  <2>2. Run(g) BY <1>5, <2>1
  <2> QED BY <2>2
<1> HIDE DEF r, F
<1>10. r[0] = a /\ \A n \in 1..N : r[n] = Body(n, r[n - 1])
  <2>1. r = [n \in 0..N |-> IF n = 0 THEN a ELSE Body(n, r[n - 1])] BY <1>5, <1>9
  <2>2. 0 \in 0..N /\ \A n \in 1..N : n \in 0..N /\ n # 0 BY <1>1
  <2> QED BY <2>1, <2>2
<1> DEFINE Typed(n) == /\ r[n].col \in Nat /\ r[n].row \in Nat /\ r[n].next \in Nat
                       /\ 1 <= r[n].row /\ (n > 0 => r[n].next > 0)
                       /\ (n > 0 => r[n].row <= n) /\ (n = 0 => r[n].row = 1 /\ r[n].next = 0)
           After(i, n) == \/ r[i].row < r[n].row
                          \/ /\ r[i].row = r[n].row /\ r[i].next <= r[n].next
                             /\ i < n => r[i].next <= r[n].col /\ spans[i] < columns
           Ends(n) == n > 0 => r[n].next = r[n].col + spans[n]
           T == {n \in 0..N : Typed(n) /\ Ends(n) /\ \A i \in 1..n : After(i, n) /\ Typed(i) /\ Ends(i)}
<1>11. 0 \in T
  <2>1. r[0].col = 0 /\ r[0].row = 1 /\ r[0].next = 0 BY <1>10 DEF a
  <2>2. 0 \in 0..N /\ 1..0 = {} BY <1>1
  <2> QED BY <2>1, <2>2
<1>12. ASSUME NEW n \in 1..N, n - 1 \in T PROVE n \in T
  <2> DEFINE p == r[n - 1]
             q == r[n]
             sp == spans[n]
  <2>1. /\ p.col \in Nat /\ p.row \in Nat /\ p.next \in Nat /\ 1 <= p.row
        /\ (n - 1 > 0 => p.next > 0 /\ p.row <= n - 1) /\ (n - 1 = 0 => p.row = 1 /\ p.next = 0)
        /\ n \in Nat /\ n > 0
    BY <1>1, <1>12
  <2>2. sp \in Nat /\ 1 <= sp /\ sp <= columns BY <1>2
  <2>3. q = [col |-> col(n, p), row |-> IF wraps(n, p) THEN p.row + 1 ELSE p.row,
             next |-> col(n, p) + sp]
    BY <1>10 DEF Body
  <2>4. q.col = col(n, p) /\ q.row = (IF wraps(n, p) THEN p.row + 1 ELSE p.row)
        /\ q.next = col(n, p) + sp
    BY <2>3
  <2>5. \A i \in 1..n : i = n \/ i \in 1..(n - 1) BY <1>1
  <2>6. \A i \in 1..(n - 1) : After(i, n - 1) /\ Typed(i) /\ Ends(i) /\ i < n /\ i > 0
    BY <1>1, <1>12
  <2> HIDE DEF p, q, sp
  <2>7. /\ q.col \in Nat /\ q.row \in Nat /\ q.next \in Nat /\ 1 <= q.row /\ q.next > 0
        /\ q.next = q.col + sp /\ q.row <= n
    BY <2>1, <2>2, <2>4 DEF sp
  <2>8. Typed(n) /\ Ends(n) /\ n \in 0..N BY <1>1, <2>1, <2>7 DEF q, sp
  <2>9. ASSUME NEW i \in 1..(n - 1) PROVE After(i, n)
    <3> DEFINE u == r[i]
               si == spans[i]
    <3>1. /\ u.row < p.row \/ (u.row = p.row /\ u.next <= p.next)
          /\ u.col \in Nat /\ u.row \in Nat /\ u.next \in Nat /\ u.next = u.col + si
      BY <2>6 DEF p
    <3>2. i \in 1..N /\ i < n /\ si \in Nat
      <4>1. i \in 1..N /\ i < n BY <1>1
      <4> QED BY <1>2, <4>1
    <3> HIDE DEF u, si
    <3>3. \/ u.row < q.row
          \/ u.row = q.row /\ u.next <= q.next /\ u.next <= q.col /\ si < columns
      <4> DEFINE uR == u.row
                 uN == u.next
                 pR == p.row
                 pN == p.next
                 qR == q.row
                 qN == q.next
                 qC == q.col
      <4>a. /\ uR < pR \/ (uR = pR /\ uN <= pN)
            /\ uR \in Nat /\ uN \in Nat /\ u.col \in Nat /\ uN = u.col + si
        BY ONLY <3>1
      <4>b. pR \in Nat /\ pN \in Nat BY ONLY <2>1
      <4>c. qR \in Nat /\ qN \in Nat /\ qC \in Nat /\ qN = qC + sp BY ONLY <2>7
      <4> HIDE DEF uR, uN, pR, pN, qR, qN, qC
      <4>1. CASE wraps(n, p)
        <5>1. qR = pR + 1 BY <2>4, <4>1 DEF qR, pR
        <5>2. uR < qR BY ONLY <4>a, <4>b, <5>1
        <5> QED BY ONLY <5>2 DEF uR, qR
      <4>2. CASE ~wraps(n, p)
        <5>1. qR = pR /\ qC = pN BY <2>4, <4>2 DEF qR, pR, qC, pN
        <5>2. n - 1 > 0 BY <1>1, <3>2
        <5>3. pN + sp <= columns BY <2>1, <2>2, <4>2, <5>2 DEF sp, pN
        <5>7. uR < qR \/ (uR = qR /\ uN <= qC) BY ONLY <4>a, <5>1
        <5>8. uN <= qC => uN <= qN BY ONLY <2>2, <4>a, <4>c
        <5>4. uR < qR \/ (uR = qR /\ uN <= qN /\ uN <= qC) BY ONLY <5>7, <5>8
        <5>5. uN <= pN => si < columns
          BY ONLY <2>2, <3>2, <4>a, <4>b, <5>3
        <5>6. uR < qR \/ si < columns BY ONLY <4>a, <5>1, <5>5
        <5> QED BY ONLY <5>4, <5>6 DEF uR, uN, qR, qN, qC
      <4> QED BY <4>1, <4>2
    <3> QED BY <3>3 DEF u, si, q
  <2>10. After(n, n) BY <2>7 DEF q
  <2>11. ASSUME NEW i \in 1..n PROVE After(i, n) /\ Typed(i) /\ Ends(i)
    <3> HIDE DEF After, Typed, Ends
    <3> QED BY <2>5, <2>6, <2>8, <2>9, <2>10
  <2> QED BY <2>8, <2>11
<1>13. \A n \in 0..N : n \in T
  <2> HIDE DEF T
  <2> QED BY <1>1, <1>11, <1>12, UpTo
<1> DEFINE s == AutoPlace(spans, columns)
<1>14. \A i \in 1..N : s[i] = r[i] /\ i \in 0..N /\ i > 0 BY <1>1, <1>4
<1> HIDE DEF s
<1>15. ASSUME NEW i \in 1..N
       PROVE  s[i].col \in Nat /\ s[i].row \in Nat /\ 1 <= s[i].row /\ s[i].row <= N
  <2>1. Typed(i) /\ i > 0 /\ s[i] = r[i] BY <1>13, <1>14
  <2> QED BY <1>1, <2>1
<1>16. ASSUME NEW i \in 1..N, NEW j \in 1..N, i < j
       PROVE  \/ s[i].row < s[j].row
              \/ /\ s[i].row = s[j].row /\ s[i].col + spans[i] <= s[j].col
                 /\ spans[i] < columns
  <2>1. i \in 1..j BY <1>16
  <2>2. After(i, j) /\ Ends(i) /\ i > 0 BY <1>13, <1>14, <2>1
  <2>3. s[i] = r[i] /\ s[j] = r[j] BY <1>14
  <2> QED BY <1>16, <2>2, <2>3
<1> QED BY <1>1, <1>15, <1>16 DEF s, N
(* The cells of a container hold their items up to its reach and depth.    *)
LEMMA ReachHolds ==
    ASSUME NEW sizes, Sized(sizes), NEW cells, Packed(cells, sizes)
    PROVE  /\ Reach(cells, sizes) \in Nat /\ Depth(cells, sizes) \in Nat
           /\ \A i \in DOMAIN sizes : /\ cells[i].x + sizes[i].w <= Reach(cells, sizes)
                                      /\ cells[i].y + sizes[i].h <= Depth(cells, sizes)
<1> DEFINE D == DOMAIN sizes
           f == [i \in D |-> cells[i].x + sizes[i].w]
           g == [i \in D |-> cells[i].y + sizes[i].h]
<1>1. IsFiniteSet(D)
  <2>1. Len(sizes) \in Nat /\ D = 1..Len(sizes) BY RangeFinite DEF Sized
  <2> HIDE DEF D
  <2> QED BY <2>1, FS_Interval
<1>2. \A i \in D : /\ cells[i].x \in Nat /\ cells[i].y \in Nat
                   /\ sizes[i].w \in Nat /\ sizes[i].h \in Nat
  BY DEF Packed, Sized
<1>3. Reach(cells, sizes) = MaxOf({f[i] : i \in D})
  <2>1. {cells[i].x + sizes[i].w : i \in D} = {f[i] : i \in D} OBVIOUS
  <2> HIDE DEF f
  <2> QED BY <2>1 DEF Reach
<1>4. Depth(cells, sizes) = MaxOf({g[i] : i \in D})
  <2>1. {cells[i].y + sizes[i].h : i \in D} = {g[i] : i \in D} OBVIOUS
  <2> HIDE DEF g
  <2> QED BY <2>1 DEF Depth
<1> HIDE DEF D
<1>5. \A i \in D : /\ f[i] = cells[i].x + sizes[i].w /\ g[i] = cells[i].y + sizes[i].h
                   /\ f[i] \in Nat /\ g[i] \in Nat
  BY <1>2
<1>6. f = [i \in D |-> f[i]] /\ g = [i \in D |-> g[i]] OBVIOUS
<1> HIDE DEF f, g
<1>7. Reach(cells, sizes) \in Nat /\ \A i \in D : f[i] <= Reach(cells, sizes)
  BY <1>1, <1>3, <1>5, <1>6, MaxOver
<1>8. Depth(cells, sizes) \in Nat /\ \A i \in D : g[i] <= Depth(cells, sizes)
  BY <1>1, <1>4, <1>5, <1>6, MaxOver
<1> QED BY <1>5, <1>7, <1>8 DEF D

(* Rows of spanning items are packed, when an item that does not span all  *)
(* columns is no wider than the columns it spans.                          *)
LEMMA BlockPacked ==
    ASSUME NEW items, Sized(items), NEW columns \in Nat, NEW pitch \in Nat,
           \A i \in DOMAIN items :
             /\ items[i].span \in Nat /\ 1 <= items[i].span /\ items[i].span <= columns
             /\ items[i].span < columns => items[i].w <= items[i].span * pitch
    PROVE  Packed(BlockCells(items, columns, pitch), items)
<1> DEFINE N == Len(items)
           spans == [i \in DOMAIN items |-> items[i].span]
           slots == AutoPlace(spans, columns)
           inRow(r) == {j \in DOMAIN items : slots[j].row = r}
           rowH == [r \in 1..Len(items) |-> MaxOf({items[i].h : i \in inRow(r)}) + BlockGap]
           cells == BlockCells(items, columns, pitch)
<1>1. N \in Nat /\ DOMAIN items = 1..N BY RangeFinite DEF Sized
<1>2. \A i \in 1..N : items[i].w \in Nat /\ items[i].h \in Nat BY <1>1 DEF Sized
<1>3. cells = [i \in DOMAIN items |-> [x |-> slots[i].col * pitch, y |-> Before(rowH, slots[i].row)]]
  BY DEF BlockCells
<1>4. IsSequence(spans) /\ DOMAIN spans = 1..N /\ Len(spans) = N
      /\ \A i \in 1..N : spans[i] = items[i].span
  <2>1. spans = [i \in 1..N |-> items[i].span] /\ DOMAIN spans = 1..N BY <1>1
  <2>2. \A i \in 1..N : spans[i] = items[i].span BY <2>1
  <2> HIDE DEF spans
  <2>3. \A i \in 1..N : spans[i] \in Range(spans) BY <2>1 DEF Range
  <2>4. spans = [i \in 1..N |-> spans[i]] BY <2>1
  <2>5. spans \in Seq(Range(spans)) BY <1>1, <2>3, <2>4, IsASeq
  <2>6. Len(spans) = N BY <1>1, <2>1, <2>5, LenProperties
  <2> QED BY <2>1, <2>2, <2>5, <2>6 DEF IsSequence
<1>5. \A i \in DOMAIN spans : spans[i] \in Nat /\ 1 <= spans[i] /\ spans[i] <= columns BY <1>1, <1>4
<1> HIDE DEF cells, N, spans
<1>6. /\ \A i \in 1..N : /\ slots[i].col \in Nat
                         /\ slots[i].row \in Nat /\ 1 <= slots[i].row /\ slots[i].row <= N
      /\ \A i, j \in 1..N : i < j =>
           \/ slots[i].row < slots[j].row
           \/ /\ slots[i].row = slots[j].row /\ slots[i].col + spans[i] <= slots[j].col
              /\ spans[i] < columns
  BY <1>4, <1>5, SlotsPlaced
<1> HIDE DEF slots
<1>7. ASSUME NEW r \in 1..N
      PROVE  rowH[r] \in Nat /\ \A i \in 1..N : slots[i].row = r => items[i].h <= rowH[r]
  <2> DEFINE f == [i \in inRow(r) |-> items[i].h]
             m == MaxOf({f[i] : i \in inRow(r)})
  <2>1. IsFiniteSet(inRow(r))
    <3>1. IsFiniteSet(1..N) BY <1>1, FS_Interval
    <3> QED BY <1>1, <3>1, FS_Subset
  <2>2. f = [i \in inRow(r) |-> f[i]] /\ \A i \in inRow(r) : f[i] \in Nat /\ f[i] = items[i].h
    BY <1>1, <1>2
  <2>3. {items[i].h : i \in inRow(r)} = {f[i] : i \in inRow(r)} OBVIOUS
  <2>4. rowH[r] = m + BlockGap BY <2>3 DEF N
  <2>5. \A i \in 1..N : slots[i].row = r => i \in inRow(r) BY <1>1
  <2> HIDE DEF f, rowH, inRow
  <2>6. m \in Nat /\ \A i \in inRow(r) : f[i] <= m BY <2>1, <2>2, MaxOver
  <2> HIDE DEF m
  <2> QED BY <1>2, <2>2, <2>4, <2>5, <2>6 DEF BlockGap
<1> HIDE DEF rowH
<1>8. /\ \A r \in 1..(N + 1) : Before(rowH, r) \in Nat
      /\ \A r \in 1..N : \A b \in 1..(N + 1) : r < b => Before(rowH, r) + rowH[r] <= Before(rowH, b)
  <2>1. \A r \in 1..N : rowH[r] \in Nat BY <1>7
  <2>2. \A r \in 1..(N + 1) : Before(rowH, r) \in Nat BY <1>1, <2>1, Cursor
  <2>3. ASSUME NEW r \in 1..N, NEW b \in 1..(N + 1), r < b
        PROVE  Before(rowH, r) + rowH[r] <= Before(rowH, b)
    BY <1>1, <2>1, <2>3, CursorPasses
  <2> QED BY <2>2, <2>3
<1>9. \A i \in 1..N : cells[i].x = slots[i].col * pitch /\ cells[i].y = Before(rowH, slots[i].row)
  BY <1>1, <1>3
<1>10. \A i \in 1..N : slots[i].row \in 1..N /\ slots[i].row \in 1..(N + 1) BY <1>1, <1>6
<1>11. ASSUME NEW i \in 1..N PROVE cells[i].x \in Nat /\ cells[i].y \in Nat
  <2>1. slots[i].col * pitch \in Nat
    <3>1. slots[i].col \in Nat BY <1>6
    <3> QED BY ONLY <3>1, pitch \in Nat, StepsFurther
  <2> QED BY <1>8, <1>9, <1>10, <2>1
<1>12. ASSUME NEW i \in 1..N, NEW j \in 1..N, i < j
       PROVE  cells[i].x + items[i].w <= cells[j].x \/ cells[i].y + items[i].h <= cells[j].y
  <2>1. CASE slots[i].row < slots[j].row
    <3>1. cells[i].y + rowH[slots[i].row] <= cells[j].y BY <1>8, <1>9, <1>10, <2>1
    <3>2. rowH[slots[i].row] \in Nat /\ items[i].h <= rowH[slots[i].row] BY <1>7, <1>10
    <3>3. items[i].h \in Nat /\ cells[i].y \in Nat /\ cells[j].y \in Nat BY <1>2, <1>11
    <3> QED BY ONLY <3>1, <3>2, <3>3
  <2>2. CASE slots[i].col + spans[i] <= slots[j].col /\ spans[i] < columns
    <3> DEFINE a == slots[i].col
               b == slots[j].col
               sp == spans[i]
    <3>1. a \in Nat /\ b \in Nat /\ sp \in Nat /\ a + sp <= b BY <1>4, <1>5, <1>6, <2>2
    <3>2. items[i].w <= sp * pitch /\ items[i].w \in Nat BY <1>1, <1>2, <1>4, <2>2
    <3> HIDE DEF a, b, sp
    <3>3. PICK k \in Nat : b = (a + sp) + k
      <4>1. b - (a + sp) \in Nat /\ b = (a + sp) + (b - (a + sp)) BY ONLY <3>1
      <4> QED BY ONLY <4>1
    <3>4. a * pitch + sp * pitch <= b * pitch
      <4>1. b * pitch = a * pitch + sp * pitch + k * pitch BY ONLY <3>1, <3>3, pitch \in Nat
      <4>2. a * pitch \in Nat /\ sp * pitch \in Nat /\ k * pitch \in Nat
        BY ONLY <3>1, <3>3, pitch \in Nat, StepsFurther
      <4> DEFINE u == a * pitch
                 v == sp * pitch
                 t == k * pitch
      <4>3. b * pitch = u + v + t /\ u \in Nat /\ v \in Nat /\ t \in Nat BY ONLY <4>1, <4>2
      <4> HIDE DEF u, v, t
      <4>4. u + v <= b * pitch BY ONLY <4>3
      <4> QED BY ONLY <4>4 DEF u, v
    <3>5. cells[i].x = a * pitch /\ cells[j].x = b * pitch BY <1>9 DEF a, b
    <3>6. a * pitch \in Nat /\ b * pitch \in Nat /\ sp * pitch \in Nat
      BY ONLY <3>1, pitch \in Nat, StepsFurther
    <3> DEFINE u == a * pitch
               v == sp * pitch
               t == b * pitch
    <3>7. /\ u + v <= t /\ items[i].w <= v /\ cells[i].x = u /\ cells[j].x = t
          /\ u \in Nat /\ v \in Nat /\ t \in Nat
      BY ONLY <3>2, <3>4, <3>5, <3>6
    <3> HIDE DEF u, v, t
    <3> QED BY ONLY <3>2, <3>7
  <2> QED BY <1>6, <1>12, <2>1, <2>2
<1>13. ASSUME NEW i \in 1..N, NEW j \in 1..N, i # j
       PROVE  Beside(cells[i], items[i], cells[j], items[j])
  <2>1. i < j \/ j < i BY <1>13
  <2> QED BY <1>12, <2>1 DEF Beside
<1> QED BY <1>1, <1>11, <1>13 DEF Packed, cells

(* A drawing fits when the items of every group are packed in its room.    *)
LEMMA ArrangedFit ==
    ASSUME NEW els, Nested(els), NEW shown, shown \subseteq Elements(els),
           \A e \in shown : e.parent # Root => Element(els, e.parent) \in shown,
           NEW size, \A e \in Elements(els) : size[e].w \in Nat /\ size[e].h \in Nat,
           NEW pad \in Nat, NEW header \in Nat, NEW list, NEW cells, NEW cell,
           \A e \in shown :
             /\ Lists(list[e.parent], {f \in Elements(els) : f.parent = e.parent})
             /\ Packed(cells[e.parent], Inner(size, list[e.parent]))
             /\ cell[e] = cells[e.parent][NthOf(list[e.parent], e)],
           \A e \in shown : e.parent # Root =>
             LET p == Element(els, e.parent)
             IN  \A i \in DOMAIN list[e.parent] :
                   /\ (pad + cells[e.parent][i].x) + size[list[e.parent][i]].w <= size[p].w
                   /\ (header + cells[e.parent][i].y) + size[list[e.parent][i]].h <= size[p].h
    PROVE  Fit(els, shown, size, cell, pad, header)
<1> DEFINE nth(e) == NthOf(list[e.parent], e)
           in(e) == {f \in Elements(els) : f.parent = e.parent}
<1>1. ASSUME NEW e \in shown
      PROVE  /\ nth(e) \in DOMAIN list[e.parent] /\ list[e.parent][nth(e)] = e
             /\ cell[e] = cells[e.parent][nth(e)]
             /\ nth(e) \in DOMAIN Inner(size, list[e.parent])
             /\ Inner(size, list[e.parent])[nth(e)] = size[e]
  <2>1. Lists(list[e.parent], in(e)) /\ e \in in(e) OBVIOUS
  <2>2. nth(e) \in DOMAIN list[e.parent] /\ list[e.parent][nth(e)] = e
    <3> HIDE DEF in
    <3> QED BY <2>1, ListFacts
  <2> HIDE DEF nth
  <2>3. nth(e) \in DOMAIN Inner(size, list[e.parent]) /\ Inner(size, list[e.parent])[nth(e)] = size[e]
    BY <2>2 DEF Inner
  <2> QED BY <2>2, <2>3 DEF nth
<1> HIDE DEF nth
<1>2. ASSUME NEW e \in shown
      PROVE  {cell[e].x, cell[e].y, size[e].w, size[e].h} \subseteq Nat
  <2>1. Packed(cells[e.parent], Inner(size, list[e.parent])) OBVIOUS
  <2>2. cells[e.parent][nth(e)].x \in Nat /\ cells[e.parent][nth(e)].y \in Nat
    BY ONLY <1>1, <2>1 DEF Packed
  <2>3. cell[e] = cells[e.parent][nth(e)] BY <1>1
  <2>4. size[e].w \in Nat /\ size[e].h \in Nat OBVIOUS
  <2> QED BY ONLY <2>2, <2>3, <2>4
<1>3. ASSUME NEW e \in shown, NEW f \in shown, e # f, e.parent = f.parent
      PROVE  Beside(cell[e], size[e], cell[f], size[f])
  <2>1. nth(e) # nth(f) BY <1>1, <1>3
  <2>2. /\ nth(e) \in DOMAIN Inner(size, list[e.parent]) /\ Inner(size, list[e.parent])[nth(e)] = size[e]
        /\ nth(f) \in DOMAIN Inner(size, list[e.parent]) /\ Inner(size, list[e.parent])[nth(f)] = size[f]
        /\ cell[e] = cells[e.parent][nth(e)] /\ cell[f] = cells[e.parent][nth(f)]
    BY <1>1, <1>3
  <2>3. Packed(cells[e.parent], Inner(size, list[e.parent])) OBVIOUS
  <2>4. Beside(cells[e.parent][nth(e)], Inner(size, list[e.parent])[nth(e)],
               cells[e.parent][nth(f)], Inner(size, list[e.parent])[nth(f)])
    BY ONLY <2>1, <2>2, <2>3 DEF Packed
  <2> QED BY ONLY <2>2, <2>4
<1>4. ASSUME NEW e \in shown, e.parent # Root
      PROVE  LET p == Element(els, e.parent)
             IN  /\ (pad + cell[e].x) + size[e].w <= size[p].w
                 /\ (header + cell[e].y) + size[e].h <= size[p].h
  BY <1>1, <1>4
<1> QED BY <1>2, <1>3, <1>4 DEF Fit
(* On shelves, a box is to the right of those before it on its shelf, and  *)
(* under all those of the shelves above, whatever makes a shelf full.      *)
LEMMA ShelvesPacked ==
    ASSUME NEW sizes, Sized(sizes), NEW cols, NEW budget, NEW gap \in Nat, NEW rowGap \in Nat
    PROVE  Packed(Shelves(sizes, cols, budget, gap, rowGap), sizes)
<1> DEFINE N == Len(sizes)
           V == [x : Nat, y : Nat, h : Nat, next : Nat]
           a == [x |-> 0, y |-> 0, h |-> 0, next |-> 0]
           wraps(n, p) == /\ n > 1
                          /\ \/ (n - 1) % cols = 0
                             \/ budget > 0 /\ p.next + sizes[n].w > budget
           x(n, p) == IF wraps(n, p) THEN 0 ELSE p.next
           Body(n, p) == [x |-> x(n, p),
                          y |-> IF wraps(n, p) THEN p.y + p.h + rowGap ELSE p.y,
                          h |-> Larger(IF wraps(n, p) THEN 0 ELSE p.h, sizes[n].h),
                          next |-> x(n, p) + sizes[n].w + gap]
           F == [q \in (1..N) \X V |-> Body(q[1], q[2])]
           Run(w) == w = [n \in 0..Len(sizes) |->
              IF n = 0 THEN [x |-> 0, y |-> 0, h |-> 0, next |-> 0]
              ELSE LET prev == w[n - 1]
                       wr == /\ n > 1
                             /\ \/ (n - 1) % cols = 0
                                \/ budget > 0 /\ prev.next + sizes[n].w > budget
                       xx == IF wr THEN 0 ELSE prev.next
                   IN  [x |-> xx, y |-> IF wr THEN prev.y + prev.h + rowGap ELSE prev.y,
                        h |-> Larger(IF wr THEN 0 ELSE prev.h, sizes[n].h),
                        next |-> xx + sizes[n].w + gap]]
           r == CHOOSE w : Run(w)
<1>1. N \in Nat /\ DOMAIN sizes = 1..N BY RangeFinite DEF Sized
<1>2. \A n \in 1..N : sizes[n].w \in Nat /\ sizes[n].h \in Nat BY <1>1 DEF Sized
<1>3. Shelves(sizes, cols, budget, gap, rowGap) = [i \in DOMAIN sizes |-> r[i]] BY DEF Shelves
<1>4. ASSUME NEW w
      PROVE  Run(w) <=> w = [n \in 0..N |-> IF n = 0 THEN a ELSE Body(n, w[n - 1])]
  OBVIOUS
<1> HIDE DEF Run, wraps
<1>5. ASSUME NEW n \in 1..N, NEW p \in V PROVE Body(n, p) \in V
  <2>1. sizes[n].w \in Nat /\ sizes[n].h \in Nat BY <1>2
  <2>2. p.x \in Nat /\ p.y \in Nat /\ p.h \in Nat /\ p.next \in Nat OBVIOUS
  <2>3. x(n, p) \in Nat BY <2>2
  <2>4. x(n, p) + sizes[n].w + gap \in Nat
    <3> HIDE DEF x
    <3>1. gap \in Nat OBVIOUS
    <3> QED BY ONLY <2>1, <2>3, <3>1
  <2>5. (IF wraps(n, p) THEN p.y + p.h + rowGap ELSE p.y) \in Nat BY <2>2
  <2>6. Larger(IF wraps(n, p) THEN 0 ELSE p.h, sizes[n].h) \in Nat BY <2>1, <2>2 DEF Larger
  <2> QED BY <2>3, <2>4, <2>5, <2>6
<1>6. a \in V OBVIOUS
<1> HIDE DEF N, Body, V, a
<1>7. PICK g \in [0..N -> V] : IsLoop(g, N, a, F)
  <2>1. F \in [(1..N) \X V -> V] BY <1>5
  <2> HIDE DEF F
  <2> QED BY <1>1, <1>6, <2>1, Loop
<1>8. ASSUME NEW n \in 1..N PROVE g[n] = Body(n, g[n - 1])
  <2>1. n - 1 \in 0..N BY <1>1
  <2>2. g[n - 1] \in V BY <2>1
  <2> HIDE DEF F
  <2>3. g[n] = F[n, g[n - 1]] BY <1>7, Zenon DEF IsLoop
  <2> QED BY <2>2, <2>3, Zenon DEF F
<1>9. Run(r)
  <2>1. g = [n \in 0..N |-> IF n = 0 THEN a ELSE Body(n, g[n - 1])]
    <3>1. g = [n \in 0..N |-> g[n]] OBVIOUS
    <3>2. g[0] = a BY <1>7, Zenon DEF IsLoop
    <3>3. \A n \in 0..N : n # 0 => n \in 1..N BY <1>1
    <3> HIDE DEF F
    <3> QED BY <1>8, <3>1, <3>2, <3>3
  <2>2. Run(g) BY <1>4, <2>1
  <2> QED BY <2>2
<1> HIDE DEF r, F
<1>10. r[0] = a /\ \A n \in 1..N : r[n] = Body(n, r[n - 1])
  <2>1. r = [n \in 0..N |-> IF n = 0 THEN a ELSE Body(n, r[n - 1])] BY <1>4, <1>9
  <2>2. 0 \in 0..N /\ \A n \in 1..N : n \in 0..N /\ n # 0 BY <1>1
  <2> QED BY <2>1, <2>2
<1> DEFINE Typed(n) == r[n].x \in Nat /\ r[n].y \in Nat /\ r[n].h \in Nat /\ r[n].next \in Nat
           Held(i, n) == /\ r[i].y + sizes[i].h <= r[n].y + r[n].h
                         /\ \/ r[i].x + sizes[i].w <= r[n].next
                            \/ r[i].y + sizes[i].h <= r[n].y
           Past(i, n) == \/ r[i].x + sizes[i].w <= r[n].x
                         \/ r[i].y + sizes[i].h <= r[n].y
           T == {n \in 0..N : /\ Typed(n) /\ \A i \in 1..n : Typed(i) /\ Held(i, n)
                              /\ \A i \in 1..(n - 1) : Past(i, n)}
<1>11. 0 \in T
  <2>1. r[0].x = 0 /\ r[0].y = 0 /\ r[0].h = 0 /\ r[0].next = 0 BY <1>10 DEF a
  <2>2. 0 \in 0..N /\ 1..0 = {} /\ 1..(0 - 1) = {} BY <1>1
  <2> QED BY <2>1, <2>2
<1>12. ASSUME NEW n \in 1..N, n - 1 \in T PROVE n \in T
  <2> DEFINE pY == r[n - 1].y
             pH == r[n - 1].h
             pN == r[n - 1].next
             qX == r[n].x
             qY == r[n].y
             qH == r[n].h
             qN == r[n].next
             sw == sizes[n].w
             sh == sizes[n].h
             wr == wraps(n, r[n - 1])
  <2>1. pY \in Nat /\ pH \in Nat /\ pN \in Nat BY <1>12
  <2>2. sw \in Nat /\ sh \in Nat BY <1>2
  <2>3. r[n] = Body(n, r[n - 1]) BY <1>10
  <2>4. /\ qX = (IF wr THEN 0 ELSE pN) /\ qY = (IF wr THEN pY + pH + rowGap ELSE pY)
        /\ qH = Larger(IF wr THEN 0 ELSE pH, sh) /\ qN = qX + sw + gap
    BY <2>3 DEF Body
  <2>5. \A i \in 1..(n - 1) : Typed(i) /\ Held(i, n - 1) BY <1>12
  <2>6. \A i \in 1..n : i = n \/ i \in 1..(n - 1) BY <1>1
  <2>7. n \in 0..N /\ \A i \in 1..(n - 1) : i \in 1..N BY <1>1
  <2> HIDE DEF wr
  <2>8. qX \in Nat /\ qY \in Nat /\ sh <= qH /\ qH \in Nat /\ qN = qX + sw + gap
    <3> HIDE DEF pY, pH, pN, qX, qY, qH, qN, sw, sh
    <3> QED BY <2>1, <2>2, <2>4 DEF Larger
  <2>9. Typed(n) /\ Held(n, n)
    <3>1. qN \in Nat BY <2>2, <2>8
    <3>2. qY + sh <= qY + qH /\ qX + sw <= qN
      <4> HIDE DEF qX, qY, qH, qN, sw, sh
      <4> QED BY <2>2, <2>8
    <3> QED BY <2>8, <3>1, <3>2
  <2>10. ASSUME NEW i \in 1..(n - 1) PROVE Typed(i) /\ Held(i, n) /\ Past(i, n)
    <3> DEFINE iX == r[i].x
               iY == r[i].y
               iW == sizes[i].w
               iH == sizes[i].h
    <3>1. iX \in Nat /\ iY \in Nat /\ iW \in Nat /\ iH \in Nat BY <1>2, <2>5, <2>7
    <3>2. iY + iH <= pY + pH BY <2>5
    <3>3. iX + iW <= pN \/ iY + iH <= pY BY <2>5
    <3>4. Typed(i) BY <2>5
    <3> HIDE DEF iX, iY, iW, iH, pY, pH, pN, qX, qY, qH, qN, sw, sh
    <3>5. gap \in Nat /\ rowGap \in Nat OBVIOUS
    <3>6. iY + iH <= qY + qH /\ (iX + iW <= qX \/ iY + iH <= qY)
      <4>1. CASE wr
        <5>1. qY = pY + pH + rowGap BY <2>4, <4>1
        <5> QED BY ONLY <2>1, <2>8, <3>1, <3>2, <3>5, <5>1
      <4>2. CASE ~wr
        <5>1. qX = pN /\ qY = pY /\ qH = Larger(pH, sh) BY <2>4, <4>2
        <5>2. pH <= qH BY ONLY <2>1, <2>2, <5>1 DEF Larger
        <5> QED BY ONLY <2>1, <2>8, <3>1, <3>2, <3>3, <5>1, <5>2
      <4> QED BY <4>1, <4>2
    <3>7. iX + iW <= qN \/ iY + iH <= qY BY ONLY <2>2, <2>8, <3>1, <3>5, <3>6
    <3> QED BY <3>4, <3>6, <3>7 DEF iX, iY, iW, iH, qX, qY, qH, qN
  <2> HIDE DEF Typed, Held, Past
  <2> QED BY <2>6, <2>7, <2>9, <2>10
<1>13. \A n \in 0..N : n \in T
  <2> HIDE DEF T
  <2> QED BY <1>1, <1>11, <1>12, UpTo
<1> DEFINE cells == Shelves(sizes, cols, budget, gap, rowGap)
<1>14. \A i \in 1..N : cells[i] = r[i] /\ i \in 0..N BY <1>1, <1>3
<1> HIDE DEF cells
<1>15. ASSUME NEW i \in 1..N PROVE cells[i].x \in Nat /\ cells[i].y \in Nat
  <2>1. Typed(i) /\ cells[i] = r[i] BY <1>13, <1>14
  <2> QED BY <2>1
<1>16. ASSUME NEW i \in 1..N, NEW j \in 1..N, i < j
       PROVE  cells[i].x + sizes[i].w <= cells[j].x \/ cells[i].y + sizes[i].h <= cells[j].y
  <2>1. i \in 1..(j - 1) BY <1>16
  <2>2. Past(i, j) BY <1>13, <1>14, <2>1
  <2>3. cells[i] = r[i] /\ cells[j] = r[j] BY <1>14
  <2> QED BY <2>2, <2>3
<1>17. ASSUME NEW i \in 1..N, NEW j \in 1..N, i # j
       PROVE  Beside(cells[i], sizes[i], cells[j], sizes[j])
  <2>1. i < j \/ j < i BY <1>17
  <2> QED BY <1>16, <2>1 DEF Beside
<1> QED BY <1>1, <1>15, <1>17 DEF Packed, cells
-----------------------------------------------------------------------------
(* Blocks.                                                                 *)

(* Values from the inside that are good when those within are: good[e] has *)
(* the values an element may get, out of V.                                *)
LEMMA KidsSolve ==
    ASSUME NEW els, Nested(els), NEW V, V # {}, NEW kids,
           \A e \in Elements(els) : Lists(kids[e], {f \in Elements(els) : f.parent = e.id}),
           NEW good, \A e \in Elements(els) : good[e] \subseteq V,
           NEW G,
           \A e \in Elements(els) : \A s \in Seq(V) :
             Len(s) = Len(kids[e]) /\ (\A i \in DOMAIN kids[e] : s[i] \in good[kids[e][i]])
               => G[<<e, s>>] \in good[e]
    PROVE  \E g \in [Elements(els) -> V] :
             Inward(g, els, kids, G) /\ \A e \in Elements(els) : g[e] \in good[e]
<1> DEFINE E == Elements(els)
           in(e) == {f \in E : f.parent = e.id}
<1>1. PICK v0 : v0 \in V OBVIOUS
<1> DEFINE H == [q \in E \X Seq(V) |-> IF G[q] \in V THEN G[q] ELSE v0]
<1>2. H \in [E \X Seq(V) -> V] BY <1>1
<1>3. PICK g \in [E -> V] : Inward(g, els, kids, H)
  <2> HIDE DEF H
  <2>1. H \in [Elements(els) \X Seq(V) -> V] BY <1>2
  <2> QED BY <2>1, KidsRecursion
<1> DEFINE T == {e \in E : g[e] \in good[e] /\ g[e] = G[<<e, Inner(g, kids[e])>>]}
<1>4. ASSUME NEW e \in E, \A f \in E : f.parent = e.id => f \in T PROVE e \in T
  <2> DEFINE s == Inner(g, kids[e])
  <2>1. Lists(kids[e], in(e)) OBVIOUS
  <2>2. \A f \in in(e) : g[f] \in V /\ g[f] \in good[f] BY <1>4
  <2> HIDE DEF in, T
  <2>3. s \in Seq(V) /\ Len(s) = Len(kids[e]) BY <2>1, <2>2, InnerTyped
  <2>4. \A i \in DOMAIN kids[e] : s[i] \in good[kids[e][i]]
    <3>1. \A i \in DOMAIN kids[e] : kids[e][i] \in in(e) BY <2>1, ListFacts
    <3>2. \A i \in DOMAIN kids[e] : s[i] = g[kids[e][i]] BY DEF Inner
    <3> QED BY <2>2, <3>1, <3>2
  <2> HIDE DEF s
  <2>5. G[<<e, s>>] \in good[e] /\ G[<<e, s>>] \in V
    <3> HIDE DEF E
    <3>1. G[<<e, s>>] \in good[e] BY <2>3, <2>4 DEF E
    <3> QED BY <3>1 DEF E
  <2>6. H[<<e, s>>] = G[<<e, s>>]
    <3>1. <<e, s>> \in E \X Seq(V) BY <2>3
    <3> QED BY <2>5, <3>1
  <2>7. g[e] = H[<<e, s>>]
    <3> HIDE DEF H
    <3> QED BY <1>3 DEF Inward, s
  <2> QED BY <2>5, <2>6, <2>7 DEF T, s
<1>5. E \subseteq T
  <2> HIDE DEF T
  <2> QED BY <1>4, KidsInduct
<1> QED BY <1>5 DEF Inward

LEMMA CeilHolds ==
    ASSUME NEW n \in Nat, NEW p \in Nat, p > 0
    PROVE  LET q == (n + p - 1) \div p IN q \in Nat /\ n <= q * p
<1> DEFINE m == n + p - 1
           q == m \div p
           t == m % p
<1>1. m \in Nat /\ p - 1 \in Nat OBVIOUS
<1> HIDE DEF m
<1>2. q \in Nat /\ t \in Nat /\ t < p /\ m = p * q + t BY ONLY <1>1, p \in Nat, p > 0, DivMod
<1> HIDE DEF q, t
<1>3. p * q = q * p /\ p * q \in Nat BY ONLY <1>2, p \in Nat, StepsFurther
<1> DEFINE u == p * q
<1>4. m = u + t /\ u \in Nat BY ONLY <1>2, <1>3
<1> HIDE DEF u
<1>5. n <= u BY <1>2, <1>4 DEF m
<1>6. n <= q * p BY ONLY <1>3, <1>5 DEF u
<1> QED BY <1>2, <1>6 DEF q, m

LEMMA TimesGrows ==
    ASSUME NEW a \in Nat, NEW b \in Nat, a <= b, NEW p \in Nat
    PROVE  a * p <= b * p
<1>1. a = b \/ a < b OBVIOUS
<1>2. CASE a = b
  <2>1. b * p \in Nat BY StepsFurther
  <2> QED BY <1>2, <2>1
<1>3. CASE a < b
  <2>1. a * p \in Nat /\ b * p \in Nat /\ a * p + p <= b * p BY <1>3, StepsFurther
  <2> DEFINE u == a * p
             v == b * p
  <2>2. u \in Nat /\ v \in Nat /\ u + p <= v BY ONLY <2>1
  <2> HIDE DEF u, v
  <2>3. u <= v BY <2>2
  <2> QED BY <2>3 DEF u, v
<1> QED BY <1>1, <1>2, <1>3

(* A diagram's widest cell is a number.                                    *)
LEMMA CellsTyped ==
    ASSUME NEW els, Nested(els)
    PROVE  /\ Pitch(els) \in Nat /\ Pitch(els) >= BlockGap
           /\ NetCell(els) \in Nat
<1> DEFINE L == {f \in Elements(els) : ~f.group}
           a == [e \in L |-> ClampedWidth(e.label, 48, 24)]
           b == [e \in L |-> ClampedWidth(e.label, 64, 24)]
           A == {a[e] : e \in L}
           B == {b[e] : e \in L}
<1>1. IsFiniteSet(L)
  <2>1. IsFiniteSet(Elements(els)) BY NestedFacts
  <2> QED BY <2>1, FS_Subset
<1>2. \A e \in L : a[e] \in Nat /\ b[e] \in Nat
  <2>1. \A e \in L : e.label \in Nat BY NestedFacts
  <2> QED BY <2>1 DEF ClampedWidth, Larger
<1>3. CellWidth(els) = MaxOf({48} \cup A)
  <2>1. {ClampedWidth(e.label, 48, 24) : e \in L} = A OBVIOUS
  <2> HIDE DEF A
  <2> QED BY <2>1 DEF CellWidth
<1>4. NetCell(els) = MaxOf({64} \cup B)
  <2>1. {ClampedWidth(e.label, 64, 24) : e \in L} = B OBVIOUS
  <2> HIDE DEF B
  <2> QED BY <2>1 DEF NetCell
<1>5. DOMAIN a = L /\ DOMAIN b = L OBVIOUS
<1>6. a = [e \in DOMAIN a |-> a[e]] /\ b = [e \in DOMAIN b |-> b[e]] OBVIOUS
<1> HIDE DEF a, b, L
<1>7. IsFiniteSet(A) /\ A \subseteq Nat BY <1>1, <1>2, <1>5, <1>6, ImageFinite
<1>8. IsFiniteSet(B) /\ B \subseteq Nat BY <1>1, <1>2, <1>5, <1>6, ImageFinite
<1> HIDE DEF A, B
<1> DEFINE S == {48} \cup A
           U == {64} \cup B
<1>9. IsFiniteSet(S) /\ S \subseteq Nat /\ S \subseteq Int
  <2>1. IsFiniteSet({48}) BY FS_Singleton
  <2>2. IsFiniteSet(S)
    <3>1. IsFiniteSet(A) BY <1>7
    <3> HIDE DEF A
    <3> QED BY <2>1, <3>1, FS_Union
  <2>3. S \subseteq Nat BY <1>7
  <2> HIDE DEF S
  <2> QED BY <2>2, <2>3
<1>10. IsFiniteSet(U) /\ U \subseteq Nat /\ U \subseteq Int
  <2>1. IsFiniteSet({64}) BY FS_Singleton
  <2>2. IsFiniteSet(U)
    <3>1. IsFiniteSet(B) BY <1>8
    <3> HIDE DEF B
    <3> QED BY <2>1, <3>1, FS_Union
  <2>3. U \subseteq Nat BY <1>8
  <2> HIDE DEF U
  <2> QED BY <2>2, <2>3
<1> HIDE DEF S, U
<1>11. MaxOf(S) \in Nat BY <1>9, MaxOfBounds
<1>12. MaxOf(U) \in Nat BY <1>10, MaxOfBounds
<1>13. CellWidth(els) \in Nat /\ NetCell(els) \in Nat BY <1>3, <1>4, <1>11, <1>12 DEF S, U
<1> QED BY <1>13 DEF Pitch, BlockGap
BlockV == [span : Nat, w : Nat, h : Nat]

\* What a block or a group may take of the columns of its container: one that
\* does not span all of them keeps to the ones it spans.
BlockGood(d, e) ==
    {v \in BlockV : /\ 1 <= v.span /\ v.span <= ColumnsOf(d, e.parent)
                    /\ v.span < ColumnsOf(d, e.parent) => v.w <= v.span * Pitch(d.elements)}

Natural(d, e, inner) ==
    Larger(Reach(BlockCells(inner, e.columns, Pitch(d.elements)), inner),
           ClampedWidth(e.label, 0, 24)) + 2 * BlockPad
BlockBody(d, e, inner) ==
    LET columns == ColumnsOf(d, e.parent)
        pitch == Pitch(d.elements)
        cells == BlockCells(inner, e.columns, pitch)
        natural == Natural(d, e, inner)
        fit == Larger(1, (natural + BlockGap + pitch - 1) \div pitch)
    IN  IF ~e.group
        THEN LET span == Within(e.span, columns)
             IN  [span |-> span, w |-> span * pitch - BlockGap, h |-> 40]
        ELSE LET span == Within(Larger(e.span, fit), columns)
             IN  [span |-> span, w |-> BlockWidth(span, pitch, natural),
                  h |-> Depth(cells, inner) + BlockHeader + BlockPad]

(* Every container of a block diagram has columns.                         *)
LEMMA ColumnsThere ==
    ASSUME NEW d, BlockDiagram(d), Nested(d.elements), NEW p \in {Root} \cup Ids(d.elements)
    PROVE  /\ ColumnsOf(d, p) \in Nat /\ ColumnsOf(d, p) >= 1
           /\ \A e \in Elements(d.elements) : p = e.id => ColumnsOf(d, p) = e.columns
<1>1. CASE p = Root
  <2>1. \A e \in Elements(d.elements) : p # e.id BY <1>1, NestedFacts
  <2>2. d.columns \in Nat /\ d.columns >= 1 BY DEF BlockDiagram
  <2> QED BY <1>1, <2>1, <2>2 DEF ColumnsOf
<1>2. CASE p # Root
  <2> DEFINE c == Element(d.elements, p)
  <2>1. c \in Elements(d.elements) /\ c.id = p /\ p \in Ids(d.elements) BY <1>2, NestedFacts
  <2>2. \A e \in Elements(d.elements) : p = e.id => c = e BY <2>1, NestedFacts
  <2>3. ColumnsOf(d, p) = c.columns BY <1>2 DEF ColumnsOf
  <2> HIDE DEF c
  <2>4. c.columns \in Nat /\ c.columns >= 1 BY <2>1 DEF BlockDiagram, Elements
  <2> QED BY <2>2, <2>3, <2>4
<1> QED BY <1>1, <1>2

(* Good items are packed in the rows of their container.                   *)
LEMMA ItemsPacked ==
    ASSUME NEW d, BlockDiagram(d), Nested(d.elements), NEW p \in {Root} \cup Ids(d.elements),
           NEW s \in Seq(BlockV), Len(s) = Len(Kids(d.elements, p)),
           \A i \in DOMAIN Kids(d.elements, p) : s[i] \in BlockGood(d, Kids(d.elements, p)[i])
    PROVE  Sized(s) /\ Packed(BlockCells(s, ColumnsOf(d, p), Pitch(d.elements)), s)
<1> DEFINE kids == Kids(d.elements, p)
           columns == ColumnsOf(d, p)
           pitch == Pitch(d.elements)
           in == {e \in Elements(d.elements) : e.parent = p}
<1>1. Lists(kids, in) BY KidsList
<1>2. DOMAIN kids = 1..Len(kids) /\ \A i \in 1..Len(kids) : kids[i].parent = p
  <2> HIDE DEF kids
  <2> QED BY <1>1, ListFacts
<1>3. DOMAIN s = DOMAIN kids
  <2>1. DOMAIN s = 1..Len(s) BY LenProperties
  <2> QED BY <1>2, <2>1
<1>4. columns \in Nat /\ pitch \in Nat BY ColumnsThere, CellsTyped
<1>5. ASSUME NEW i \in DOMAIN s
      PROVE  /\ s[i].w \in Nat /\ s[i].h \in Nat
             /\ s[i].span \in Nat /\ 1 <= s[i].span /\ s[i].span <= columns
             /\ s[i].span < columns => s[i].w <= s[i].span * pitch
  <2>1. s[i] \in BlockGood(d, kids[i]) /\ kids[i].parent = p BY <1>2, <1>3
  <2> QED BY <2>1 DEF BlockGood, BlockV
<1>6. IsSequence(s)
  <2>1. s = [i \in 1..Len(s) |-> s[i]] /\ Len(s) \in Nat /\ DOMAIN s = 1..Len(s) BY LenProperties
  <2>2. \A i \in 1..Len(s) : s[i] \in Range(s) BY <2>1 DEF Range
  <2> QED BY <2>1, <2>2, IsASeq DEF IsSequence
<1>7. Sized(s) BY <1>5, <1>6 DEF Sized
<1> HIDE DEF columns, pitch
<1>8. Packed(BlockCells(s, columns, pitch), s) BY <1>4, <1>5, <1>7, BlockPacked
<1> QED BY <1>7, <1>8 DEF columns, pitch

(* A good size of an element, with room for good items, comes of theirs.   *)
LEMMA BlockBodyGood ==
    ASSUME NEW d, BlockDiagram(d), Nested(d.elements), NEW e \in Elements(d.elements),
           NEW s \in Seq(BlockV), Len(s) = Len(Kids(d.elements, e.id)),
           \A i \in DOMAIN Kids(d.elements, e.id) :
             s[i] \in BlockGood(d, Kids(d.elements, e.id)[i])
    PROVE  LET b == BlockBody(d, e, s)
               c == BlockCells(s, ColumnsOf(d, e.id), Pitch(d.elements))
           IN  /\ b \in BlockGood(d, e)
               /\ e.group => \A i \in DOMAIN s : /\ (BlockPad + c[i].x) + s[i].w <= b.w
                                                 /\ (BlockHeader + c[i].y) + s[i].h <= b.h
<1> DEFINE columns == ColumnsOf(d, e.parent)
           pitch == Pitch(d.elements)
           c == BlockCells(s, e.columns, pitch)
           natural == Natural(d, e, s)
           ceil == (natural + BlockGap + pitch - 1) \div pitch
           fit == Larger(1, ceil)
           b == BlockBody(d, e, s)
           R == Reach(c, s)
           D == Depth(c, s)
<1>1. e.id \in Ids(d.elements) /\ e.label \in Nat /\ e.span \in Nat /\ e.span >= 1
      /\ e.parent \in {Root} \cup Ids(d.elements)
  <2>1. e.span \in Nat /\ e.span >= 1 BY DEF BlockDiagram, Elements
  <2> QED BY <2>1, NestedFacts
<1>2. columns \in Nat /\ columns >= 1 /\ ColumnsOf(d, e.id) = e.columns BY <1>1, ColumnsThere
<1>3. pitch \in Nat /\ pitch >= 44 BY CellsTyped DEF BlockGap
<1>4. Sized(s) /\ Packed(c, s)
  <2>1. e.id \in {Root} \cup Ids(d.elements) BY <1>1
  <2>2. Sized(s) /\ Packed(BlockCells(s, ColumnsOf(d, e.id), pitch), s) BY <2>1, ItemsPacked
  <2> QED BY <1>2, <2>2
<1> HIDE DEF c
<1>5. /\ R \in Nat /\ D \in Nat
      /\ \A i \in DOMAIN s : c[i].x + s[i].w <= R /\ c[i].y + s[i].h <= D
  BY <1>4, ReachHolds
<1>6. \A i \in DOMAIN s : /\ c[i].x \in Nat /\ c[i].y \in Nat /\ s[i].w \in Nat /\ s[i].h \in Nat
  BY <1>4 DEF Packed, Sized
<1>7. natural \in Nat /\ natural >= R + 28
  <2>1. natural = Larger(R, ClampedWidth(e.label, 0, 24)) + 28 BY DEF Natural, BlockPad, c
  <2>2. ClampedWidth(e.label, 0, 24) \in Nat BY <1>1 DEF ClampedWidth, Larger
  <2> DEFINE cw == ClampedWidth(e.label, 0, 24)
  <2> HIDE DEF R, natural, cw
  <2>3. Larger(R, cw) \in Nat /\ Larger(R, cw) >= R BY <1>5, <2>2 DEF Larger, cw
  <2>4. natural = Larger(R, cw) + 28 BY <2>1 DEF cw
  <2> HIDE DEF cw
  <2> QED BY ONLY <1>5, <2>3, <2>4
<1>8. b = IF ~e.group
          THEN LET span == Within(e.span, columns)
               IN  [span |-> span, w |-> span * pitch - BlockGap, h |-> 40]
          ELSE LET span == Within(Larger(e.span, fit), columns)
               IN  [span |-> span, w |-> BlockWidth(span, pitch, natural),
                    h |-> D + BlockHeader + BlockPad]
  BY DEF BlockBody, c
<1> HIDE DEF natural, R, D, b
<1>9. ceil \in Nat /\ natural + 44 <= ceil * pitch
  <2> DEFINE n == natural + 44
  <2>1. n \in Nat BY <1>7
  <2>2. natural + BlockGap + pitch - 1 = n + pitch - 1 BY DEF BlockGap
  <2> HIDE DEF n
  <2>3. (n + pitch - 1) \div pitch \in Nat /\ n <= ((n + pitch - 1) \div pitch) * pitch
    <3>1. pitch > 0 /\ pitch \in Nat BY ONLY <1>3
    <3> QED BY ONLY <2>1, <3>1, CeilHolds
  <2> QED BY <2>2, <2>3 DEF n
<1> HIDE DEF ceil
<1>10. fit \in Nat /\ fit >= ceil BY <1>9 DEF Larger
<1> HIDE DEF fit, pitch, columns
<1>11. ASSUME NEW n \in Nat
       PROVE  LET w == Within(n, columns)
              IN  /\ w \in Nat /\ 1 <= w /\ w <= columns /\ (w < columns => n <= w)
                  /\ w * pitch - 44 \in Nat /\ w * pitch \in Nat
  <2> DEFINE w == Within(n, columns)
  <2>1. w \in Nat /\ 1 <= w /\ w <= columns /\ (w < columns => n <= w)
    BY <1>2 DEF Within, Larger
  <2> HIDE DEF w
  <2>2. 1 * pitch <= w * pitch /\ w * pitch \in Nat
    BY ONLY <1>3, <2>1, TimesGrows, StepsFurther, 1 \in Nat
  <2>3. 1 * pitch = pitch BY <1>3
  <2> DEFINE u == w * pitch
  <2>4. u \in Nat /\ pitch <= u BY ONLY <2>2, <2>3
  <2> HIDE DEF u
  <2>5. u - 44 \in Nat BY ONLY <1>3, <2>4
  <2> QED BY <2>1, <2>4, <2>5 DEF u, w
<1>12. CASE ~e.group
  <2> DEFINE w == Within(e.span, columns)
             u == w * pitch
  <2>1. /\ w \in Nat /\ 1 <= w /\ w <= columns /\ u - 44 \in Nat /\ u \in Nat BY <1>1, <1>11
  <2>2. b = [span |-> w, w |-> u - 44, h |-> 40] BY <1>8, <1>12 DEF BlockGap
  <2> HIDE DEF w, u
  <2>3. b.span = w /\ b.w = u - 44 /\ b \in BlockV BY <2>1, <2>2 DEF BlockV
  <2>4. b.w <= u BY <2>1, <2>3
  <2>5. b.w <= b.span * pitch BY <2>3, <2>4 DEF u
  <2>6. b \in BlockGood(d, e)
    <3>1. 1 <= b.span /\ b.span <= columns BY <2>1, <2>3
    <3> QED BY <2>3, <2>5, <3>1 DEF BlockGood, columns, pitch
  <2> QED BY <1>12, <2>6 DEF b
<1>13. CASE e.group
  <2> DEFINE n == Larger(e.span, fit)
             w == Within(n, columns)
             u == w * pitch
  <2>1. n \in Nat /\ n >= fit BY <1>1, <1>10 DEF Larger
  <2> HIDE DEF n
  <2>2. /\ w \in Nat /\ 1 <= w /\ w <= columns /\ (w < columns => n <= w)
        /\ u - 44 \in Nat /\ u \in Nat
    BY <1>11, <2>1
  <2>3. b = [span |-> w, w |-> Larger(u - 44, natural), h |-> D + 24 + 14]
    BY <1>8, <1>13 DEF BlockWidth, BlockGap, BlockHeader, BlockPad, n
  <2> HIDE DEF w
  <2>4. w < columns => natural + 44 <= u
    <3>1. SUFFICES ASSUME w < columns PROVE natural + 44 <= u OBVIOUS
    <3>2. ceil <= w BY ONLY <1>9, <1>10, <2>1, <2>2, <3>1
    <3>3. ceil * pitch <= u BY ONLY <1>3, <1>9, <2>2, <3>2, TimesGrows
    <3>4. ceil * pitch \in Nat BY ONLY <1>3, <1>9, StepsFurther
    <3> DEFINE v == ceil * pitch
    <3>5. v \in Nat /\ natural + 44 <= v /\ v <= u BY ONLY <1>9, <3>3, <3>4
    <3> HIDE DEF v, u
    <3> QED BY ONLY <1>7, <2>2, <3>5
  <2> HIDE DEF u
  <2>5. Larger(u - 44, natural) \in Nat /\ natural <= Larger(u - 44, natural)
        /\ (w < columns => Larger(u - 44, natural) <= u)
    BY <1>7, <2>2, <2>4 DEF Larger
  <2>6. b.span = w /\ b.w = Larger(u - 44, natural) /\ b.h = D + 24 + 14 /\ b \in BlockV
    BY <1>5, <2>2, <2>3, <2>5 DEF BlockV
  <2>7. b.span < columns => b.w <= b.span * pitch BY <2>5, <2>6 DEF u
  <2>8. b \in BlockGood(d, e)
    <3>1. 1 <= b.span /\ b.span <= columns BY <2>2, <2>6
    <3> QED BY <2>6, <2>7, <3>1 DEF BlockGood, columns, pitch
  <2>9. ASSUME NEW i \in DOMAIN s
        PROVE  (BlockPad + c[i].x) + s[i].w <= b.w /\ (BlockHeader + c[i].y) + s[i].h <= b.h
    <3> DEFINE cx == c[i].x
               cy == c[i].y
               sw == s[i].w
               sh == s[i].h
               bw == b.w
               bh == b.h
    <3>1. /\ cx \in Nat /\ cy \in Nat /\ sw \in Nat /\ sh \in Nat
          /\ cx + sw <= R /\ cy + sh <= D
      BY <1>5, <1>6
    <3>2. bw \in Nat /\ natural <= bw /\ bh = D + 24 + 14 BY <2>5, <2>6
    <3> HIDE DEF cx, cy, sw, sh, bw, bh
    <3>3. (14 + cx) + sw <= bw /\ (24 + cy) + sh <= bh BY ONLY <1>5, <1>7, <3>1, <3>2
    <3> QED BY <3>3 DEF cx, cy, sw, sh, bw, bh, BlockPad, BlockHeader
  <2> QED BY <1>2, <2>8, <2>9 DEF b, c, pitch
<1> QED BY <1>12, <1>13
(* The sizes of a block diagram are good, and each comes of those within.  *)
LEMMA BlockSolved ==
    ASSUME NEW d, BlockDiagram(d), Nested(d.elements)
    PROVE  LET item == BlockItems(d)
           IN  \A e \in Elements(d.elements) :
                 /\ item[e] \in BlockGood(d, e)
                 /\ item[e] = BlockBody(d, e, Inner(item, Kids(d.elements, e.id)))
<1> DEFINE els == d.elements
           E == Elements(els)
           kids == [e \in E |-> Kids(els, e.id)]
           good == [e \in E |-> BlockGood(d, e)]
           G == [q \in E \X Seq(BlockV) |-> BlockBody(d, q[1], q[2])]
           Run(w) == w = [e \in E |->
             LET columns == ColumnsOf(d, e.parent)
                 ks == Kids(els, e.id)
                 inner == [i \in DOMAIN ks |-> w[ks[i]]]
                 cells == BlockCells(inner, e.columns, Pitch(els))
                 natural == Larger(Reach(cells, inner), ClampedWidth(e.label, 0, 24)) + 2 * BlockPad
                 fit == Larger(1, (natural + BlockGap + Pitch(els) - 1) \div Pitch(els))
             IN  IF ~e.group
                 THEN LET span == Within(e.span, columns)
                      IN  [span |-> span, w |-> span * Pitch(els) - BlockGap, h |-> 40]
                 ELSE LET span == Within(Larger(e.span, fit), columns)
                      IN  [span |-> span, w |-> BlockWidth(span, Pitch(els), natural),
                           h |-> Depth(cells, inner) + BlockHeader + BlockPad]]
           r == CHOOSE w : Run(w)
           in(e) == {f \in E : f.parent = e.id}
<1>1. BlockItems(d) = r BY DEF BlockItems
<1>2. ASSUME NEW w
      PROVE  Run(w) <=> w = [e \in E |-> BlockBody(d, e, Inner(w, kids[e]))]
  <2>1. [e \in E |-> BlockBody(d, e, Inner(w, kids[e]))]
          = [e \in E |-> BlockBody(d, e, Inner(w, Kids(els, e.id)))]
    OBVIOUS
  <2> HIDE DEF E, els, kids
  <2>2. Run(w) <=> w = [e \in E |-> BlockBody(d, e, Inner(w, Kids(els, e.id)))]
    BY DEF BlockBody, Natural, Inner, els
  <2> QED BY <2>1, <2>2
<1> HIDE DEF Run
<1>3. ASSUME NEW e \in E PROVE kids[e] = Kids(els, e.id) /\ good[e] = BlockGood(d, e)
  OBVIOUS
<1>4. ASSUME NEW e \in E PROVE Lists(kids[e], in(e)) BY KidsList
<1>5. \A e \in E : good[e] \subseteq BlockV BY DEF BlockGood
<1> HIDE DEF kids, good, in
<1>6. ASSUME NEW e \in E, NEW s \in Seq(BlockV), Len(s) = Len(kids[e]),
             \A i \in DOMAIN kids[e] : s[i] \in good[kids[e][i]]
      PROVE  BlockBody(d, e, s) \in good[e]
  <2>1. \A i \in DOMAIN kids[e] : kids[e][i] \in in(e) BY <1>4, ListFacts
  <2>2. \A f \in in(e) : f \in E BY DEF in
  <2>3. \A i \in DOMAIN Kids(els, e.id) : s[i] \in BlockGood(d, Kids(els, e.id)[i])
    BY <1>3, <1>6, <2>1, <2>2
  <2>4. Len(s) = Len(Kids(els, e.id)) BY <1>3, <1>6
  <2>5. BlockBody(d, e, s) \in BlockGood(d, e) BY <2>3, <2>4, BlockBodyGood
  <2> QED BY <1>3, <2>5
<1>7. \A e \in E : \A s \in Seq(BlockV) : G[<<e, s>>] = BlockBody(d, e, s) OBVIOUS
<1> HIDE DEF G
<1>8. ASSUME NEW e \in E, NEW s \in Seq(BlockV)
      PROVE  Len(s) = Len(kids[e]) /\ (\A i \in DOMAIN kids[e] : s[i] \in good[kids[e][i]])
               => G[<<e, s>>] \in good[e]
  BY <1>6, <1>7
<1>9. BlockV # {}
  <2>1. [span |-> 0, w |-> 0, h |-> 0] \in BlockV BY DEF BlockV
  <2> QED BY <2>1
<1>10. PICK g \in [E -> BlockV] : Inward(g, els, kids, G)
  <2>1. \A e \in Elements(els) : Lists(kids[e], {f \in Elements(els) : f.parent = e.id})
    BY <1>4 DEF in
  <2>2. \A e \in Elements(els) : \A s \in Seq(BlockV) :
          Len(s) = Len(kids[e]) /\ (\A i \in DOMAIN kids[e] : s[i] \in good[kids[e][i]])
            => G[<<e, s>>] \in good[e]
    BY <1>8
  <2> HIDE DEF els
  <2>3. Nested(els) /\ \A e \in Elements(els) : good[e] \subseteq BlockV BY <1>5 DEF els
  <2>4. \E g \in [Elements(els) -> BlockV] :
          Inward(g, els, kids, G) /\ \A e \in Elements(els) : g[e] \in good[e]
    BY ONLY <1>9, <2>1, <2>2, <2>3, KidsSolve
  <2> QED BY <2>4
<1>11. \A e \in E : \A w : (\A f \in in(e) : w[f] \in BlockV) =>
         Inner(w, kids[e]) \in Seq(BlockV) /\ Len(Inner(w, kids[e])) = Len(kids[e])
  BY <1>4, InnerTyped
<1>12. Run(g)
  <2>1. ASSUME NEW e \in E PROVE g[e] = BlockBody(d, e, Inner(g, kids[e]))
    <3>1. \A f \in in(e) : g[f] \in BlockV BY DEF in
    <3>2. Inner(g, kids[e]) \in Seq(BlockV) BY <1>11, <3>1
    <3>3. g[e] = G[<<e, Inner(g, kids[e])>>] BY <1>10 DEF Inward
    <3> QED BY <1>7, <3>2, <3>3
  <2>2. g = [e \in E |-> g[e]] OBVIOUS
  <2>3. g = [e \in E |-> BlockBody(d, e, Inner(g, kids[e]))] BY <2>1, <2>2
  <2> QED BY <1>2, <2>3
<1>13. Run(r) BY <1>12
<1> HIDE DEF r
<1>14. ASSUME NEW e \in E PROVE r[e] = BlockBody(d, e, Inner(r, kids[e]))
  <2>1. r = [f \in E |-> BlockBody(d, f, Inner(r, kids[f]))] BY <1>2, <1>13
  <2> QED BY <2>1
<1> DEFINE T == {e \in E : r[e] \in good[e]}
<1>15. ASSUME NEW e \in E, \A f \in E : f.parent = e.id => f \in T PROVE e \in T
  <2> DEFINE s == Inner(r, kids[e])
  <2>1. \A f \in in(e) : r[f] \in good[f] /\ r[f] \in BlockV BY <1>5, <1>15 DEF in
  <2>2. s \in Seq(BlockV) /\ Len(s) = Len(kids[e]) BY <1>11, <2>1
  <2>3. \A i \in DOMAIN kids[e] : s[i] \in good[kids[e][i]]
    <3>1. \A i \in DOMAIN kids[e] : kids[e][i] \in in(e) BY <1>4, ListFacts
    <3>2. \A i \in DOMAIN kids[e] : s[i] = r[kids[e][i]] BY DEF Inner
    <3> QED BY <2>1, <3>1, <3>2
  <2> HIDE DEF s
  <2>4. BlockBody(d, e, s) \in good[e] BY <1>6, <2>2, <2>3
  <2> QED BY <1>14, <2>4 DEF s
<1>16. E \subseteq T
  <2> HIDE DEF T
  <2> QED BY <1>15, KidsInduct
<1>17. ASSUME NEW e \in E
       PROVE  r[e] \in BlockGood(d, e) /\ r[e] = BlockBody(d, e, Inner(r, Kids(els, e.id)))
  BY <1>3, <1>14, <1>16
<1> QED BY <1>1, <1>17

(* The boxes of a block diagram fit.                                       *)
LEMMA BlockFit ==
    ASSUME NEW d, BlockDiagram(d), Nested(d.elements)
    PROVE  LET els == d.elements
               item == BlockItems(d)
               cell == [e \in Elements(els) |->
                          LET kids == Kids(els, e.parent)
                          IN  BlockCells([i \in DOMAIN kids |-> item[kids[i]]],
                                         ColumnsOf(d, e.parent), Pitch(els))[NthOf(kids, e)]]
           IN  Fit(els, Elements(els), item, cell, BlockPad, BlockHeader)
<1> DEFINE els == d.elements
           E == Elements(els)
           P == {Root} \cup Ids(els)
           item == BlockItems(d)
           list == [p \in P |-> Kids(els, p)]
           cells == [p \in P |-> BlockCells(Inner(item, Kids(els, p)), ColumnsOf(d, p), Pitch(els))]
           cell == [e \in E |->
                      LET kids == Kids(els, e.parent)
                      IN  BlockCells([i \in DOMAIN kids |-> item[kids[i]]],
                                     ColumnsOf(d, e.parent), Pitch(els))[NthOf(kids, e)]]
<1>1. \A e \in E : /\ item[e] \in BlockGood(d, e)
                   /\ item[e] = BlockBody(d, e, Inner(item, Kids(els, e.id)))
  BY BlockSolved
<1> HIDE DEF item
<1>2. \A e \in E : item[e] \in BlockV /\ item[e].w \in Nat /\ item[e].h \in Nat
  BY <1>1 DEF BlockGood, BlockV
<1>3. \A e \in E : e.parent \in P /\ e.id \in P /\ e.id # Root
  <2>1. \A e \in E : e.parent # Root => e.parent \in Ids(els) BY NestedFacts
  <2>2. \A e \in E : e.id # Root /\ e.id \in Ids(els) BY NestedFacts
  <2> QED BY <2>1, <2>2
<1>4. \A e \in E : e.parent # Root =>
        Element(els, e.parent) \in E /\ Element(els, e.parent).id = e.parent
          /\ Element(els, e.parent).group
  BY NestedFacts
<1>5. ASSUME NEW p \in P
      PROVE  /\ Lists(list[p], {f \in E : f.parent = p})
             /\ list[p] = Kids(els, p)
             /\ cells[p] = BlockCells(Inner(item, list[p]), ColumnsOf(d, p), Pitch(els))
  <2>1. list[p] = Kids(els, p) OBVIOUS
  <2>2. Lists(Kids(els, p), {f \in E : f.parent = p}) BY KidsList
  <2> QED BY <2>1, <2>2
<1>6. ASSUME NEW e \in E PROVE cell[e] = cells[e.parent][NthOf(list[e.parent], e)]
  <2>1. cell[e] = BlockCells(Inner(item, Kids(els, e.parent)), ColumnsOf(d, e.parent),
                             Pitch(els))[NthOf(Kids(els, e.parent), e)]
    BY DEF Inner
  <2> HIDE DEF cell, cells, list
  <2> QED BY <1>3, <1>5, <2>1
<1> HIDE DEF cell, cells, list, P, E
<1>7. ASSUME NEW p \in P
      PROVE  /\ Inner(item, list[p]) \in Seq(BlockV) /\ Len(Inner(item, list[p])) = Len(list[p])
             /\ \A i \in DOMAIN list[p] : list[p][i] \in E /\ Inner(item, list[p])[i] = item[list[p][i]]
             /\ \A i \in DOMAIN list[p] : Inner(item, list[p])[i] \in BlockGood(d, list[p][i])
             /\ DOMAIN Inner(item, list[p]) = DOMAIN list[p]
  <2> DEFINE in == {f \in E : f.parent = p}
  <2>1. Lists(list[p], in) /\ \A f \in in : f \in E /\ item[f] \in BlockV BY <1>2, <1>5
  <2> HIDE DEF in
  <2>2. Inner(item, list[p]) \in Seq(BlockV) /\ Len(Inner(item, list[p])) = Len(list[p])
    BY <2>1, InnerTyped
  <2>3. \A i \in DOMAIN list[p] : list[p][i] \in in BY <2>1, ListFacts
  <2>4. \A i \in DOMAIN list[p] : Inner(item, list[p])[i] = item[list[p][i]] BY DEF Inner
  <2>5. DOMAIN Inner(item, list[p]) = DOMAIN list[p] BY DEF Inner
  <2> QED BY <1>1, <2>1, <2>2, <2>3, <2>4, <2>5
<1>8. ASSUME NEW p \in P PROVE Packed(cells[p], Inner(item, list[p]))
  <2>1. p \in {Root} \cup Ids(d.elements) BY DEF P
  <2>2. /\ Len(Inner(item, list[p])) = Len(Kids(d.elements, p))
        /\ \A i \in DOMAIN Kids(d.elements, p) :
             Inner(item, list[p])[i] \in BlockGood(d, Kids(d.elements, p)[i])
    BY <1>5, <1>7
  <2>3. Packed(BlockCells(Inner(item, list[p]), ColumnsOf(d, p), Pitch(d.elements)),
               Inner(item, list[p]))
    BY <1>7, <2>1, <2>2, ItemsPacked
  <2> QED BY <1>5, <2>3
<1>9. ASSUME NEW e \in E, e.parent # Root, NEW i \in DOMAIN list[e.parent]
      PROVE  LET p == Element(els, e.parent)
             IN  /\ (BlockPad + cells[e.parent][i].x) + item[list[e.parent][i]].w <= item[p].w
                 /\ (BlockHeader + cells[e.parent][i].y) + item[list[e.parent][i]].h <= item[p].h
  <2> DEFINE p == Element(els, e.parent)
             s == Inner(item, list[e.parent])
             c == BlockCells(s, ColumnsOf(d, p.id), Pitch(d.elements))
             b == BlockBody(d, p, s)
  <2>1. p \in E /\ p.id = e.parent /\ p.group /\ e.parent \in P BY <1>3, <1>4, <1>9
  <2> HIDE DEF p
  <2>2. list[e.parent] = Kids(els, p.id) /\ cells[e.parent] = c BY <1>5, <2>1
  <2>3. item[p] = b BY <1>1, <2>1, <2>2
  <2>4. /\ s \in Seq(BlockV) /\ Len(s) = Len(Kids(d.elements, p.id))
        /\ \A j \in DOMAIN Kids(d.elements, p.id) : s[j] \in BlockGood(d, Kids(d.elements, p.id)[j])
    BY <1>7, <2>1, <2>2
  <2>5. i \in DOMAIN s /\ s[i] = item[list[e.parent][i]] BY <1>7, <1>9, <2>1
  <2>6. p \in Elements(d.elements) BY <2>1 DEF E
  <2> HIDE DEF s
  <2>7. \A j \in DOMAIN s : /\ (BlockPad + c[j].x) + s[j].w <= b.w
                            /\ (BlockHeader + c[j].y) + s[j].h <= b.h
    BY <2>1, <2>4, <2>6, BlockBodyGood
  <2> HIDE DEF c, b
  <2>8. /\ (BlockPad + cells[e.parent][i].x) + item[list[e.parent][i]].w <= item[p].w
        /\ (BlockHeader + cells[e.parent][i].y) + item[list[e.parent][i]].h <= item[p].h
    BY <2>2, <2>3, <2>5, <2>7
  <2> QED BY <2>8 DEF p
<1>10. Fit(els, Elements(els), item, cell, BlockPad, BlockHeader)
  <2>1. \A e \in Elements(els) : e.parent # Root => Element(els, e.parent) \in Elements(els)
    BY <1>4 DEF E
  <2>2. \A e \in Elements(els) : item[e].w \in Nat /\ item[e].h \in Nat BY <1>2 DEF E
  <2>3. BlockPad \in Nat /\ BlockHeader \in Nat BY DEF BlockPad, BlockHeader
  <2>4. \A e \in Elements(els) :
          /\ Lists(list[e.parent], {f \in Elements(els) : f.parent = e.parent})
          /\ Packed(cells[e.parent], Inner(item, list[e.parent]))
          /\ cell[e] = cells[e.parent][NthOf(list[e.parent], e)]
    BY <1>3, <1>5, <1>6, <1>8 DEF E
  <2>5. \A e \in Elements(els) : e.parent # Root =>
          LET p == Element(els, e.parent)
          IN  \A i \in DOMAIN list[e.parent] :
                /\ (BlockPad + cells[e.parent][i].x) + item[list[e.parent][i]].w <= item[p].w
                /\ (BlockHeader + cells[e.parent][i].y) + item[list[e.parent][i]].h <= item[p].h
    BY <1>9 DEF E
  <2>6. Nested(els) /\ Elements(els) \subseteq Elements(els) OBVIOUS
  <2> HIDE DEF els
  <2> QED BY ONLY <2>1, <2>2, <2>3, <2>4, <2>5, <2>6, ArrangedFit
<1> QED BY <1>10 DEF cell, item, E
-----------------------------------------------------------------------------
(* Networks.                                                               *)

(* What values from the inside are typed by, and come of.                  *)
LEMMA KidsTyped ==
    ASSUME NEW els, Nested(els), NEW V, NEW kids,
           \A e \in Elements(els) : Lists(kids[e], {f \in Elements(els) : f.parent = e.id}),
           NEW G \in [Elements(els) \X Seq(V) -> V], NEW w,
           \A e \in Elements(els) : Inner(w, kids[e]) \in Seq(V) => w[e] = G[<<e, Inner(w, kids[e])>>]
    PROVE  \A e \in Elements(els) :
             w[e] \in V /\ Inner(w, kids[e]) \in Seq(V) /\ Len(Inner(w, kids[e])) = Len(kids[e])
<1> DEFINE E == Elements(els)
           in(e) == {f \in E : f.parent = e.id}
           T == {e \in E : w[e] \in V}
<1>1. ASSUME NEW e \in E, \A f \in in(e) : w[f] \in V
      PROVE  Inner(w, kids[e]) \in Seq(V) /\ Len(Inner(w, kids[e])) = Len(kids[e])
  <2>1. Lists(kids[e], in(e)) OBVIOUS
  <2> HIDE DEF in
  <2> QED BY <1>1, <2>1, InnerTyped
<1>2. ASSUME NEW e \in E, \A f \in E : f.parent = e.id => f \in T PROVE e \in T
  <2>1. Inner(w, kids[e]) \in Seq(V) BY <1>1, <1>2
  <2>2. w[e] = G[<<e, Inner(w, kids[e])>>] BY <2>1
  <2>3. <<e, Inner(w, kids[e])>> \in Elements(els) \X Seq(V) BY <2>1
  <2> QED BY <2>2, <2>3
<1>3. E \subseteq T
  <2> HIDE DEF T
  <2> QED BY <1>2, KidsInduct
<1> QED BY <1>1, <1>3

LEMMA SqrtTyped ==
    ASSUME NEW n \in Nat
    PROVE  SqrtUp(n) \in Nat /\ SqrtUp(n) >= 1
<1> DEFINE m == Larger(1, n)
           S == {c \in 1..m : c * c >= n}
<1>1. m \in Nat /\ m >= 1 /\ m >= n BY DEF Larger
<1> HIDE DEF m
<1>2. m \in S
  <2>1. 1 * m <= m * m BY ONLY <1>1, TimesGrows, 1 \in Nat
  <2>2. 1 * m = m BY <1>1
  <2>3. m * m \in Nat BY ONLY <1>1, StepsFurther
  <2> DEFINE q == m * m
  <2>4. q \in Nat /\ m <= q BY ONLY <2>1, <2>2, <2>3
  <2> HIDE DEF q
  <2>5. q >= n BY ONLY <1>1, <2>4, n \in Nat
  <2> QED BY <1>1, <2>5 DEF q
<1>3. S \subseteq Nat /\ S # {}
  <2>1. S \subseteq Nat OBVIOUS
  <2> HIDE DEF S
  <2> QED BY <1>2, <2>1
<1>4. PICK c \in S : \A k \in S : c <= k BY <1>3, LeastNat
<1>5. c \in 1..m /\ c * c >= n OBVIOUS
<1>6. ASSUME NEW k \in 1..(c - 1) PROVE k * k < n
  <2>1. k \in 1..m /\ k < c BY <1>1, <1>5
  <2>2. k \notin S
    <3> HIDE DEF S
    <3> QED BY <1>1, <1>4, <1>5, <2>1
  <2>3. ~(k * k >= n) BY <2>1, <2>2
  <2>4. k * k \in Nat
    <3>1. k \in Nat BY <2>1
    <3> QED BY ONLY <3>1, StepsFurther
  <2> DEFINE q == k * k
  <2>5. q \in Nat /\ ~(q >= n) BY ONLY <2>3, <2>4
  <2> HIDE DEF q
  <2>6. q < n BY ONLY <2>5, n \in Nat
  <2> QED BY <2>6 DEF q
<1>7. \E b \in 1..m : b * b >= n /\ \A k \in 1..(b - 1) : k * k < n
  <2> HIDE DEF S
  <2> QED BY <1>5, <1>6
<1>8. SqrtUp(n) \in 1..m
  <2>1. SqrtUp(n) = CHOOSE b \in 1..m : b * b >= n /\ \A k \in 1..(b - 1) : k * k < n
    BY DEF SqrtUp, m
  <2> QED BY <1>7, <2>1
<1> QED BY <1>8

SizeV == [w : Nat, h : Nat]

NetBody(els, e, inner) ==
    LET grid == VariableGrid(inner, SqrtUp(Len(NetKids(els, e.id))), NetGap)
    IN  IF ~e.group THEN [w |-> NetCell(els), h |-> 48]
        ELSE [w |-> Larger(grid.w, ClampedWidth(e.label, 0, 24)) + 2 * Pad,
              h |-> grid.h + Header + Pad]

LEMMA SizedSeq ==
    ASSUME NEW s \in Seq(SizeV)
    PROVE  Sized(s)
<1>1. s = [i \in 1..Len(s) |-> s[i]] /\ Len(s) \in Nat /\ DOMAIN s = 1..Len(s) BY LenProperties
<1>2. \A i \in 1..Len(s) : s[i] \in Range(s) BY <1>1 DEF Range
<1>3. IsSequence(s) BY <1>1, <1>2, IsASeq DEF IsSequence
<1>4. \A i \in DOMAIN s : s[i] \in SizeV BY <1>1
<1> QED BY <1>3, <1>4 DEF Sized, SizeV

(* A host has a size, and a group the room for its grid.                   *)
LEMMA NetBodyRoom ==
    ASSUME NEW els, Nested(els), NEW e \in Elements(els), NEW s \in Seq(SizeV)
    PROVE  LET b == NetBody(els, e, s)
               c == VariableGrid(s, SqrtUp(Len(NetKids(els, e.id))), NetGap).cells
           IN  /\ b \in SizeV
               /\ e.group => \A i \in DOMAIN s : /\ (Pad + c[i].x) + s[i].w <= b.w
                                                 /\ (Header + c[i].y) + s[i].h <= b.h
<1> DEFINE n == SqrtUp(Len(NetKids(els, e.id)))
           grid == VariableGrid(s, n, NetGap)
           c == grid.cells
           b == NetBody(els, e, s)
           cw == ClampedWidth(e.label, 0, 24)
<1>1. n \in Nat
  <2> DEFINE in == {f \in Elements(els) : f.parent = e.id}
  <2>1. Lists(NetKids(els, e.id), in) BY KidsList
  <2> HIDE DEF in
  <2>2. Len(NetKids(els, e.id)) \in Nat BY <2>1, ListFacts
  <2> QED BY <2>2, SqrtTyped
<1>2. cw \in Nat
  <2>1. e.label \in Nat BY NestedFacts
  <2> QED BY <2>1 DEF ClampedWidth, Larger
<1>3. NetCell(els) \in Nat BY CellsTyped
<1>4. b = IF ~e.group THEN [w |-> NetCell(els), h |-> 48]
          ELSE [w |-> Larger(grid.w, cw) + 32, h |-> grid.h + 26 + 16]
  BY DEF NetBody, Pad, Header
<1> HIDE DEF n
<1>5. /\ Packed(c, s) /\ grid.w \in Nat /\ grid.h \in Nat
      /\ \A i \in DOMAIN s : c[i].x + s[i].w <= grid.w /\ c[i].y + s[i].h <= grid.h
  <2>1. Sized(s) BY SizedSeq
  <2>2. NetGap \in Nat BY DEF NetGap
  <2> QED BY ONLY <1>1, <2>1, <2>2, GridPacked
<1> DEFINE gw == grid.w
           gh == grid.h
<1>6. gw \in Nat /\ gh \in Nat
      /\ \A i \in DOMAIN s : /\ c[i].x \in Nat /\ c[i].y \in Nat /\ s[i].w \in Nat /\ s[i].h \in Nat
                             /\ c[i].x + s[i].w <= gw /\ c[i].y + s[i].h <= gh
  <2>1. Sized(s) BY SizedSeq
  <2> HIDE DEF c, grid
  <2> QED BY <1>5, <2>1 DEF Packed, Sized
<1>7. b = IF ~e.group THEN [w |-> NetCell(els), h |-> 48]
          ELSE [w |-> Larger(gw, cw) + 32, h |-> gh + 26 + 16]
  BY <1>4
<1> HIDE DEF c, gw, gh, cw, b, grid
<1>8. Larger(gw, cw) \in Nat /\ gw <= Larger(gw, cw) BY <1>2, <1>6 DEF Larger
<1>9. b \in SizeV
  <2>1. Larger(gw, cw) + 32 \in Nat /\ gh + 26 + 16 \in Nat BY <1>6, <1>8
  <2> QED BY <1>3, <1>7, <2>1 DEF SizeV
<1>10. ASSUME e.group, NEW i \in DOMAIN s
       PROVE  (Pad + c[i].x) + s[i].w <= b.w /\ (Header + c[i].y) + s[i].h <= b.h
  <2> DEFINE cx == c[i].x
             cy == c[i].y
             sw == s[i].w
             sh == s[i].h
             lw == Larger(gw, cw)
             bw == b.w
             bh == b.h
  <2>1. bw = lw + 32 /\ bh = gh + 26 + 16 BY <1>7, <1>10
  <2>2. /\ cx \in Nat /\ cy \in Nat /\ sw \in Nat /\ sh \in Nat /\ cx + sw <= gw /\ cy + sh <= gh
    BY <1>6
  <2>3. lw \in Nat /\ gw <= lw BY <1>8
  <2> HIDE DEF cx, cy, sw, sh, lw, bw, bh
  <2>4. (16 + cx) + sw <= bw /\ (26 + cy) + sh <= bh BY ONLY <1>6, <2>1, <2>2, <2>3
  <2> QED BY <2>4 DEF cx, cy, sw, sh, bw, bh, Pad, Header
<1> QED BY <1>9, <1>10 DEF b, c, grid, n

(* The sizes of a network, each come of those within.                      *)
LEMMA NetSolved ==
    ASSUME NEW els, Nested(els)
    PROVE  LET size == NetSizes(els)
           IN  \A e \in Elements(els) :
                 /\ size[e] \in SizeV
                 /\ size[e] = NetBody(els, e, Inner(size, NetKids(els, e.id)))
                 /\ Inner(size, NetKids(els, e.id)) \in Seq(SizeV)
<1> DEFINE E == Elements(els)
           kids == [e \in E |-> NetKids(els, e.id)]
           G == [q \in E \X Seq(SizeV) |-> NetBody(els, q[1], q[2])]
           Run(w) == w = [e \in E |->
             LET ks == NetKids(els, e.id)
                 inner == VariableGrid([i \in DOMAIN ks |-> w[ks[i]]], SqrtUp(Len(ks)), NetGap)
             IN  IF ~e.group THEN [w |-> NetCell(els), h |-> 48]
                 ELSE [w |-> Larger(inner.w, ClampedWidth(e.label, 0, 24)) + 2 * Pad,
                       h |-> inner.h + Header + Pad]]
           r == CHOOSE w : Run(w)
<1>1. NetSizes(els) = r BY DEF NetSizes
<1>2. ASSUME NEW w
      PROVE  Run(w) <=> w = [e \in E |-> NetBody(els, e, Inner(w, kids[e]))]
  <2>1. [e \in E |-> NetBody(els, e, Inner(w, kids[e]))]
          = [e \in E |-> NetBody(els, e, Inner(w, NetKids(els, e.id)))]
    OBVIOUS
  <2> HIDE DEF E, kids
  <2>2. Run(w) <=> w = [e \in E |-> NetBody(els, e, Inner(w, NetKids(els, e.id)))]
    BY DEF NetBody, Inner
  <2> QED BY <2>1, <2>2
<1> HIDE DEF Run
<1>3. \A e \in E : kids[e] = NetKids(els, e.id) OBVIOUS
<1>4. \A e \in Elements(els) : Lists(kids[e], {f \in Elements(els) : f.parent = e.id})
  BY KidsList
<1> HIDE DEF kids
<1>5. G \in [Elements(els) \X Seq(SizeV) -> SizeV]
  <2>1. \A e \in E : \A s \in Seq(SizeV) : NetBody(els, e, s) \in SizeV BY NetBodyRoom
  <2> QED BY <2>1
<1>6. \A e \in E : \A s \in Seq(SizeV) : G[<<e, s>>] = NetBody(els, e, s) OBVIOUS
<1> HIDE DEF G
<1>7. SizeV # {}
  <2>1. [w |-> 0, h |-> 0] \in SizeV BY DEF SizeV
  <2> QED BY <2>1
<1>8. PICK g \in [E -> SizeV] : Inward(g, els, kids, G) BY <1>4, <1>5, <1>7, KidsRecursion
<1>9. Run(g)
  <2>1. \A e \in Elements(els) : Inner(g, kids[e]) \in Seq(SizeV) => g[e] = G[<<e, Inner(g, kids[e])>>]
    BY <1>8 DEF Inward
  <2>2. \A e \in Elements(els) : Inner(g, kids[e]) \in Seq(SizeV) BY <1>4, <1>5, <2>1, KidsTyped
  <2>3. ASSUME NEW e \in E PROVE g[e] = NetBody(els, e, Inner(g, kids[e])) BY <1>6, <2>1, <2>2
  <2>4. g = [e \in E |-> g[e]] OBVIOUS
  <2>5. g = [e \in E |-> NetBody(els, e, Inner(g, kids[e]))] BY <2>3, <2>4
  <2> QED BY <1>2, <2>5
<1>10. Run(r) BY <1>9
<1> HIDE DEF r
<1>11. ASSUME NEW e \in E PROVE r[e] = NetBody(els, e, Inner(r, kids[e]))
  <2>1. r = [f \in E |-> NetBody(els, f, Inner(r, kids[f]))] BY <1>2, <1>10
  <2> QED BY <2>1
<1>12. \A e \in Elements(els) : Inner(r, kids[e]) \in Seq(SizeV) => r[e] = G[<<e, Inner(r, kids[e])>>]
  BY <1>6, <1>11
<1>13. \A e \in Elements(els) : r[e] \in SizeV /\ Inner(r, kids[e]) \in Seq(SizeV)
  BY <1>4, <1>5, <1>12, KidsTyped
<1>14. ASSUME NEW e \in E
       PROVE  /\ r[e] \in SizeV /\ r[e] = NetBody(els, e, Inner(r, NetKids(els, e.id)))
              /\ Inner(r, NetKids(els, e.id)) \in Seq(SizeV)
  BY <1>3, <1>11, <1>13
<1> QED BY <1>1, <1>14
(* The boxes of a network fit.                                             *)
LEMMA NetFit ==
    ASSUME NEW els, Nested(els)
    PROVE  LET size == NetSizes(els)
               cell == [e \in Elements(els) |->
                          LET kids == NetKids(els, e.parent)
                          IN  VariableGrid([i \in DOMAIN kids |-> size[kids[i]]],
                                           IF e.parent = Root THEN Len(kids) ELSE SqrtUp(Len(kids)),
                                           NetGap).cells[NthOf(kids, e)]]
           IN  Fit(els, Elements(els), size, cell, Pad, Header)
<1> DEFINE E == Elements(els)
           P == {Root} \cup Ids(els)
           size == NetSizes(els)
           list == [p \in P |-> NetKids(els, p)]
           columns(p) == IF p = Root THEN Len(NetKids(els, p)) ELSE SqrtUp(Len(NetKids(els, p)))
           cells == [p \in P |-> VariableGrid(Inner(size, NetKids(els, p)), columns(p), NetGap).cells]
           cell == [e \in E |->
                      LET kids == NetKids(els, e.parent)
                      IN  VariableGrid([i \in DOMAIN kids |-> size[kids[i]]],
                                       IF e.parent = Root THEN Len(kids) ELSE SqrtUp(Len(kids)),
                                       NetGap).cells[NthOf(kids, e)]]
<1>1. \A e \in E : /\ size[e] \in SizeV
                   /\ size[e] = NetBody(els, e, Inner(size, NetKids(els, e.id)))
  BY NetSolved
<1> HIDE DEF size
<1>2. \A e \in E : size[e].w \in Nat /\ size[e].h \in Nat BY <1>1 DEF SizeV
<1>3. \A e \in E : e.parent \in P /\ e.id \in P /\ e.id # Root
  <2>1. \A e \in E : e.parent # Root => e.parent \in Ids(els) BY NestedFacts
  <2>2. \A e \in E : e.id # Root /\ e.id \in Ids(els) BY NestedFacts
  <2> QED BY <2>1, <2>2
<1>4. \A e \in E : e.parent # Root =>
        Element(els, e.parent) \in E /\ Element(els, e.parent).id = e.parent
          /\ Element(els, e.parent).group
  BY NestedFacts
<1>5. ASSUME NEW p \in P
      PROVE  /\ Lists(list[p], {f \in E : f.parent = p}) /\ list[p] = NetKids(els, p)
             /\ cells[p] = VariableGrid(Inner(size, list[p]), columns(p), NetGap).cells
  <2>1. list[p] = NetKids(els, p) OBVIOUS
  <2>2. Lists(NetKids(els, p), {f \in E : f.parent = p}) BY KidsList
  <2> QED BY <2>1, <2>2
<1>6. ASSUME NEW e \in E PROVE cell[e] = cells[e.parent][NthOf(list[e.parent], e)]
  <2>1. cell[e] = VariableGrid(Inner(size, NetKids(els, e.parent)), columns(e.parent),
                               NetGap).cells[NthOf(NetKids(els, e.parent), e)]
    BY DEF Inner
  <2> HIDE DEF cell, cells, list, columns
  <2> QED BY <1>3, <1>5, <2>1
<1>7. ASSUME NEW p \in P PROVE columns(p) \in Nat
  <2> DEFINE in == {f \in E : f.parent = p}
  <2>1. Lists(NetKids(els, p), in) BY KidsList
  <2> HIDE DEF in
  <2>2. Len(NetKids(els, p)) \in Nat BY <2>1, ListFacts
  <2>3. SqrtUp(Len(NetKids(els, p))) \in Nat BY <2>2, SqrtTyped
  <2> QED BY <2>2, <2>3
<1> HIDE DEF cell, cells, list, P, E, columns
<1>8. ASSUME NEW p \in P
      PROVE  /\ Inner(size, list[p]) \in Seq(SizeV)
             /\ \A i \in DOMAIN list[p] : Inner(size, list[p])[i] = size[list[p][i]]
             /\ DOMAIN Inner(size, list[p]) = DOMAIN list[p]
  <2> DEFINE in == {f \in E : f.parent = p}
  <2>1. Lists(list[p], in) /\ \A f \in in : size[f] \in SizeV BY <1>1, <1>5
  <2> HIDE DEF in
  <2>2. Inner(size, list[p]) \in Seq(SizeV) BY <2>1, InnerTyped
  <2> QED BY <2>2 DEF Inner
<1>9. ASSUME NEW p \in P PROVE Packed(cells[p], Inner(size, list[p]))
  <2> DEFINE s == Inner(size, list[p])
             c == columns(p)
  <2>1. Sized(s) /\ c \in Nat BY <1>7, <1>8, SizedSeq
  <2>2. NetGap \in Nat BY DEF NetGap
  <2>3. cells[p] = VariableGrid(s, c, NetGap).cells BY <1>5
  <2> HIDE DEF s, c
  <2>4. Packed(VariableGrid(s, c, NetGap).cells, s) BY <2>1, <2>2, GridPacked
  <2>5. Packed(cells[p], s) BY <2>3, <2>4
  <2> QED BY <2>5 DEF s
<1>10. ASSUME NEW e \in E, e.parent # Root, NEW i \in DOMAIN list[e.parent]
       PROVE  LET p == Element(els, e.parent)
              IN  /\ (Pad + cells[e.parent][i].x) + size[list[e.parent][i]].w <= size[p].w
                  /\ (Header + cells[e.parent][i].y) + size[list[e.parent][i]].h <= size[p].h
  <2> DEFINE p == Element(els, e.parent)
             s == Inner(size, list[e.parent])
             c == VariableGrid(s, SqrtUp(Len(NetKids(els, p.id))), NetGap).cells
             b == NetBody(els, p, s)
  <2>1. p \in E /\ p.id = e.parent /\ p.group /\ e.parent \in P BY <1>3, <1>4, <1>10
  <2> HIDE DEF p
  <2>2. list[e.parent] = NetKids(els, p.id) /\ columns(e.parent) = SqrtUp(Len(NetKids(els, p.id)))
    BY <1>5, <1>10, <2>1 DEF columns
  <2>3. cells[e.parent] = c BY <1>5, <2>1, <2>2
  <2>4. size[p] = b BY <1>1, <2>1, <2>2
  <2>5. s \in Seq(SizeV) /\ i \in DOMAIN s /\ s[i] = size[list[e.parent][i]] BY <1>8, <1>10, <2>1
  <2>6. p \in Elements(els) BY <2>1 DEF E
  <2> HIDE DEF s
  <2>7. \A j \in DOMAIN s : /\ (Pad + c[j].x) + s[j].w <= b.w
                            /\ (Header + c[j].y) + s[j].h <= b.h
    BY <2>1, <2>5, <2>6, NetBodyRoom
  <2> HIDE DEF c, b
  <2>8. /\ (Pad + cells[e.parent][i].x) + size[list[e.parent][i]].w <= size[p].w
        /\ (Header + cells[e.parent][i].y) + size[list[e.parent][i]].h <= size[p].h
    BY <2>3, <2>4, <2>5, <2>7
  <2> QED BY <2>8 DEF p
<1>11. Fit(els, Elements(els), size, cell, Pad, Header)
  <2>1. \A e \in Elements(els) : e.parent # Root => Element(els, e.parent) \in Elements(els)
    BY <1>4 DEF E
  <2>2. \A e \in Elements(els) : size[e].w \in Nat /\ size[e].h \in Nat BY <1>2 DEF E
  <2>3. Pad \in Nat /\ Header \in Nat BY DEF Pad, Header
  <2>4. \A e \in Elements(els) :
          /\ Lists(list[e.parent], {f \in Elements(els) : f.parent = e.parent})
          /\ Packed(cells[e.parent], Inner(size, list[e.parent]))
          /\ cell[e] = cells[e.parent][NthOf(list[e.parent], e)]
    BY <1>3, <1>5, <1>6, <1>9 DEF E
  <2>5. \A e \in Elements(els) : e.parent # Root =>
          LET p == Element(els, e.parent)
          IN  \A i \in DOMAIN list[e.parent] :
                /\ (Pad + cells[e.parent][i].x) + size[list[e.parent][i]].w <= size[p].w
                /\ (Header + cells[e.parent][i].y) + size[list[e.parent][i]].h <= size[p].h
    BY <1>10 DEF E
  <2>6. Nested(els) /\ Elements(els) \subseteq Elements(els) OBVIOUS
  <2> QED BY ONLY <2>1, <2>2, <2>3, <2>4, <2>5, <2>6, ArrangedFit
<1> QED BY <1>11 DEF cell, size, E

-----------------------------------------------------------------------------
(* Clouds and C4.                                                          *)

ShelfBody(els, collapsed, squarish, gap, e, inner) ==
    LET kids == Kids(els, e.id)
        cells == Shelves(inner, ShelfColumns(squarish, kids), 0, gap, gap)
    IN  IF kids = << >> \/ e.id \in collapsed
        THEN [w |-> LeafWidth(e), h |-> LeafHeight]
        ELSE [w |-> Reach(cells, inner) + 2 * Pad, h |-> Depth(cells, inner) + Header + Pad]

(* An item has a size, and what holds others the room for its shelves      *)
(* unless it is folded.                                                    *)
LEMMA ShelfBodyRoom ==
    ASSUME NEW els, Nested(els), NEW collapsed, NEW squarish, NEW gap \in Nat,
           NEW e \in Elements(els), NEW s \in Seq(SizeV)
    PROVE  LET b == ShelfBody(els, collapsed, squarish, gap, e, s)
               c == Shelves(s, ShelfColumns(squarish, Kids(els, e.id)), 0, gap, gap)
           IN  /\ b \in SizeV
               /\ Kids(els, e.id) # << >> /\ e.id \notin collapsed =>
                    \A i \in DOMAIN s : /\ (Pad + c[i].x) + s[i].w <= b.w
                                        /\ (Header + c[i].y) + s[i].h <= b.h
<1> DEFINE n == ShelfColumns(squarish, Kids(els, e.id))
           c == Shelves(s, n, 0, gap, gap)
           b == ShelfBody(els, collapsed, squarish, gap, e, s)
           leaf == Kids(els, e.id) = << >> \/ e.id \in collapsed
           R == Reach(c, s)
           D == Depth(c, s)
<1>1. LeafWidth(e) \in Nat
  <2>1. e.label \in Nat BY NestedFacts
  <2> QED BY <2>1 DEF LeafWidth, ClampedWidth, Larger
<1>2. b = IF leaf THEN [w |-> LeafWidth(e), h |-> 56]
          ELSE [w |-> R + 32, h |-> D + 26 + 16]
  BY DEF ShelfBody, LeafHeight, Pad, Header
<1> HIDE DEF n
<1>3. Sized(s) BY SizedSeq
<1>4. Packed(c, s) BY ONLY <1>3, gap \in Nat, ShelvesPacked
<1> HIDE DEF c, leaf, b
<1>5. /\ R \in Nat /\ D \in Nat
      /\ \A i \in DOMAIN s : c[i].x + s[i].w <= R /\ c[i].y + s[i].h <= D
  BY <1>3, <1>4, ReachHolds
<1>6. \A i \in DOMAIN s : /\ c[i].x \in Nat /\ c[i].y \in Nat /\ s[i].w \in Nat /\ s[i].h \in Nat
  BY <1>3, <1>4 DEF Packed, Sized
<1> HIDE DEF R, D
<1>7. b \in SizeV
  <2>1. R + 32 \in Nat /\ D + 26 + 16 \in Nat BY <1>5
  <2> QED BY <1>1, <1>2, <2>1 DEF SizeV
<1>8. ASSUME ~leaf, NEW i \in DOMAIN s
      PROVE  (Pad + c[i].x) + s[i].w <= b.w /\ (Header + c[i].y) + s[i].h <= b.h
  <2> DEFINE cx == c[i].x
             cy == c[i].y
             sw == s[i].w
             sh == s[i].h
             bw == b.w
             bh == b.h
  <2>1. bw = R + 32 /\ bh = D + 26 + 16 BY <1>2, <1>8
  <2>2. /\ cx \in Nat /\ cy \in Nat /\ sw \in Nat /\ sh \in Nat /\ cx + sw <= R /\ cy + sh <= D
    BY <1>5, <1>6
  <2> HIDE DEF cx, cy, sw, sh, bw, bh
  <2>3. (16 + cx) + sw <= bw /\ (26 + cy) + sh <= bh BY ONLY <1>5, <2>1, <2>2
  <2> QED BY <2>3 DEF cx, cy, sw, sh, bw, bh, Pad, Header
<1> QED BY <1>7, <1>8 DEF b, c, n, leaf

(* The sizes on the shelves, each come of those within.                    *)
LEMMA ShelfSolved ==
    ASSUME NEW els, Nested(els), NEW collapsed, NEW squarish, NEW gap \in Nat
    PROVE  LET size == ShelfSizes(els, collapsed, squarish, gap)
           IN  \A e \in Elements(els) :
                 /\ size[e] \in SizeV
                 /\ size[e] = ShelfBody(els, collapsed, squarish, gap, e, Inner(size, Kids(els, e.id)))
<1> DEFINE E == Elements(els)
           kids == [e \in E |-> Kids(els, e.id)]
           Body(e, s) == ShelfBody(els, collapsed, squarish, gap, e, s)
           G == [q \in E \X Seq(SizeV) |-> Body(q[1], q[2])]
           Run(w) == w = [e \in E |->
             LET ks == Kids(els, e.id)
                 inner == [i \in DOMAIN ks |-> w[ks[i]]]
                 cells == Shelves(inner, ShelfColumns(squarish, ks), 0, gap, gap)
             IN  IF ks = << >> \/ e.id \in collapsed
                 THEN [w |-> LeafWidth(e), h |-> LeafHeight]
                 ELSE [w |-> Reach(cells, inner) + 2 * Pad, h |-> Depth(cells, inner) + Header + Pad]]
           r == CHOOSE w : Run(w)
<1>1. ShelfSizes(els, collapsed, squarish, gap) = r BY DEF ShelfSizes
<1>2. ASSUME NEW w
      PROVE  Run(w) <=> w = [e \in E |-> Body(e, Inner(w, kids[e]))]
  <2>1. [e \in E |-> Body(e, Inner(w, kids[e]))] = [e \in E |-> Body(e, Inner(w, Kids(els, e.id)))]
    OBVIOUS
  <2> HIDE DEF E, kids
  <2>2. Run(w) <=> w = [e \in E |-> Body(e, Inner(w, Kids(els, e.id)))] BY DEF ShelfBody, Inner
  <2> QED BY <2>1, <2>2
<1> HIDE DEF Run
<1>3. \A e \in E : kids[e] = Kids(els, e.id) OBVIOUS
<1>4. \A e \in Elements(els) : Lists(kids[e], {f \in Elements(els) : f.parent = e.id})
  BY KidsList
<1> HIDE DEF kids
<1>5. G \in [Elements(els) \X Seq(SizeV) -> SizeV]
  <2>1. \A e \in E : \A s \in Seq(SizeV) : Body(e, s) \in SizeV BY ShelfBodyRoom
  <2> HIDE DEF Body
  <2> QED BY <2>1
<1> HIDE DEF Body
<1>6. \A e \in E : \A s \in Seq(SizeV) : G[<<e, s>>] = Body(e, s) OBVIOUS
<1> HIDE DEF G
<1>7. SizeV # {}
  <2>1. [w |-> 0, h |-> 0] \in SizeV BY DEF SizeV
  <2> QED BY <2>1
<1>8. PICK g \in [E -> SizeV] : Inward(g, els, kids, G) BY <1>4, <1>5, <1>7, KidsRecursion
<1>9. Run(g)
  <2>1. \A e \in Elements(els) : Inner(g, kids[e]) \in Seq(SizeV) => g[e] = G[<<e, Inner(g, kids[e])>>]
    BY <1>8 DEF Inward
  <2>2. \A e \in Elements(els) : Inner(g, kids[e]) \in Seq(SizeV) BY <1>4, <1>5, <2>1, KidsTyped
  <2>3. ASSUME NEW e \in E PROVE g[e] = Body(e, Inner(g, kids[e])) BY <1>6, <2>1, <2>2
  <2>4. g = [e \in E |-> g[e]] OBVIOUS
  <2>5. g = [e \in E |-> Body(e, Inner(g, kids[e]))] BY <2>3, <2>4
  <2> QED BY <1>2, <2>5
<1>10. Run(r) BY <1>9
<1> HIDE DEF r
<1>11. ASSUME NEW e \in E PROVE r[e] = Body(e, Inner(r, kids[e]))
  <2>1. r = [f \in E |-> Body(f, Inner(r, kids[f]))] BY <1>2, <1>10
  <2> QED BY <2>1
<1>12. \A e \in Elements(els) : Inner(r, kids[e]) \in Seq(SizeV) => r[e] = G[<<e, Inner(r, kids[e])>>]
  BY <1>6, <1>11
<1>13. \A e \in Elements(els) : r[e] \in SizeV /\ Inner(r, kids[e]) \in Seq(SizeV)
  <2> HIDE DEF E
  <2> QED BY ONLY Nested(els), <1>4, <1>5, <1>12, KidsTyped
<1>14. ASSUME NEW e \in E
       PROVE  r[e] \in SizeV /\ r[e] = Body(e, Inner(r, Kids(els, e.id)))
  BY <1>3, <1>11, <1>13
<1> QED BY <1>1, <1>14 DEF Body
(* What stands for an element, by what stands for the group it is in.      *)
LEMMA AnchorSolved ==
    ASSUME NEW els, Nested(els), NEW collapsed
    PROVE  LET a == AnchorOf(els, collapsed)
           IN  \A e \in Elements(els) :
                 /\ e.parent = Root => a[e] = e.id
                 /\ e.parent # Root =>
                      LET p == Element(els, e.parent)
                      IN  a[e] = IF a[p] = p.id /\ p.id \notin collapsed THEN e.id ELSE a[p]
<1> DEFINE E == Elements(els)
           V == {Root} \cup Ids(els)
           Up(e, a) == IF e.parent = Root THEN e.id
                       ELSE IF a = Element(els, e.parent).id /\ Element(els, e.parent).id \notin collapsed
                            THEN e.id ELSE a
           G == [q \in E \X V |-> Up(q[1], q[2])]
           Run(w) == w = [e \in E |->
             IF e.parent = Root THEN e.id
             ELSE LET p == Element(els, e.parent)
                      a == w[p]
                  IN  IF a = p.id /\ p.id \notin collapsed THEN e.id ELSE a]
           r == CHOOSE w : Run(w)
           Of(w, e) == IF e.parent = Root THEN Root ELSE w[Element(els, e.parent)]
<1>1. AnchorOf(els, collapsed) = r BY DEF AnchorOf
<1>2. ASSUME NEW w
      PROVE  Run(w) <=> w = [e \in E |-> Up(e, Of(w, e))]
  <2>1. ASSUME NEW e
        PROVE  Up(e, Of(w, e)) =
                 IF e.parent = Root THEN e.id
                 ELSE IF w[Element(els, e.parent)] = Element(els, e.parent).id
                         /\ Element(els, e.parent).id \notin collapsed
                      THEN e.id ELSE w[Element(els, e.parent)]
    OBVIOUS
  <2> HIDE DEF Up, Of
  <2> QED BY <2>1
<1> HIDE DEF Run
<1>3. ASSUME NEW e \in E, NEW a \in V PROVE Up(e, a) \in V
  <2>1. e.id \in Ids(els) BY NestedFacts
  <2> QED BY <2>1
<1> HIDE DEF Up
<1>4. G \in [E \X V -> V] BY <1>3
<1>5. \A e \in E : \A a \in V : G[<<e, a>>] = Up(e, a) OBVIOUS
<1> HIDE DEF G
<1>6. \A e \in E : e.parent # Root => Element(els, e.parent) \in E BY NestedFacts
<1>7. Root \in V OBVIOUS
<1> HIDE DEF V
<1>8. PICK g \in [E -> V] : Outward(g, els, E, Root, G)
  <2>1. E \subseteq Elements(els) OBVIOUS
  <2> HIDE DEF E
  <2> QED BY <1>4, <1>6, <1>7, <2>1, ParentsRecursion
<1>9. Run(g)
  <2>1. ASSUME NEW e \in E PROVE g[e] = Up(e, Of(g, e))
    <3>1. Of(g, e) \in V BY <1>6, <1>7
    <3>2. g[e] = G[<<e, Of(g, e)>>] BY <1>8 DEF Outward
    <3> HIDE DEF Of
    <3> QED BY <1>5, <3>1, <3>2
  <2>2. g = [e \in E |-> g[e]] OBVIOUS
  <2> HIDE DEF Of
  <2>3. g = [e \in E |-> Up(e, Of(g, e))] BY <2>1, <2>2
  <2> QED BY <1>2, <2>3
<1>10. Run(r) BY <1>9
<1> HIDE DEF r
<1>11. ASSUME NEW e \in E PROVE r[e] = Up(e, Of(r, e))
  <2>1. r = [f \in E |-> Up(f, Of(r, f))] BY <1>2, <1>10
  <2> HIDE DEF Of
  <2> QED BY <2>1
<1>12. ASSUME NEW e \in E
       PROVE  /\ e.parent = Root => r[e] = e.id
              /\ e.parent # Root =>
                   LET p == Element(els, e.parent)
                   IN  r[e] = IF r[p] = p.id /\ p.id \notin collapsed THEN e.id ELSE r[p]
  BY <1>11 DEF Up
<1> QED BY <1>1, <1>12

(* What stands for an element is an element that is shown; groups of shown *)
(* elements are shown, and not folded.                                     *)
LEMMA AnchorsShown ==
    ASSUME NEW els, Nested(els), NEW collapsed
    PROVE  LET a == AnchorOf(els, collapsed)
           IN  /\ \A e \in Elements(els) : a[e] \in Ids(els) /\ Element(els, a[e]) \in Visible(els, collapsed)
               /\ \A e \in Visible(els, collapsed) : e.parent # Root =>
                    LET p == Element(els, e.parent)
                    IN  p \in Visible(els, collapsed) /\ p.id \notin collapsed
<1> DEFINE E == Elements(els)
           a == AnchorOf(els, collapsed)
           Sh == Visible(els, collapsed)
<1>1. \A e \in E :
        /\ e.parent = Root => a[e] = e.id
        /\ e.parent # Root =>
             LET p == Element(els, e.parent)
             IN  a[e] = IF a[p] = p.id /\ p.id \notin collapsed THEN e.id ELSE a[p]
  BY AnchorSolved
<1>2. \A e \in E : e \in Sh <=> a[e] = e.id BY DEF Visible
<1>3. \A e \in E : e.id \in Ids(els) /\ Element(els, e.id) = e BY NestedFacts
<1>4. \A e \in E : e.parent # Root => Element(els, e.parent) \in E BY NestedFacts
<1>0. PICK D \in Nat : \E down, up \in [E -> 0..D] :
        \A e \in E : e.parent # Root => down[Element(els, e.parent)] < down[e]
  BY Ranks
<1>5. PICK down \in [E -> 0..D], up \in [E -> 0..D] :
        \A e \in E : e.parent # Root => down[Element(els, e.parent)] < down[e]
  BY <1>0
<1>6. \A e \in E : down[e] \in Nat BY <1>5
<1> HIDE DEF a
<1> DEFINE f(e) == Element(els, a[e])
           T == {e \in E : /\ a[e] \in Ids(els) /\ f(e) \in E /\ a[f(e)] = a[e] /\ f(e).id = a[e]
                           /\ down[f(e)] <= down[e]}
<1>7. ASSUME NEW e \in E, e.parent # Root => Element(els, e.parent) \in T PROVE e \in T
  <2>1. CASE a[e] = e.id
    <3>1. f(e) = e BY <1>3, <2>1
    <3> QED BY <1>3, <1>6, <2>1, <3>1
  <2>2. CASE a[e] # e.id
    <3>1. e.parent # Root BY <1>1, <2>2
    <3> DEFINE p == Element(els, e.parent)
    <3>2. p \in T /\ down[p] < down[e] BY <1>5, <1>7, <3>1
    <3>3. a[e] = a[p] BY <1>1, <2>2, <3>1
    <3> HIDE DEF p
    <3>4. f(e) = f(p) BY <3>3
    <3>5. down[f(e)] \in Nat /\ down[p] \in Nat /\ down[e] \in Nat BY <1>6, <3>2, <3>4
    <3>6. down[f(e)] <= down[p] BY <3>2, <3>4
    <3>7. down[f(e)] <= down[e] BY ONLY <3>2, <3>5, <3>6
    <3> HIDE DEF f
    <3> QED BY <3>2, <3>3, <3>4, <3>7
  <2> QED BY <2>1, <2>2
<1>8. E \subseteq T
  <2> HIDE DEF T
  <2> QED BY <1>7, ParentsInduct
<1>9. ASSUME NEW e \in E PROVE a[e] \in Ids(els) /\ f(e) \in Sh
  <2>1. /\ a[e] \in Ids(els) /\ f(e) \in E /\ a[f(e)] = a[e] /\ f(e).id = a[e] BY <1>8
  <2> HIDE DEF f
  <2> QED BY <1>2, <2>1
<1>10. ASSUME NEW e \in Sh, e.parent # Root
       PROVE  LET p == Element(els, e.parent) IN p \in Sh /\ p.id \notin collapsed
  <2> DEFINE p == Element(els, e.parent)
  <2>1. e \in E BY DEF Visible
  <2>2. a[e] = e.id /\ p \in E /\ down[p] < down[e] BY <1>2, <1>4, <1>5, <1>10, <2>1
  <2>3. a[e] = IF a[p] = p.id /\ p.id \notin collapsed THEN e.id ELSE a[p] BY <1>1, <1>10, <2>1
  <2> HIDE DEF p
  <2>4. CASE a[p] = p.id /\ p.id \notin collapsed BY <1>2, <2>2, <2>4 DEF p
  <2>5. CASE ~(a[p] = p.id /\ p.id \notin collapsed)
    <3>1. a[p] = e.id BY <2>2, <2>3, <2>5
    <3>2. f(p) = e BY <1>3, <2>1, <3>1
    <3>3. down[e] <= down[p] BY <1>8, <2>2, <3>2
    <3>4. down[e] \in Nat /\ down[p] \in Nat BY <1>6, <2>1, <2>2
    <3> QED BY ONLY <2>2, <3>3, <3>4
  <2> QED BY <2>4, <2>5
<1> QED BY <1>9, <1>10 DEF a

(* The order of the elements changes nothing in what stands for them.      *)
LEMMA AnchorsAgree ==
    ASSUME NEW els, Nested(els), NEW other, Nested(other), Elements(other) = Elements(els),
           NEW collapsed
    PROVE  \A e \in Elements(els) : AnchorOf(other, collapsed)[e] = AnchorOf(els, collapsed)[e]
<1> DEFINE E == Elements(els)
           a == AnchorOf(els, collapsed)
           b == AnchorOf(other, collapsed)
           T == {e \in E : b[e] = a[e]}
<1>1. ASSUME NEW e \in E, e.parent # Root => Element(els, e.parent) \in T PROVE e \in T
  <2>1. CASE e.parent = Root
    <3>1. a[e] = e.id BY <2>1, AnchorSolved
    <3>2. b[e] = e.id
      <4>1. e \in Elements(other) OBVIOUS
      <4> QED BY <2>1, <4>1, AnchorSolved
    <3> QED BY <3>1, <3>2
  <2>2. CASE e.parent # Root
    <3> DEFINE p == Element(els, e.parent)
               q == Element(other, e.parent)
    <3>1. p \in E /\ p.id = e.parent BY <2>2, NestedFacts
    <3>2. q \in E /\ q.id = e.parent BY <2>2, NestedFacts
    <3>3. \A x, y \in E : x.id = y.id => x = y BY NestedFacts
    <3>4. a[e] = IF a[p] = p.id /\ p.id \notin collapsed THEN e.id ELSE a[p] BY <2>2, AnchorSolved
    <3>5. b[e] = IF b[q] = q.id /\ q.id \notin collapsed THEN e.id ELSE b[q]
      <4>1. e \in Elements(other) OBVIOUS
      <4> QED BY <2>2, <4>1, AnchorSolved
    <3>6. p \in T BY <1>1, <2>2
    <3> HIDE DEF p, q, a, b
    <3>7. q = p BY <3>1, <3>2, <3>3
    <3> QED BY <3>4, <3>5, <3>6, <3>7
  <2> QED BY <2>1, <2>2
<1>2. E \subseteq T
  <2> HIDE DEF T
  <2> QED BY <1>1, ParentsInduct
<1> QED BY <1>2

(* The boxes on shelves fit, whatever is folded.                           *)
LEMMA ShelfFit ==
    ASSUME NEW els, Nested(els), NEW collapsed, NEW squarish, NEW gap \in Nat, NEW budget,
           NEW rowGap \in Nat
    PROVE  LET size == ShelfSizes(els, collapsed, squarish, gap)
               cell == [e \in Visible(els, collapsed) |->
                          LET kids == Kids(els, e.parent)
                              inner == [i \in DOMAIN kids |-> size[kids[i]]]
                          IN  (IF e.parent = Root
                               THEN Shelves(inner, Larger(1, Len(kids)), budget, gap, rowGap)
                               ELSE Shelves(inner, ShelfColumns(squarish, kids), 0, gap, gap))
                              [NthOf(kids, e)]]
           IN  Fit(els, Visible(els, collapsed), size, cell, Pad, Header)
<1> DEFINE E == Elements(els)
           Sh == Visible(els, collapsed)
           P == {Root} \cup Ids(els)
           size == ShelfSizes(els, collapsed, squarish, gap)
           list == [p \in P |-> Kids(els, p)]
           shelves(p) == IF p = Root
                         THEN Shelves(Inner(size, Kids(els, p)), Larger(1, Len(Kids(els, p))),
                                      budget, gap, rowGap)
                         ELSE Shelves(Inner(size, Kids(els, p)), ShelfColumns(squarish, Kids(els, p)),
                                      0, gap, gap)
           cells == [p \in P |-> shelves(p)]
           cell == [e \in Sh |->
                      LET kids == Kids(els, e.parent)
                          inner == [i \in DOMAIN kids |-> size[kids[i]]]
                      IN  (IF e.parent = Root
                           THEN Shelves(inner, Larger(1, Len(kids)), budget, gap, rowGap)
                           ELSE Shelves(inner, ShelfColumns(squarish, kids), 0, gap, gap))
                          [NthOf(kids, e)]]
<1>1. \A e \in E :
        /\ size[e] \in SizeV
        /\ size[e] = ShelfBody(els, collapsed, squarish, gap, e, Inner(size, Kids(els, e.id)))
  BY ShelfSolved
<1> HIDE DEF size
<1>2. \A e \in E : size[e].w \in Nat /\ size[e].h \in Nat BY <1>1 DEF SizeV
<1>3. \A e \in E : e.parent \in P
  <2>1. \A e \in E : e.parent # Root => e.parent \in Ids(els) BY NestedFacts
  <2> QED BY <2>1
<1>4. \A e \in E : e.parent # Root =>
        Element(els, e.parent) \in E /\ Element(els, e.parent).id = e.parent
  BY NestedFacts
<1>5. ASSUME NEW p \in P
      PROVE  /\ Lists(list[p], {f \in E : f.parent = p}) /\ list[p] = Kids(els, p)
             /\ cells[p] = shelves(p)
  <2>1. list[p] = Kids(els, p) OBVIOUS
  <2>2. Lists(Kids(els, p), {f \in E : f.parent = p}) BY KidsList
  <2>3. cells[p] = shelves(p)
    <3> HIDE DEF shelves
    <3> QED OBVIOUS
  <2> QED BY <2>1, <2>2, <2>3
<1>s. Sh \subseteq E BY DEF Visible
<1>6. ASSUME NEW e \in Sh PROVE cell[e] = cells[e.parent][NthOf(list[e.parent], e)]
  <2>1. cell[e] = shelves(e.parent)[NthOf(Kids(els, e.parent), e)] BY DEF Inner
  <2> HIDE DEF cell, cells, list, shelves, E, Sh
  <2>2. e \in E BY <1>s
  <2> QED BY <1>3, <1>5, <2>1, <2>2
<1> HIDE DEF cell, cells, list, P, E, shelves
<1>8. ASSUME NEW p \in P
      PROVE  /\ Inner(size, list[p]) \in Seq(SizeV)
             /\ \A i \in DOMAIN list[p] : Inner(size, list[p])[i] = size[list[p][i]]
             /\ DOMAIN Inner(size, list[p]) = DOMAIN list[p]
  <2> DEFINE in == {f \in E : f.parent = p}
  <2>1. Lists(list[p], in) /\ \A f \in in : size[f] \in SizeV BY <1>1, <1>5
  <2> HIDE DEF in
  <2>2. Inner(size, list[p]) \in Seq(SizeV) BY <2>1, InnerTyped
  <2> QED BY <2>2 DEF Inner
<1>9. ASSUME NEW p \in P PROVE Packed(cells[p], Inner(size, list[p]))
  <2> DEFINE s == Inner(size, list[p])
  <2>1. Sized(s) /\ gap \in Nat /\ rowGap \in Nat BY <1>8, SizedSeq
  <2>2. \/ cells[p] = Shelves(s, Larger(1, Len(Kids(els, p))), budget, gap, rowGap)
        \/ cells[p] = Shelves(s, ShelfColumns(squarish, Kids(els, p)), 0, gap, gap)
    BY <1>5 DEF shelves
  <2> HIDE DEF s
  <2>3. Packed(Shelves(s, Larger(1, Len(Kids(els, p))), budget, gap, rowGap), s)
    BY ONLY <2>1, ShelvesPacked
  <2>4. Packed(Shelves(s, ShelfColumns(squarish, Kids(els, p)), 0, gap, gap), s)
    BY ONLY <2>1, ShelvesPacked
  <2>5. Packed(cells[p], s) BY ONLY <2>2, <2>3, <2>4
  <2> QED BY <2>5 DEF s
<1>7. \A e \in Sh : e.parent # Root =>
        Element(els, e.parent) \in Sh /\ Element(els, e.parent).id \notin collapsed
  BY AnchorsShown
<1>10. ASSUME NEW e \in Sh, e.parent # Root, NEW i \in DOMAIN list[e.parent]
       PROVE  LET p == Element(els, e.parent)
              IN  /\ (Pad + cells[e.parent][i].x) + size[list[e.parent][i]].w <= size[p].w
                  /\ (Header + cells[e.parent][i].y) + size[list[e.parent][i]].h <= size[p].h
  <2> DEFINE p == Element(els, e.parent)
             s == Inner(size, list[e.parent])
             c == Shelves(s, ShelfColumns(squarish, Kids(els, p.id)), 0, gap, gap)
             b == ShelfBody(els, collapsed, squarish, gap, p, s)
  <2>0. e \in E BY <1>s
  <2>1. p \in E /\ p.id = e.parent /\ p.id \notin collapsed /\ e.parent \in P
    BY <1>3, <1>4, <1>7, <1>10, <2>0
  <2> HIDE DEF p
  <2>2. list[e.parent] = Kids(els, p.id) BY <1>5, <2>1
  <2>3. cells[e.parent] = c BY <1>5, <1>10, <2>1, <2>2 DEF shelves
  <2>4. size[p] = b BY <1>1, <2>1, <2>2
  <2>5. s \in Seq(SizeV) /\ i \in DOMAIN s /\ s[i] = size[list[e.parent][i]] BY <1>8, <1>10, <2>1
  <2>6. p \in Elements(els) BY <2>1 DEF E
  <2>9. Kids(els, p.id) # << >> BY <1>10, <2>2
  <2> HIDE DEF s
  <2>7. \A j \in DOMAIN s : /\ (Pad + c[j].x) + s[j].w <= b.w
                            /\ (Header + c[j].y) + s[j].h <= b.h
    BY <2>1, <2>5, <2>6, <2>9, ShelfBodyRoom
  <2> HIDE DEF c, b
  <2>8. /\ (Pad + cells[e.parent][i].x) + size[list[e.parent][i]].w <= size[p].w
        /\ (Header + cells[e.parent][i].y) + size[list[e.parent][i]].h <= size[p].h
    BY <2>3, <2>4, <2>5, <2>7
  <2> QED BY <2>8 DEF p
<1>11. Fit(els, Sh, size, cell, Pad, Header)
  <2>1. \A e \in Sh : e.parent # Root => Element(els, e.parent) \in Sh BY <1>7
  <2>2. \A e \in Elements(els) : size[e].w \in Nat /\ size[e].h \in Nat BY <1>2 DEF E
  <2>3. Pad \in Nat /\ Header \in Nat BY DEF Pad, Header
  <2>4. \A e \in Sh :
          /\ Lists(list[e.parent], {f \in Elements(els) : f.parent = e.parent})
          /\ Packed(cells[e.parent], Inner(size, list[e.parent]))
          /\ cell[e] = cells[e.parent][NthOf(list[e.parent], e)]
    BY <1>3, <1>5, <1>6, <1>9, <1>s DEF E
  <2>5. \A e \in Sh : e.parent # Root =>
          LET p == Element(els, e.parent)
          IN  \A i \in DOMAIN list[e.parent] :
                /\ (Pad + cells[e.parent][i].x) + size[list[e.parent][i]].w <= size[p].w
                /\ (Header + cells[e.parent][i].y) + size[list[e.parent][i]].h <= size[p].h
    BY <1>10
  <2>6. Nested(els) /\ Sh \subseteq Elements(els) BY <1>s DEF E
  <2> HIDE DEF Sh
  <2> QED BY ONLY <2>1, <2>2, <2>3, <2>4, <2>5, <2>6, ArrangedFit
<1> QED BY <1>11 DEF cell, size
-----------------------------------------------------------------------------
(* The scenes of nested boxes, and every scene.                            *)

LEMMA BlockSound ==
    ASSUME WellFormed(ast), ast.family = "block", scene \in LayoutByFamily(ast, cloudCollapsed)
    PROVE  SceneSound
<1>1. BlockDiagram(ast) /\ NestedDiagram(ast) BY DEF WellFormed, BlockDiagram
<1>2. scene = LayoutBlock(ast) BY DEF LayoutByFamily
<1>3. EndsDeclared <=> Named(ast) /\ ~TooDeep(ast.elements) BY DEF EndsDeclared
<1>4. OrderKept BY DEF OrderKept
<1>5. CASE ~Named(ast) \/ TooDeep(ast.elements)
  <2>1. scene = Err BY <1>2, <1>5 DEF LayoutBlock
  <2> QED BY <1>3, <1>5, <2>1, ErrOk, SoundWhen
<1>6. CASE Named(ast) /\ ~TooDeep(ast.elements)
  <2> DEFINE els == ast.elements
             item == BlockItems(ast)
             cell == [e \in Elements(els) |->
                        LET kids == Kids(els, e.parent)
                        IN  BlockCells([i \in DOMAIN kids |-> item[kids[i]]],
                                       ColumnsOf(ast, e.parent), Pitch(els))[NthOf(kids, e)]]
  <2>1. Nested(els)
    <3>1. Apart(els) BY <1>1 DEF NestedDiagram
    <3> QED BY <1>1, <3>1, ParsedNested
  <2>2. Fit(els, Elements(els), item, cell, BlockPad, BlockHeader) BY <1>1, <2>1, BlockFit
  <2>3. \A l \in ast.links : {l.from, l.to} \subseteq {e.id : e \in Elements(els)}
    BY <1>6 DEF Named, Ids
  <2>4. scene = Fitted(Boxes(els, Elements(els), item, cell, BlockPad, BlockHeader), ast.links, 0)
    BY <1>2, <1>6 DEF LayoutBlock
  <2> HIDE DEF item, cell, els
  <2>5. scene.ok = TRUE /\ SceneOk(scene) BY <2>1, <2>2, <2>3, <2>4, BoxesSound
  <2> QED BY <1>3, <1>4, <1>6, <2>5, SoundWhen
<1> QED BY <1>5, <1>6

LEMMA NetworkSound ==
    ASSUME WellFormed(ast), ast.family = "network", scene \in LayoutByFamily(ast, cloudCollapsed)
    PROVE  SceneSound
<1>1. NestedDiagram(ast) BY DEF WellFormed
<1>2. scene = LayoutNetwork(ast) BY DEF LayoutByFamily
<1>3. EndsDeclared <=> Named(ast) /\ ~TooDeep(ast.elements) BY DEF EndsDeclared
<1>4. OrderKept BY DEF OrderKept
<1>5. CASE ~Named(ast) \/ TooDeep(ast.elements)
  <2>1. scene = Err BY <1>2, <1>5 DEF LayoutNetwork
  <2> QED BY <1>3, <1>5, <2>1, ErrOk, SoundWhen
<1>6. CASE Named(ast) /\ ~TooDeep(ast.elements)
  <2> DEFINE els == ast.elements
             size == NetSizes(els)
             cell == [e \in Elements(els) |->
                        LET kids == NetKids(els, e.parent)
                        IN  VariableGrid([i \in DOMAIN kids |-> size[kids[i]]],
                                         IF e.parent = Root THEN Len(kids) ELSE SqrtUp(Len(kids)),
                                         NetGap).cells[NthOf(kids, e)]]
  <2>1. Nested(els)
    <3>1. Apart(els) BY <1>1 DEF NestedDiagram
    <3> QED BY <1>1, <3>1, ParsedNested
  <2>2. Fit(els, Elements(els), size, cell, Pad, Header) BY <2>1, NetFit
  <2>3. \A l \in ast.links : {l.from, l.to} \subseteq {e.id : e \in Elements(els)}
    BY <1>6 DEF Named, Ids
  <2>4. scene = Fitted(Boxes(els, Elements(els), size, cell, Pad, Header), ast.links, 0)
    BY <1>2, <1>6 DEF LayoutNetwork
  <2> HIDE DEF size, cell, els
  <2>5. scene.ok = TRUE /\ SceneOk(scene) BY <2>1, <2>2, <2>3, <2>4, BoxesSound
  <2> QED BY <1>3, <1>4, <1>6, <2>5, SoundWhen
<1> QED BY <1>5, <1>6

(* Shelves of any kind under links between what is shown.                  *)
LEMMA ShelvesSound ==
    ASSUME NEW els, Nested(els), NEW collapsed, NEW squarish, NEW gap \in Nat, NEW budget,
           NEW rowGap \in Nat, NEW edges,
           \A l \in edges : {l.from, l.to} \subseteq {e.id : e \in Visible(els, collapsed)}
    PROVE  LET s == Fitted(ShelfBoxes(els, collapsed, squarish, gap, budget, rowGap), edges, 0)
           IN  s.ok = TRUE /\ SceneOk(s)
<1> DEFINE Sh == Visible(els, collapsed)
           size == ShelfSizes(els, collapsed, squarish, gap)
           cell == [e \in Sh |->
                      LET kids == Kids(els, e.parent)
                          inner == [i \in DOMAIN kids |-> size[kids[i]]]
                      IN  (IF e.parent = Root
                           THEN Shelves(inner, Larger(1, Len(kids)), budget, gap, rowGap)
                           ELSE Shelves(inner, ShelfColumns(squarish, kids), 0, gap, gap))
                          [NthOf(kids, e)]]
<1>1. Fit(els, Sh, size, cell, Pad, Header) BY ShelfFit
<1>2. ShelfBoxes(els, collapsed, squarish, gap, budget, rowGap)
        = Boxes(els, Sh, size, cell, Pad, Header)
  BY DEF ShelfBoxes
<1>3. \A l \in edges : {l.from, l.to} \subseteq {e.id : e \in Sh} OBVIOUS
<1> HIDE DEF Sh, size, cell
<1> QED BY <1>1, <1>2, <1>3, BoxesSound

LEMMA CloudSound ==
    ASSUME WellFormed(ast), ast.family = "cloud", scene \in LayoutByFamily(ast, cloudCollapsed)
    PROVE  SceneSound
<1>1. NestedDiagram(ast) BY DEF WellFormed
<1>2. scene = LayoutCloud(ast, cloudCollapsed) BY DEF LayoutByFamily
<1>3. EndsDeclared <=> Named(ast) /\ ~ShownTooDeep(ast.elements, cloudCollapsed)
  BY DEF EndsDeclared
<1>4. OrderKept BY DEF OrderKept
<1>5. DeclaredOnce <=> Apart(ast.elements) BY DEF DeclaredOnce
<1>6. CASE ~Named(ast) \/ ShownTooDeep(ast.elements, cloudCollapsed)
  <2>1. scene = Err BY <1>2, <1>6 DEF LayoutCloud
  <2> QED BY <1>3, <1>6, <2>1, ErrOk, SoundWhen
<1>7. CASE /\ Named(ast) /\ ~ShownTooDeep(ast.elements, cloudCollapsed)
           /\ Apart(ast.elements)
  <2> DEFINE els == ast.elements
             first == GroupsFirst(els)
             edges == CloudLinks(ast, cloudCollapsed)
             a == AnchorOf(els, cloudCollapsed)
             anchor(id) == a[Element(els, id)]
  <2>1. Nested(els) BY <1>1, <1>7, ParsedNested
  <2>2. Nested(first) /\ Elements(first) = Elements(els) /\ Ids(first) = Ids(els)
    BY <2>1, GroupsFirstNested
  <2>3. scene = Fitted(ShelfBoxes(first, cloudCollapsed, FALSE, 84, MaxRowWidth, 160), edges, 0)
    BY <1>2, <1>7 DEF LayoutCloud
  <2>4. \A l \in edges : \E k \in ast.links : l = Edge(anchor(k.from), anchor(k.to))
    BY DEF CloudLinks
  <2> HIDE DEF els, first, edges, anchor
  <2>5. ASSUME NEW id \in Ids(els)
        PROVE  anchor(id) \in {e.id : e \in Visible(first, cloudCollapsed)}
    <3> DEFINE e == Element(els, id)
               b == AnchorOf(first, cloudCollapsed)
               f == Element(first, b[e])
    <3>1. e \in Elements(els) BY <2>1, NestedFacts
    <3> HIDE DEF e
    <3>2. b[e] = a[e] BY <2>1, <2>2, <3>1, AnchorsAgree
    <3>3. b[e] \in Ids(first) /\ f \in Visible(first, cloudCollapsed) BY <2>2, <3>1, AnchorsShown
    <3>4. f.id = b[e] BY <2>2, <3>3, NestedFacts
    <3> HIDE DEF f, b
    <3>5. anchor(id) = f.id BY <3>2, <3>4 DEF anchor, e
    <3> QED BY <3>3, <3>5
  <2>6. ASSUME NEW l \in edges
        PROVE  {l.from, l.to} \subseteq {e.id : e \in Visible(first, cloudCollapsed)}
    <3>1. PICK k \in ast.links : l = Edge(anchor(k.from), anchor(k.to)) BY <2>4
    <3>2. k.from \in Ids(els) /\ k.to \in Ids(els) BY <1>7 DEF Named, els
    <3>3. l.from = anchor(k.from) /\ l.to = anchor(k.to) BY <3>1 DEF Edge
    <3> QED BY <2>5, <3>2, <3>3
  <2>7. scene.ok = TRUE /\ SceneOk(scene)
    <3> DEFINE one == FALSE
               gap == 84
               rowGap == 160
    <3>1. gap \in Nat /\ rowGap \in Nat OBVIOUS
    <3>2. scene = Fitted(ShelfBoxes(first, cloudCollapsed, one, gap, MaxRowWidth, rowGap), edges, 0)
      BY <2>3
    <3>3. Nested(first) BY <2>2
    <3> HIDE DEF one, gap, rowGap
    <3> QED BY ONLY <2>6, <3>1, <3>2, <3>3, ShelvesSound
  <2> QED BY <1>3, <1>4, <1>7, <2>7, SoundWhen
<1> QED BY <1>5, <1>6, <1>7, SoundWhen

LEMMA C4Sound ==
    ASSUME WellFormed(ast), ast.family = "c4", scene \in LayoutByFamily(ast, cloudCollapsed)
    PROVE  SceneSound
<1>1. NestedDiagram(ast) BY DEF WellFormed
<1>2. scene = LayoutC4(ast) BY DEF LayoutByFamily
<1>3. EndsDeclared <=> Named(ast) /\ Apart(ast.elements) BY DEF EndsDeclared
<1>4. OrderKept BY DEF OrderKept
<1>5. CASE ~(Named(ast) /\ Apart(ast.elements))
  <2>1. scene = Err BY <1>2, <1>5 DEF LayoutC4
  <2> QED BY <1>3, <1>5, <2>1, ErrOk, SoundWhen
<1>6. CASE Named(ast) /\ Apart(ast.elements)
  <2> DEFINE els == ast.elements
             edges == ast.links
  <2>1. Nested(els) BY <1>1, <1>6, ParsedNested
  <2>2. scene = Fitted(ShelfBoxes(els, {}, TRUE, 64, 0, 0), edges, 0) BY <1>2, <1>6 DEF LayoutC4
  <2>3. Visible(els, {}) = Elements(els)
    <3> DEFINE a == AnchorOf(els, {})
               T == {e \in Elements(els) : a[e] = e.id}
    <3>1. ASSUME NEW e \in Elements(els), e.parent # Root => Element(els, e.parent) \in T
          PROVE  e \in T
      <4>1. CASE e.parent = Root BY <2>1, <4>1, AnchorSolved
      <4>2. CASE e.parent # Root
        <5>1. Element(els, e.parent) \in T BY <3>1, <4>2
        <5>2. a[e] = e.id BY <2>1, <4>2, <5>1, AnchorSolved
        <5> QED BY <5>2
      <4> QED BY <4>1, <4>2
    <3>2. Elements(els) \subseteq T
      <4> HIDE DEF T, els
      <4> QED BY <2>1, <3>1, ParentsInduct
    <3> QED BY <3>2 DEF Visible
  <2>4. \A l \in edges : {l.from, l.to} \subseteq {e.id : e \in Elements(els)}
    BY <1>6 DEF Named, Ids
  <2> HIDE DEF els, edges
  <2>5. \A l \in edges : {l.from, l.to} \subseteq {e.id : e \in Visible(els, {})} BY <2>3, <2>4
  <2>6. scene.ok = TRUE /\ SceneOk(scene)
    <3>1. 64 \in Nat /\ 0 \in Nat OBVIOUS
    <3> QED BY ONLY <2>1, <2>2, <2>5, <3>1, ShelvesSound
  <2> QED BY <1>3, <1>4, <1>6, <2>6, SoundWhen
<1> QED BY <1>5, <1>6

(* Whatever diagram a parser yields and whatever groups are folded, the    *)
(* scene that is shown is sound: no two siblings overlap, members are      *)
(* inside their containers, edges end on boxes, all is within the extent   *)
(* and the order of the text is kept, but for heads of a git graph wider   *)
(* than its lanes; and there is one exactly when what the text refers to   *)
(* is declared and no group that is gone into is too deep.                 *)
THEOREM SceneHolds == LayoutsSpec => []SceneSound
<1>1. LayoutInv => SceneSound
  <2> SUFFICES ASSUME LayoutInv PROVE SceneSound OBVIOUS
  <2>1. WellFormed(ast) BY ParsedAssumption DEF LayoutInv
  <2>2. scene \in LayoutByFamily(ast, cloudCollapsed) BY DEF LayoutInv
  <2>3. ast.family \in {"block", "network", "cloud", "c4", "sequence", "timeline", "gitGraph", "gantt"}
    BY <2>1 DEF WellFormed
  <2> QED BY <2>1, <2>2, <2>3, BlockSound, NetworkSound, CloudSound, C4Sound, SequenceSound,
             TimelineSound, GitSound, GanttSound
<1> QED BY <1>1, LayoutShown, PTL

=============================================================================
