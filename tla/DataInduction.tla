--------------------------- MODULE DataInduction ---------------------------
(* Induction over the data a program walks through, for the modules that prove
   something of a loop written with FoldLeft. The library's induction theorems
   take the predicate as an operator parameter; here it is a constant of the
   module, and a proof module instantiates it: INSTANCE DataInduction WITH
   Holds <- ..., Op <- .... Holds(x, n, a) says of a loop with the parameters x
   that after n rounds its accumulator may be a; Op(x, a, e) is one round. *)
EXTENDS Integers, SequencesExt, FiniteSetTheorems, WellFoundedInduction, SequenceTheorems, TLAPS

CONSTANTS
  Holds(_, _, _),
  Op(_, _, _)

(* A set of numbers with an element has a least one: the proper subsets of
   finite sets are well-founded, and 1..k grows with k. *)
LEMMA Least ==
  ASSUME NEW S \in SUBSET Nat, NEW n \in S
  PROVE \E m \in S : \A k \in S : m <= k
<1> DEFINE T == {1..m : m \in S}
<1>1. T \subseteq FiniteSubsetsOf(Nat) BY FS_Interval DEF FiniteSubsetsOf
<1>2. T # {} OBVIOUS
<1>3. PICK x \in T : \A y \in T : ~ (<<y, x>> \in StrictSubsetOrdering(Nat))
  BY <1>1, <1>2, WFMin, FS_StrictSubsetOrderingWellFounded
<1>4. PICK m \in S : x = 1..m OBVIOUS
<1>5. ASSUME NEW k \in S, ~ m <= k PROVE FALSE
  <2>1. 1..k \subseteq 1..m /\ m \in 1..m /\ m \notin 1..k BY <1>5
  <2>2. 1..k \in T /\ 1..k \in SUBSET Nat /\ 1..m \in SUBSET Nat OBVIOUS
  <2>3. 1..k # 1..m BY <2>1
  <2>4. <<1..k, 1..m>> \in StrictSubsetOrdering(Nat) BY <2>1, <2>2, <2>3 DEF StrictSubsetOrdering
  <2> QED BY <2>2, <2>4, <1>3, <1>4
<1> QED BY <1>5

(* Induction over the natural numbers: what holds of 0 and passes from every
   number to the next holds of all. *)
THEOREM Induction ==
  ASSUME NEW x, NEW y, Holds(x, 0, y), \A n \in Nat : Holds(x, n, y) => Holds(x, n + 1, y)
  PROVE  \A n \in Nat : Holds(x, n, y)
<1> SUFFICES ASSUME NEW n \in Nat, ~ Holds(x, n, y) PROVE FALSE OBVIOUS
<1> DEFINE S == {m \in Nat : ~ Holds(x, m, y)}
<1>1. PICK m \in S : \A k \in S : m <= k BY Least
<1>2. m # 0 /\ m - 1 \in Nat /\ m - 1 \notin S BY <1>1
<1>3. Holds(x, m - 1, y) BY <1>2
<1>4. Holds(x, (m - 1) + 1, y) BY <1>2, <1>3
<1> QED BY <1>4, <1>1

(* The community modules' Max of a set of indices is its greatest element. *)
LEMMA MaxOf ==
  ASSUME NEW n \in Nat, NEW S \in SUBSET (1..n), S # {}
  PROVE  Max(S) \in S /\ \A i \in S : i <= Max(S)
<1> DEFINE T == {n - i : i \in S}
<1>0. T \in SUBSET Nat /\ \E t \in T : TRUE
  <2>1. \A i \in S : n - i \in Nat OBVIOUS
  <2>2. PICK i \in S : TRUE OBVIOUS
  <2>3. n - i \in T OBVIOUS
  <2> QED BY <2>1, <2>3
<1>1. PICK t \in T : \A u \in T : t <= u BY <1>0, Least
<1>2. PICK m \in S : t = n - m OBVIOUS
<1>3. \A i \in S : m >= i
  <2> SUFFICES ASSUME NEW i \in S PROVE m >= i OBVIOUS
  <2>1. n - m <= n - i /\ i \in Nat /\ m \in Nat BY <1>1, <1>2
  <2> QED BY <2>1
<1> QED BY <1>3 DEF Max

(* The loop `for (const e of s) acc = Op(acc, e)`. *)
Fold(x, base, s) == FoldLeft(LAMBDA a, e : Op(x, a, e), base, s)

(* `it` gives the accumulator after the elements at the indices t: the function
   the community modules define FoldLeft by. *)
Iterates(it, x, base, s, k) ==
  it = [t \in SUBSET (1..k) |-> IF t = {} THEN base ELSE Op(x, it[t \ {Max(t)}], s[Max(t)])]

(* The recursive function behind FoldLeft exists, so that its CHOOSE picks one
   that satisfies its equation. *)
LEMMA IterationExists ==
  ASSUME NEW x, NEW base, NEW s, NEW n \in Nat
  PROVE  \E it : Iterates(it, x, base, s, n)
<1> SUFFICES ASSUME ~ \E it : Iterates(it, x, base, s, n) PROVE FALSE OBVIOUS
<1> DEFINE Bad == {k \in Nat : ~ \E it : Iterates(it, x, base, s, k)}
<1>1. PICK m \in Bad : \A k \in Bad : m <= k BY Least
<1>2. m # 0
  <2> DEFINE it == [t \in SUBSET (1..0) |-> base]
  <2>1. SUBSET (1..0) = {{}} OBVIOUS
  <2>2. it = [t \in SUBSET (1..0) |-> IF t = {} THEN base ELSE Op(x, it[t \ {Max(t)}], s[Max(t)])]
    BY <2>1
  <2>3. Iterates(it, x, base, s, 0) BY <2>2 DEF Iterates
  <2> QED BY <2>3
<1> DEFINE k == m - 1
<1>3. k \in Nat /\ k + 1 = m /\ k \notin Bad BY <1>1, <1>2
<1>4. PICK it : Iterates(it, x, base, s, k) BY <1>3
<1> DEFINE Body(f, t) == IF t = {} THEN base ELSE Op(x, f[t \ {Max(t)}], s[Max(t)])
           jt == [t \in SUBSET (1..m) |-> IF m \in t THEN Op(x, it[t \ {m}], s[m]) ELSE it[t]]
<1>5. ASSUME NEW t \in SUBSET (1..m) PROVE jt[t] = Body(jt, t)
  <2>1. CASE m \in t
    <3>1. Max(t) = m
      <4>1. t # {} /\ m \in Nat BY <2>1
      <4>2. Max(t) \in t /\ \A i \in t : i <= Max(t) BY <4>1, MaxOf
      <4>3. m <= Max(t) /\ Max(t) \in 1..m BY <4>2, <2>1
      <4> QED BY <4>3
    <3>2. t \ {m} \in SUBSET (1..k) BY <1>3
    <3>3. t \ {m} \in SUBSET (1..m) /\ m \notin t \ {m} OBVIOUS
    <3>4. jt[t \ {m}] = it[t \ {m}] BY <3>3
    <3> QED BY <2>1, <3>1, <3>4
  <2>2. CASE m \notin t
    <3>1. t \in SUBSET (1..k) BY <2>2, <1>3
    <3>2. it[t] = Body(it, t) BY <3>1, <1>4 DEF Iterates
    <3>3. CASE t = {} BY <3>3, <3>2, <2>2
    <3>4. CASE t # {}
      <4>1. Max(t) \in t BY <3>1, <3>4, <1>3, MaxOf
      <4>2. t \ {Max(t)} \in SUBSET (1..m) /\ m \notin t \ {Max(t)} BY <2>2
      <4>3. jt[t \ {Max(t)}] = it[t \ {Max(t)}] BY <4>2
      <4> QED BY <4>3, <3>2, <2>2
    <3> QED BY <3>3, <3>4
  <2> QED BY <2>1, <2>2
<1>6. Iterates(jt, x, base, s, m)
  <2>1. jt = [t \in SUBSET (1..m) |-> Body(jt, t)]
    <3> HIDE DEF Body
    <3>1. jt = [t \in SUBSET (1..m) |-> jt[t]] OBVIOUS
    <3> HIDE DEF jt
    <3> QED BY <1>5, <3>1
  <2> QED BY <2>1 DEF Iterates
<1> QED BY <1>6, <1>1

(* What holds of a loop's first accumulator, and is passed on by every round,
   holds of its result. The loops of the corrections (applyOperations' pass over
   the list, applyDelete's and applyEdit's over the relationships) are proved
   about through this. *)
THEOREM FoldLeftKeeps ==
  ASSUME NEW x, NEW base, NEW S, NEW s \in Seq(S),
         Holds(x, 0, base),
         \A n \in 1..Len(s) : \A a : Holds(x, n - 1, a) => Holds(x, n, Op(x, a, s[n]))
  PROVE  Holds(x, Len(s), Fold(x, base, s))
<1> DEFINE it == CHOOSE it : Iterates(it, x, base, s, Len(s))
<1>1. Len(s) \in Nat /\ DOMAIN s = 1..Len(s) OBVIOUS
<1>2. Iterates(it, x, base, s, Len(s)) BY <1>1, IterationExists
<1>3. Fold(x, base, s) = it[1..Len(s)]
  BY <1>1 DEF Fold, FoldLeft, MapThenFoldSet, Iterates
<1> HIDE DEF it
<1>4. \A t \in SUBSET (1..Len(s)) :
        it[t] = IF t = {} THEN base ELSE Op(x, it[t \ {Max(t)}], s[Max(t)])
  BY <1>2 DEF Iterates
<1> SUFFICES ASSUME ~ Holds(x, Len(s), it[1..Len(s)]) PROVE FALSE BY <1>3
<1> DEFINE Bad == {k \in 0..Len(s) : ~ Holds(x, k, it[1..k])}
<1>5. Len(s) \in Bad /\ Bad \in SUBSET Nat BY <1>1
<1>6. PICK m \in Bad : \A k \in Bad : m <= k BY <1>5, Least
<1>7. m # 0
  <2>1. 1..0 = {} OBVIOUS
  <2>2. it[1..0] = base BY <2>1, <1>4
  <2> QED BY <2>2
<1>8. m \in 1..Len(s) /\ m - 1 \in 0..Len(s) /\ m - 1 \notin Bad BY <1>6, <1>7, <1>1
<1>9. Holds(x, m - 1, it[1..(m - 1)]) BY <1>8
<1>10. Max(1..m) = m
  <2>1. 1..m \in SUBSET (1..m) /\ m \in 1..m /\ m \in Nat BY <1>8
  <2>2. 1..m # {} BY <2>1
  <2>3. Max(1..m) \in 1..m /\ \A i \in 1..m : i <= Max(1..m) BY <2>1, <2>2, MaxOf
  <2>4. m <= Max(1..m) /\ Max(1..m) \in 1..m BY <2>3, <2>1
  <2> QED BY <2>4
<1>11. (1..m) \ {m} = 1..(m - 1) /\ 1..m # {} /\ 1..m \in SUBSET (1..Len(s))
  <2>1. m \in 1..m BY <1>8
  <2>2. \A i : i \in (1..m) \ {m} <=> i \in 1..(m - 1) BY <1>8
  <2>3. 1..m \in SUBSET (1..Len(s)) BY <1>8, <1>1
  <2> QED BY <2>1, <2>2, <2>3
<1>12. it[1..m] = Op(x, it[1..(m - 1)], s[m]) BY <1>4, <1>10, <1>11
<1>13. Holds(x, m, it[1..m]) BY <1>12, <1>9, <1>8
<1> QED BY <1>13, <1>6

-----------------------------------------------------------------------------
(* Functions defined by recursion on the numbers.                          *)

(* What `f[n \in Nat] == IF n = 0 THEN base ELSE ... f[n - 1] ...` chooses. *)
Recurses(f, x, base) ==
  f = [n \in Nat |-> IF n = 0 THEN base ELSE Op(x, f[n - 1], n)]

RecursesTo(m, f, x, base) ==
  f = [n \in 0..m |-> IF n = 0 THEN base ELSE Op(x, f[n - 1], n)]

LEMMA RecursionAgrees ==
  ASSUME NEW x, NEW base, NEW m \in Nat, NEW k \in Nat, m <= k,
         NEW g, RecursesTo(m, g, x, base), NEW h, RecursesTo(k, h, x, base)
  PROVE  \A n \in 0..m : g[n] = h[n]
<1> SUFFICES ASSUME NEW n \in 0..m, g[n] # h[n] PROVE FALSE OBVIOUS
<1> DEFINE Bad == {i \in Nat : i <= m /\ g[i] # h[i]}
<1>0. Bad \in SUBSET Nat /\ n \in Bad OBVIOUS
<1>1. PICK i \in Bad : \A j \in Bad : i <= j BY <1>0, Least
<1>2. /\ g[i] = IF i = 0 THEN base ELSE Op(x, g[i - 1], i)
      /\ h[i] = IF i = 0 THEN base ELSE Op(x, h[i - 1], i)
  BY DEF RecursesTo
<1>3. i # 0 BY <1>2
<1>4. i - 1 \in Nat /\ i - 1 <= m /\ i - 1 \notin Bad BY <1>1, <1>3
<1>5. g[i - 1] = h[i - 1] BY <1>4
<1> QED BY <1>2, <1>5

LEMMA RecursionTo ==
  ASSUME NEW x, NEW base, NEW n \in Nat
  PROVE  \E f : RecursesTo(n, f, x, base)
<1> SUFFICES ASSUME ~ \E f : RecursesTo(n, f, x, base) PROVE FALSE OBVIOUS
<1> DEFINE Bad == {k \in Nat : ~ \E f : RecursesTo(k, f, x, base)}
<1>1. PICK m \in Bad : \A k \in Bad : m <= k BY Least
<1>2. m # 0
  <2> DEFINE f == [i \in 0..0 |-> base]
  <2>1. f = [i \in 0..0 |-> IF i = 0 THEN base ELSE Op(x, f[i - 1], i)] OBVIOUS
  <2>2. RecursesTo(0, f, x, base) BY <2>1 DEF RecursesTo
  <2> QED BY <2>2
<1>3. m - 1 \in Nat /\ m - 1 \notin Bad BY <1>1, <1>2
<1>4. PICK g : RecursesTo(m - 1, g, x, base) BY <1>3
<1> DEFINE f == [i \in 0..m |-> IF i = m THEN Op(x, g[m - 1], m) ELSE g[i]]
<1>5. ASSUME NEW i \in 0..m PROVE f[i] = IF i = 0 THEN base ELSE Op(x, f[i - 1], i)
  <2>1. CASE i = m BY <2>1, <1>2, <1>3
  <2>2. CASE i # m
    <3>1. i \in 0..(m - 1) /\ (i # 0 => i - 1 \in 0..(m - 1) /\ i - 1 # m) BY <2>2, <1>3
    <3>2. g[i] = IF i = 0 THEN base ELSE Op(x, g[i - 1], i) BY <3>1, <1>4 DEF RecursesTo
    <3>3. f[i] = g[i] /\ (i # 0 => f[i - 1] = g[i - 1]) BY <3>1, <2>2
    <3> HIDE DEF f
    <3> QED BY <3>2, <3>3
  <2> QED BY <2>1, <2>2
<1>6. f = [i \in 0..m |-> f[i]] OBVIOUS
<1>7. f = [i \in 0..m |-> IF i = 0 THEN base ELSE Op(x, f[i - 1], i)]
  <2> HIDE DEF f
  <2> QED BY <1>5, <1>6
<1>8. RecursesTo(m, f, x, base) BY <1>7 DEF RecursesTo
<1> QED BY <1>8, <1>1

(* Every such definition defines a function: a value follows from the one before. *)
THEOREM RecursionExists ==
  ASSUME NEW x, NEW base
  PROVE  \E f : Recurses(f, x, base)
<1> DEFINE upto(n) == CHOOSE f : RecursesTo(n, f, x, base)
           f == [n \in Nat |-> upto(n)[n]]
<1>1. \A n \in Nat : RecursesTo(n, upto(n), x, base) BY RecursionTo
<1> HIDE DEF upto
<1>2. ASSUME NEW n \in Nat PROVE f[n] = IF n = 0 THEN base ELSE Op(x, f[n - 1], n)
  <2>1. upto(n)[n] = IF n = 0 THEN base ELSE Op(x, upto(n)[n - 1], n)
    BY <1>1 DEF RecursesTo
  <2>2. CASE n = 0 BY <2>1, <2>2
  <2>3. CASE n # 0
    <3>1. n - 1 \in Nat /\ n - 1 <= n /\ n - 1 \in 0..(n - 1) BY <2>3
    <3>2. upto(n - 1)[n - 1] = upto(n)[n - 1] BY <1>1, <3>1, RecursionAgrees
    <3>3. f[n - 1] = upto(n - 1)[n - 1] /\ f[n] = upto(n)[n] BY <3>1
    <3> HIDE DEF f
    <3> QED BY <2>1, <2>3, <3>2, <3>3
  <2> QED BY <2>2, <2>3
<1>3. f = [n \in Nat |-> f[n]] OBVIOUS
<1>4. f = [n \in Nat |-> IF n = 0 THEN base ELSE Op(x, f[n - 1], n)]
  <2> HIDE DEF f
  <2> QED BY <1>2, <1>3
<1> QED BY <1>4 DEF Recurses
=============================================================================
