------------------------ MODULE GraphTraversal_proofs -------------------------
(***************************************************************************)
(* What exploreNeighborhood and findPaths answer, whatever the graph, the   *)
(* question and the provider: each layer of a neighbourhood is a distance,  *)
(* each path found is a path, and those that should be found are.           *)
(***************************************************************************)
EXTENDS GraphTraversal, FiniteSetTheorems, SequenceTheorems, TLAPS

-----------------------------------------------------------------------------
(* Distances in a graph given by its pairs of neighbours.                    *)

\* One more step from what was reached before.
Beyond(G, before, n) == {p[2] : p \in {q \in G : q[1] \in before}}

FromAnyWalk(x, n, a) == TRUE

Reaching == INSTANCE DataInduction WITH Holds <- FromAnyWalk, Op <- Beyond

\* What n steps from s lead to.
Reach(G, s) == CHOOSE f : f = [n \in Nat |-> IF n = 0 THEN {s} ELSE Beyond(G, f[n - 1], n)]

\* What n steps lead to, and no fewer.
Nearest(G, s, n) == Reach(G, s)[n] \ UNION {Reach(G, s)[k] : k \in 0..(n - 1)}

\* What one step leads to, entity by entity.
LEMMA BeyondIs ==
  ASSUME NEW G \in SUBSET (Entities \X Entities), NEW before, NEW n, NEW f
  PROVE  f \in Beyond(G, before, n) <=> \E e \in before : <<e, f>> \in G
<1>1. \A q \in G : q = <<q[1], q[2]>> OBVIOUS
<1>2. \A e : <<e, f>>[1] = e /\ <<e, f>>[2] = f OBVIOUS
<1> QED BY <1>1, <1>2 DEF Beyond

\* The recursion there is, by induction over the number of steps.
LEMMA ReachIs ==
  ASSUME NEW G \in SUBSET (Entities \X Entities), NEW s
  PROVE  /\ Reach(G, s) = [n \in Nat |-> IF n = 0 THEN {s} ELSE Beyond(G, Reach(G, s)[n - 1], n)]
         /\ Reach(G, s)[0] = {s}
         /\ \A n \in Nat \ {0} : \A f : f \in Reach(G, s)[n] <=> \E e \in Reach(G, s)[n - 1] : <<e, f>> \in G
<1> DEFINE reach == Reach(G, s)
<1> HIDE DEF Beyond
<1>1. reach = [n \in Nat |-> IF n = 0 THEN {s} ELSE Beyond(G, reach[n - 1], n)]
  <2>1. PICK h : Reaching!Recurses(h, G, {s}) BY Reaching!RecursionExists
  <2>2. h = [n \in Nat |-> IF n = 0 THEN {s} ELSE Beyond(G, h[n - 1], n)] BY <2>1 DEF Reaching!Recurses
  <2> QED BY <2>2 DEF Reach
<1> HIDE DEF reach
<1>2. reach[0] = {s} /\ \A n \in Nat \ {0} : reach[n] = Beyond(G, reach[n - 1], n) BY <1>1
<1>3. ASSUME NEW n \in Nat \ {0}, NEW f PROVE f \in reach[n] <=> \E e \in reach[n - 1] : <<e, f>> \in G
  <2>1. reach[n] = Beyond(G, reach[n - 1], n) BY <1>2
  <2>2. f \in Beyond(G, reach[n - 1], n) <=> \E e \in reach[n - 1] : <<e, f>> \in G BY BeyondIs
  <2> QED BY <2>1, <2>2
<1>4. \A n \in Nat \ {0} : \A f : f \in reach[n] <=> \E e \in reach[n - 1] : <<e, f>> \in G BY <1>3
<1> QED BY <1>1, <1>2, <1>4 DEF reach

\* What is nearest by n steps is one step from what is nearest by n - 1.
LEMMA NearestIs ==
  ASSUME NEW G \in SUBSET (Entities \X Entities), NEW s \in Entities
  PROVE  /\ Nearest(G, s, 0) = {s}
         /\ \A n \in Nat : Nearest(G, s, n) \in SUBSET Entities
         /\ \A n \in Nat \ {0} : \A f : f \in Nearest(G, s, n) <=>
              /\ \E e \in Nearest(G, s, n - 1) : <<e, f>> \in G
              /\ \A k \in 0..(n - 1) : f \notin Reach(G, s)[k]
<1>1. Reach(G, s)[0] = {s} BY ReachIs
<1>2. \A n \in Nat \ {0} : \A f : f \in Reach(G, s)[n] <=> \E e \in Reach(G, s)[n - 1] : <<e, f>> \in G
  BY ReachIs
<1>3. Nearest(G, s, 0) = {s} BY <1>1 DEF Nearest
<1>4. \A n \in Nat : Nearest(G, s, n) \in SUBSET Entities
  <2> SUFFICES ASSUME NEW n \in Nat, NEW f \in Nearest(G, s, n) PROVE f \in Entities OBVIOUS
  <2>1. f \in Reach(G, s)[n] BY DEF Nearest
  <2>2. CASE n = 0 BY <2>1, <2>2, <1>1
  <2>3. CASE n # 0
    <3>1. PICK e : <<e, f>> \in G BY <2>1, <2>3, <1>2
    <3> QED BY <3>1
  <2> QED BY <2>2, <2>3
<1>5. ASSUME NEW n \in Nat \ {0}, NEW f, \A k \in 0..(n - 1) : f \notin Reach(G, s)[k],
             NEW e \in Reach(G, s)[n - 1], <<e, f>> \in G
      PROVE  e \in Nearest(G, s, n - 1)
  <2> SUFFICES ASSUME NEW k \in 0..(n - 2), e \in Reach(G, s)[k] PROVE FALSE
    BY DEF Nearest
  <2>1. k + 1 \in Nat \ {0} /\ k + 1 \in 0..(n - 1) /\ (k + 1) - 1 = k OBVIOUS
  <2>2. f \in Reach(G, s)[k + 1] BY <2>1, <1>2, <1>5
  <2> QED BY <2>1, <2>2, <1>5
<1>6. \A n \in Nat \ {0} : \A e : e \in Nearest(G, s, n - 1) => e \in Reach(G, s)[n - 1] BY DEF Nearest
<1>7. \A n \in Nat \ {0} : \A f :
        f \in Nearest(G, s, n) <=> f \in Reach(G, s)[n] /\ \A k \in 0..(n - 1) : f \notin Reach(G, s)[k]
  BY DEF Nearest
<1>8. ASSUME NEW n \in Nat \ {0}, NEW f
      PROVE  f \in Nearest(G, s, n) <=>
              /\ \E e \in Nearest(G, s, n - 1) : <<e, f>> \in G
              /\ \A k \in 0..(n - 1) : f \notin Reach(G, s)[k]
  <2>1. ASSUME f \in Nearest(G, s, n)
        PROVE /\ \E e \in Nearest(G, s, n - 1) : <<e, f>> \in G
              /\ \A k \in 0..(n - 1) : f \notin Reach(G, s)[k]
    <3>1. \A k \in 0..(n - 1) : f \notin Reach(G, s)[k] BY <2>1, <1>7
    <3>2. PICK e \in Reach(G, s)[n - 1] : <<e, f>> \in G BY <2>1, <1>7, <1>2
    <3>3. e \in Nearest(G, s, n - 1) BY <3>1, <3>2, <1>5
    <3> QED BY <3>1, <3>2, <3>3
  <2>2. ASSUME NEW e \in Nearest(G, s, n - 1), <<e, f>> \in G,
               \A k \in 0..(n - 1) : f \notin Reach(G, s)[k]
        PROVE f \in Nearest(G, s, n)
    BY <2>2, <1>2, <1>6, <1>7
  <2> QED BY <2>1, <2>2
<1> QED BY <1>3, <1>4, <1>8

\* Nothing is at two distances, and beyond an empty distance there is nothing.
LEMMA OneDistance ==
  ASSUME NEW G, NEW s, NEW m \in Nat, NEW n \in Nat,
         NEW f, f \in Nearest(G, s, m), f \in Nearest(G, s, n)
  PROVE  m = n
BY DEF Nearest

\* Where no entity is at a distance, none is at a longer one.
LEMMA NothingBeyond ==
  ASSUME NEW G \in SUBSET (Entities \X Entities), NEW s \in Entities,
         NEW m \in Nat, Nearest(G, s, m) = {}, NEW n \in Nat, m <= n
  PROVE  Nearest(G, s, n) = {}
<1> SUFFICES ASSUME Nearest(G, s, n) # {} PROVE FALSE OBVIOUS
<1> DEFINE Bad == {k \in Nat : m <= k /\ Nearest(G, s, k) # {}}
<1>0. Bad \in SUBSET Nat /\ n \in Bad OBVIOUS
<1>1. PICK k \in Bad : \A j \in Bad : k <= j BY <1>0, Reaching!Least
<1>2. k # m BY <1>1
<1>3. k - 1 \in Nat /\ m <= k - 1 /\ k - 1 \notin Bad /\ k \in Nat \ {0} BY <1>1, <1>2
<1>4. Nearest(G, s, k - 1) = {} BY <1>3
<1>5. \A f : f \notin Nearest(G, s, k) BY <1>3, <1>4, NearestIs
<1> QED BY <1>1, <1>5

-----------------------------------------------------------------------------
(* Trails.                                                                   *)

Walk == [entities : Seq(Entities), relationships : Seq(Relationship)]

\* One more relationship; R are those that may be used.
Longer(R, before, n) ==
  UNION {{Extend(w, r) : r \in {s \in R : Touches(s, End(w)) /\ ~Uses(w, s)}} : w \in before}

Trailing == INSTANCE DataInduction WITH Holds <- FromAnyWalk, Op <- Longer

\* Trails as recursive as their definition reads.
LEMMA TrailsAre ==
  ASSUME NEW R, NEW from
  PROVE  /\ Trails(R, from, 0) = {Start(from)}
         /\ \A n \in Nat \ {0} : \A w :
              w \in Trails(R, from, n) <=>
                \E v \in Trails(R, from, n - 1), r \in R : Touches(r, End(v)) /\ ~Uses(v, r) /\ w = Extend(v, r)
<1> DEFINE Onward(before) == UNION {{Extend(w, r) : r \in {s \in R : Touches(s, End(w)) /\ ~Uses(w, s)}} : w \in before}
           Is(h) == h = [k \in Nat |-> IF k = 0 THEN {Start(from)} ELSE Onward(h[k - 1])]
           trails == CHOOSE h : Is(h)
<1>1. \E h : Is(h)
  <2>1. PICK h : Trailing!Recurses(h, R, {Start(from)}) BY Trailing!RecursionExists
  <2>2. \A before, n : Longer(R, before, n) = Onward(before) BY DEF Longer
  <2> HIDE DEF Onward
  <2>3. h = [k \in Nat |-> IF k = 0 THEN {Start(from)} ELSE Longer(R, h[k - 1], k)]
    BY <2>1 DEF Trailing!Recurses
  <2>4. h = [k \in Nat |-> IF k = 0 THEN {Start(from)} ELSE Onward(h[k - 1])] BY <2>2, <2>3
  <2> QED BY <2>4
<1>2. \A n : Trails(R, from, n) = trails[n] BY DEF Trails
<1> HIDE DEF trails, Is
<1>3. Is(trails) BY <1>1 DEF trails
<1>4. trails[0] = {Start(from)} /\ \A n \in Nat \ {0} : trails[n] = Onward(trails[n - 1])
  <2> HIDE DEF Onward
  <2> QED BY <1>3 DEF Is
<1>5. \A before, w : w \in Onward(before) <=>
        \E v \in before, r \in R : Touches(r, End(v)) /\ ~Uses(v, r) /\ w = Extend(v, r)
  OBVIOUS
<1> HIDE DEF Onward
<1>6. ASSUME NEW n \in Nat \ {0}, NEW w
      PROVE  w \in Trails(R, from, n) <=>
               \E v \in Trails(R, from, n - 1), r \in R : Touches(r, End(v)) /\ ~Uses(v, r) /\ w = Extend(v, r)
  <2>1. Trails(R, from, n) = Onward(Trails(R, from, n - 1)) BY <1>2, <1>4
  <2> QED BY <2>1, <1>5
<1>7. Trails(R, from, 0) = {Start(from)} BY <1>2, <1>4
<1> QED BY <1>6, <1>7

\* A walk of n relationships of R from an entity, none of them used twice.
IsTrail(w, R, from, n) ==
  /\ w \in Walk
  /\ Len(w.entities) = n + 1 /\ Len(w.relationships) = n
  /\ w.entities[1] = from
  /\ \A i \in 1..n : /\ w.relationships[i] \in R
                     /\ Touches(w.relationships[i], w.entities[i])
                     /\ w.entities[i + 1] = OtherEnd(w.relationships[i], w.entities[i])
  /\ \A i, j \in 1..n : w.relationships[i] = w.relationships[j] => i = j

\* What a walk is with one relationship more.
LEMMA ExtendIs ==
  ASSUME NEW w \in Walk, Len(w.entities) # 0, NEW r \in Relationship
  PROVE  /\ Extend(w, r) \in Walk
         /\ Len(Extend(w, r).entities) = Len(w.entities) + 1
         /\ Len(Extend(w, r).relationships) = Len(w.relationships) + 1
         /\ \A i \in 1..Len(w.entities) : Extend(w, r).entities[i] = w.entities[i]
         /\ \A i \in 1..Len(w.relationships) : Extend(w, r).relationships[i] = w.relationships[i]
         /\ Extend(w, r).entities[Len(w.entities) + 1] = OtherEnd(r, End(w))
         /\ Extend(w, r).relationships[Len(w.relationships) + 1] = r
         /\ End(Extend(w, r)) = OtherEnd(r, End(w))
<1> DEFINE f == OtherEnd(r, End(w))
           es == w.entities
           rs == w.relationships
<1>1. es \in Seq(Entities) /\ rs \in Seq(Relationship) BY DEF Walk
<1>2. f \in Entities BY DEF OtherEnd, Relationship
<1>3. Extend(w, r) = [entities |-> Append(es, f), relationships |-> Append(rs, r)] BY DEF Extend
<1> HIDE DEF f, es, rs
<1>4. /\ Append(es, f) \in Seq(Entities) /\ Len(Append(es, f)) = Len(es) + 1
      /\ \A i \in 1..Len(es) : Append(es, f)[i] = es[i]
      /\ Append(es, f)[Len(es) + 1] = f
  BY <1>1, <1>2
<1>5. /\ Append(rs, r) \in Seq(Relationship) /\ Len(Append(rs, r)) = Len(rs) + 1
      /\ \A i \in 1..Len(rs) : Append(rs, r)[i] = rs[i]
      /\ Append(rs, r)[Len(rs) + 1] = r
  BY <1>1
<1>6. Extend(w, r).entities = Append(es, f) /\ Extend(w, r).relationships = Append(rs, r) BY <1>3
<1> HIDE DEF Extend
<1>7. Extend(w, r) \in Walk BY <1>3, <1>4, <1>5 DEF Walk
<1>8. End(Extend(w, r)) = f BY <1>4, <1>6 DEF End
<1> QED BY <1>4, <1>5, <1>6, <1>7, <1>8 DEF es, rs, f

\* Each trail is a walk that is joined and uses no relationship twice.
LEMMA TrailShape ==
  ASSUME NEW R \in SUBSET Relationship, NEW from \in Entities, NEW n \in Nat, NEW w \in Trails(R, from, n)
  PROVE  IsTrail(w, R, from, n)
<1> SUFFICES ASSUME ~ IsTrail(w, R, from, n) PROVE FALSE OBVIOUS
<1> DEFINE Bad == {k \in Nat : \E v \in Trails(R, from, k) : ~ IsTrail(v, R, from, k)}
<1>0. Bad \in SUBSET Nat /\ n \in Bad OBVIOUS
<1>1. PICK m \in Bad : \A k \in Bad : m <= k BY <1>0, Reaching!Least
<1>2. PICK v \in Trails(R, from, m) : ~ IsTrail(v, R, from, m) BY <1>1
<1>3. CASE m = 0
  <2>1. v = Start(from) BY <1>2, <1>3, TrailsAre
  <2>2. v \in Walk /\ Len(v.entities) = 1 /\ Len(v.relationships) = 0 /\ v.entities[1] = from
    BY <2>1 DEF Start, Walk
  <2> QED BY <1>2, <1>3, <2>2 DEF IsTrail
<1>4. CASE m # 0
  <2>1. m \in Nat \ {0} /\ m - 1 \in Nat /\ m - 1 \notin Bad BY <1>1, <1>4
  <2>2. PICK u \in Trails(R, from, m - 1), r \in R : Touches(r, End(u)) /\ ~Uses(u, r) /\ v = Extend(u, r)
    BY <2>1, <1>2, TrailsAre
  <2>3. IsTrail(u, R, from, m - 1) BY <2>1, <2>2
  <2>4. /\ u \in Walk /\ Len(u.entities) = m /\ Len(u.relationships) = m - 1 /\ u.entities[1] = from
        /\ \A i \in 1..(m - 1) : /\ u.relationships[i] \in R
                     /\ Touches(u.relationships[i], u.entities[i])
                     /\ u.entities[i + 1] = OtherEnd(u.relationships[i], u.entities[i])
        /\ \A i, j \in 1..(m - 1) : u.relationships[i] = u.relationships[j] => i = j
    BY <2>1, <2>3 DEF IsTrail
  <2>5. /\ v \in Walk /\ Len(v.entities) = m + 1 /\ Len(v.relationships) = m
        /\ \A i \in 1..m : v.entities[i] = u.entities[i]
        /\ \A i \in 1..(m - 1) : v.relationships[i] = u.relationships[i]
        /\ v.entities[m + 1] = OtherEnd(r, End(u))
        /\ v.relationships[m] = r
    <3>1. r \in Relationship OBVIOUS
    <3>2. (m - 1) + 1 = m /\ Len(u.entities) # 0 BY <2>1, <2>4
    <3>3. u \in Walk BY <2>4
    <3>4. /\ v \in Walk
          /\ Len(v.entities) = Len(u.entities) + 1
          /\ Len(v.relationships) = Len(u.relationships) + 1
          /\ \A i \in 1..Len(u.entities) : v.entities[i] = u.entities[i]
          /\ \A i \in 1..Len(u.relationships) : v.relationships[i] = u.relationships[i]
          /\ v.entities[Len(u.entities) + 1] = OtherEnd(r, End(u))
          /\ v.relationships[Len(u.relationships) + 1] = r
      <4> HIDE DEF Bad
      <4> QED BY <2>2, <3>1, <3>2, <3>3, ExtendIs
    <3> QED BY <2>4, <3>2, <3>4
  <2>6. End(u) = u.entities[m] BY <2>4 DEF End
  <2>7. ASSUME NEW i \in 1..m
        PROVE  /\ v.relationships[i] \in R
               /\ Touches(v.relationships[i], v.entities[i])
               /\ v.entities[i + 1] = OtherEnd(v.relationships[i], v.entities[i])
    <3>1. CASE i = m BY <3>1, <2>2, <2>5, <2>6, <2>1
    <3>2. CASE i # m
      <4>1. i \in 1..(m - 1) /\ i + 1 \in 1..m BY <3>2, <2>1
      <4> QED BY <4>1, <2>4, <2>5
    <3> QED BY <3>1, <3>2
  <2>8. \A i \in 1..(m - 1) : u.relationships[i] # r
    <3>1. DOMAIN u.relationships = 1..(m - 1) BY <2>4, <2>1 DEF Walk
    <3> QED BY <2>2, <3>1 DEF Uses
  <2>9. ASSUME NEW i \in 1..m, NEW j \in 1..m, v.relationships[i] = v.relationships[j] PROVE i = j
    <3>1. i # m => i \in 1..(m - 1) BY <2>1
    <3>2. j # m => j \in 1..(m - 1) BY <2>1
    <3> QED BY <3>1, <3>2, <2>4, <2>5, <2>8, <2>9
  <2>10. v.entities[1] = from BY <2>1, <2>4, <2>5
  <2>11. IsTrail(v, R, from, m) BY <2>5, <2>7, <2>9, <2>10 DEF IsTrail
  <2> QED BY <2>11, <1>2
<1> QED BY <1>3, <1>4

\* What is n steps away and no fewer is the end of a trail through the distances before,
\* and a relationship that leads on from there is not on it.
LEMMA NearestHasTrail ==
  ASSUME NEW G \in SUBSET (Entities \X Entities), NEW R \in SUBSET Relationship, NEW s \in Entities,
         \A p \in G : \E r \in R : Touches(r, p[1]) /\ OtherEnd(r, p[1]) = p[2],
         NEW n \in Nat, NEW e \in Nearest(G, s, n)
  PROVE  \E w \in Trails(R, s, n) :
           /\ End(w) = e
           /\ \A i \in 1..(n + 1) : w.entities[i] \in Nearest(G, s, i - 1)
           /\ \A r \in Relationship : Touches(r, e) /\ (\A k \in 0..n : OtherEnd(r, e) \notin Nearest(G, s, k)) => ~ Uses(w, r)
<1> DEFINE Through(w, k) == \A i \in 1..(k + 1) : w.entities[i] \in Nearest(G, s, i - 1)
           Bad == {k \in Nat : \E f \in Nearest(G, s, k) : \A w \in Trails(R, s, k) : End(w) = f => ~ Through(w, k)}
<1>1. ASSUME NEW k \in Nat, NEW w \in Trails(R, s, k), Through(w, k),
             NEW r \in Relationship, Uses(w, r), NEW f, Touches(r, f)
      PROVE  \E j \in 0..k : f \in Nearest(G, s, j)
  <2>1. IsTrail(w, R, s, k) BY TrailShape
  <2>2. PICK i \in 1..k : w.relationships[i] = r
    <3>1. DOMAIN w.relationships = 1..k BY <2>1 DEF IsTrail, Walk
    <3> QED BY <3>1, <1>1 DEF Uses
  <2>3. Touches(r, w.entities[i]) /\ w.entities[i + 1] = OtherEnd(r, w.entities[i]) BY <2>1, <2>2 DEF IsTrail
  <2>4. f \in {w.entities[i], w.entities[i + 1]} BY <2>3, <1>1 DEF Touches, OtherEnd
  <2>5. w.entities[i] \in Nearest(G, s, i - 1) /\ w.entities[i + 1] \in Nearest(G, s, i)
    <3>1. i \in 1..(k + 1) /\ i + 1 \in 1..(k + 1) /\ (i + 1) - 1 = i OBVIOUS
    <3> QED BY <3>1, <1>1
  <2>6. i - 1 \in 0..k /\ i \in 0..k OBVIOUS
  <2> QED BY <2>4, <2>5, <2>6
<1>2. ASSUME n \in Bad PROVE FALSE
  <2>0. Bad \in SUBSET Nat OBVIOUS
  <2>1. PICK m \in Bad : \A k \in Bad : m <= k BY <2>0, <1>2, Reaching!Least
  <2>2. PICK f \in Nearest(G, s, m) : \A w \in Trails(R, s, m) : End(w) = f => ~ Through(w, m) BY <2>1
  <2>3. CASE m = 0
    <3>1. f = s BY <2>2, <2>3, NearestIs
    <3>2. Start(s) \in Trails(R, s, 0) BY TrailsAre
    <3>3. End(Start(s)) = s /\ Start(s).entities[1] = s BY DEF End, Start
    <3>4. Through(Start(s), 0)
      <4>1. s \in Nearest(G, s, 0)
        <5> HIDE DEF Bad, Through
        <5>1. Nearest(G, s, 0) = {s} BY NearestIs
        <5> QED BY <5>1
      <4> SUFFICES ASSUME NEW i \in 1..(0 + 1) PROVE Start(s).entities[i] \in Nearest(G, s, i - 1) OBVIOUS
      <4>2. i = 1 /\ i - 1 = 0 OBVIOUS
      <4> QED BY <4>1, <4>2, <3>3
    <3> QED BY <2>2, <2>3, <3>1, <3>2, <3>3, <3>4
  <2>4. CASE m # 0
    <3>1. m \in Nat \ {0} /\ m - 1 \in Nat /\ m - 1 \notin Bad BY <2>1, <2>4
    <3>2. PICK d \in Nearest(G, s, m - 1) : <<d, f>> \in G BY <3>1, <2>2, NearestIs
    <3>3. PICK w \in Trails(R, s, m - 1) : End(w) = d /\ Through(w, m - 1) BY <3>1, <3>2
    <3>4. PICK r \in R : Touches(r, d) /\ OtherEnd(r, d) = f
      <4>1. <<d, f>>[1] = d /\ <<d, f>>[2] = f OBVIOUS
      <4> QED BY <3>2, <4>1
    <3>5. Touches(r, f) BY <3>4 DEF Touches, OtherEnd
    <3>6. ~ Uses(w, r)
      <4> SUFFICES ASSUME Uses(w, r) PROVE FALSE OBVIOUS
      <4>1. PICK j \in 0..(m - 1) : f \in Nearest(G, s, j) BY <3>1, <3>3, <3>5, <1>1
      <4>2. j = m BY <4>1, <2>2, OneDistance
      <4> QED BY <4>1, <4>2, <3>1
    <3>7. Extend(w, r) \in Trails(R, s, m) BY <3>1, <3>3, <3>4, <3>6, TrailsAre
    <3>8. IsTrail(w, R, s, m - 1) BY <3>1, <3>3, TrailShape
    <3>9. w \in Walk /\ Len(w.entities) = m BY <3>8, <3>1 DEF IsTrail
    <3>10. /\ \A i \in 1..m : Extend(w, r).entities[i] = w.entities[i]
           /\ Extend(w, r).entities[m + 1] = f
           /\ End(Extend(w, r)) = f
      <4>1. Len(w.entities) # 0 /\ r \in Relationship BY <3>9, <3>1
      <4> HIDE DEF Bad, Through
      <4> QED BY <3>3, <3>4, <3>9, <4>1, ExtendIs
    <3>11. Through(Extend(w, r), m)
      <4> SUFFICES ASSUME NEW i \in 1..(m + 1) PROVE Extend(w, r).entities[i] \in Nearest(G, s, i - 1) OBVIOUS
      <4>1. CASE i = m + 1 BY <4>1, <3>10, <2>2
      <4>2. CASE i # m + 1
        <5>1. i \in 1..m /\ i \in 1..((m - 1) + 1) BY <4>2, <3>1
        <5> QED BY <5>1, <3>3, <3>10
      <4> QED BY <4>1, <4>2
    <3> QED BY <3>7, <3>10, <3>11, <2>2
  <2> QED BY <2>3, <2>4
<1>3. PICK w \in Trails(R, s, n) : End(w) = e /\ Through(w, n) BY <1>2
<1>4. ASSUME NEW r \in Relationship, Touches(r, e), \A k \in 0..n : OtherEnd(r, e) \notin Nearest(G, s, k), Uses(w, r)
      PROVE FALSE
  <2>1. Touches(r, OtherEnd(r, e)) BY <1>4 DEF Touches, OtherEnd
  <2> QED BY <2>1, <1>1, <1>3, <1>4
<1> QED BY <1>3, <1>4

-----------------------------------------------------------------------------
\* The graph and the question stand still.
LEMMA SameGraph == [Next]_vars => question' = question
<1> SUFFICES ASSUME [Next]_vars PROVE question' = question OBVIOUS
<1>1. CASE PathNext \/ ReadPool
  BY <1>1 DEF PathNext, AnswerAtOnce, TakeNext, ReachTarget, Enqueue, PassOver, NextLevel, EndSearch, ReadPool
<1>2. CASE NeighborhoodNext
  BY <1>2 DEF NeighborhoodNext, ExploreStored, ExploreRows, ExploreTraversal, Promote
<1>3. CASE TraversalNext
  BY <1>3 DEF TraversalNext, Refuse, Begin, TakeStep, RepeatStep, MakeStep, GiveUp, Assemble, RunCompiled, ReadPage
<1>4. CASE Answer BY <1>4 DEF Answer
<1>5. CASE Finished \/ UNCHANGED vars BY <1>5 DEF Finished, vars
<1> QED BY <1>1, <1>2, <1>3, <1>4, <1>5 DEF Next

-----------------------------------------------------------------------------
(* Neighbourhoods.                                                           *)

\* From each entity to those that a relationship leads to, as the question has it.
Neighbours ==
  {p \in Entities \X Entities : Fits(p[2]) /\ \E r \in Relationships : Admitted(r) /\ Leads(r, p[1], p[2])}

\* What a question has: a graph, an entity to start from, and its neighbours.
LEMMA QuestionIs ==
  ASSUME question \in Question
  PROVE  /\ Relationships \in SUBSET Relationship
         /\ question.from \in Entities
         /\ Neighbours \in SUBSET (Entities \X Entities)
         /\ \A r \in Relationship : \A e, f : Leads(r, e, f) => Touches(r, e) /\ OtherEnd(r, e) = f /\ e \in Entities /\ f \in Entities
         /\ \A e, f : <<e, f>> \in Neighbours <=> Fits(f) /\ \E r \in Relationships : Admitted(r) /\ Leads(r, e, f)
<1>1. question.stored \in Seq(Relationship) /\ question.from \in Entities BY DEF Question
<1>2. Relationships \in SUBSET Relationship BY <1>1 DEF Relationships
<1>3. Neighbours \in SUBSET (Entities \X Entities) BY DEF Neighbours
<1>4. \A r \in Relationship : \A e, f : Leads(r, e, f) => Touches(r, e) /\ OtherEnd(r, e) = f /\ e \in Entities /\ f \in Entities
  BY DEF Leads, LeadsTo, Touches, OtherEnd, Relationship
<1>5. ASSUME NEW e, NEW f
      PROVE  <<e, f>> \in Neighbours <=> Fits(f) /\ \E r \in Relationships : Admitted(r) /\ Leads(r, e, f)
  <2>1. <<e, f>>[1] = e /\ <<e, f>>[2] = f OBVIOUS
  <2>2. (\E r \in Relationships : Leads(r, e, f)) => <<e, f>> \in Entities \X Entities BY <1>2, <1>4
  <2> QED BY <2>1, <2>2 DEF Neighbours
<1> QED BY <1>1, <1>2, <1>3, <1>4, <1>5

\* Where the walks of a layer end.
LEMMA WalkEndsAre ==
  ASSUME question \in Question, NEW n \in Nat
  PROVE  WalkEnds(n) = Reach(Neighbours, question.from)[n]
<1> DEFINE reach == Reach(Neighbours, question.from)
           Onward(before) == {f \in Entities : Fits(f) /\ \E r \in Relationships, e \in before : Admitted(r) /\ Leads(r, e, f)}
           Is(h) == h = [k \in Nat |-> IF k = 0 THEN {question.from} ELSE Onward(h[k - 1])]
           ends == CHOOSE h : Is(h)
<1>1. Neighbours \in SUBSET (Entities \X Entities)
      /\ \A e, f : <<e, f>> \in Neighbours <=> Fits(f) /\ \E r \in Relationships : Admitted(r) /\ Leads(r, e, f)
  BY QuestionIs
<1>2. ASSUME NEW before, NEW k PROVE Beyond(Neighbours, before, k) = Onward(before)
  <2>1. \A f : f \in Beyond(Neighbours, before, k) <=> \E e \in before : <<e, f>> \in Neighbours
    BY <1>1, BeyondIs
  <2>2. \A e, f : <<e, f>> \in Neighbours => f \in Entities BY <1>1
  <2>3. \A f : f \in Beyond(Neighbours, before, k) <=> f \in Onward(before) BY <1>1, <2>1, <2>2
  <2> QED BY <2>3 DEF Beyond
<1>3. reach = [k \in Nat |-> IF k = 0 THEN {question.from} ELSE Beyond(Neighbours, reach[k - 1], k)]
  BY <1>1, ReachIs
<1>4. WalkEnds(n) = ends[n] BY DEF WalkEnds
<1> HIDE DEF reach, Onward, ends
<1>5. Is(reach) BY <1>2, <1>3
<1>6. Is(ends) BY <1>5 DEF ends
<1>7. ASSUME NEW h, Is(h) PROVE h[0] = {question.from} /\ \A k \in Nat \ {0} : h[k] = Onward(h[k - 1]) BY <1>7
<1> HIDE DEF Is
<1> SUFFICES ASSUME ends[n] # reach[n] PROVE FALSE BY <1>4 DEF reach
<1> DEFINE Bad == {k \in Nat : ends[k] # reach[k]}
<1>8. Bad \in SUBSET Nat /\ n \in Bad OBVIOUS
<1>9. PICK m \in Bad : \A k \in Bad : m <= k BY <1>8, Reaching!Least
<1>10. m # 0 BY <1>5, <1>6, <1>7
<1>11. m \in Nat \ {0} /\ m - 1 \in Nat /\ m - 1 \notin Bad BY <1>9, <1>10
<1>12. ends[m] = Onward(ends[m - 1]) /\ reach[m] = Onward(reach[m - 1]) BY <1>5, <1>6, <1>7, <1>11
<1> QED BY <1>9, <1>11, <1>12

\* The layers the property speaks of, as the sets at each distance.
LEMMA DistancesAre ==
  ASSUME question \in Question, NEW n \in Nat
  PROVE  AtDistance(n) = Nearest(Neighbours, question.from, n)
<1>1. WalkEnds(n) = Reach(Neighbours, question.from)[n] BY WalkEndsAre
<1>2. \A k \in 0..(n - 1) : WalkEnds(k) = Reach(Neighbours, question.from)[k] BY WalkEndsAre
<1>3. \A f : f \in AtDistance(n) <=> f \in Nearest(Neighbours, question.from, n)
  BY <1>1, <1>2 DEF AtDistance, Nearest
<1> QED BY <1>3 DEF AtDistance, Nearest

Near(n) == Nearest(Neighbours, question.from, n)

\* The pairs of a relationship type and an entity n relationships away.
BucketsAt(n) ==
  {p \in RelationshipTypes \X Entities :
     p[2] \in Near(n) /\ \E r \in Relationships, e \in Near(n - 1) : r.type = p[1] /\ Admitted(r) /\ Leads(r, e, p[2])}

IsLayer(layer, n) ==
  /\ layer \subseteq BucketsAt(n)
  /\ EntitiesOf(layer) = Near(n)
  /\ question.provider # "sql" => layer = BucketsAt(n)
  /\ question.provider = "sql" => Cardinality(layer) = Cardinality(Near(n))

\* After some rounds the layers hold what is that far away, and what is nearer is visited.
Exploring ==
  /\ question \in Question
  /\ round \in Nat
  /\ \A e : e \in visited <=> \E k \in 0..round : e \in Reach(Neighbours, question.from)[k]
  /\ frontier = Near(round)
  /\ layers \in Seq(SUBSET (RelationshipTypes \X Entities))
  /\ Len(layers) = round \/ (Len(layers) = round - 1 /\ frontier = {})
  /\ \A n \in 1..Len(layers) : IsLayer(layers[n], n)

\* The entities at a distance fit, are one step from those before them and no nearer.
LEMMA NearIs ==
  ASSUME question \in Question
  PROVE  /\ Near(0) = {question.from}
         /\ \A n \in Nat : Near(n) \in SUBSET Entities
         /\ \A n \in Nat \ {0} : \A f : f \in Near(n) <=>
              /\ Fits(f) /\ \E r \in Relationships, e \in Near(n - 1) : Admitted(r) /\ Leads(r, e, f)
              /\ \A k \in 0..(n - 1) : f \notin Reach(Neighbours, question.from)[k]
<1>1. question.from \in Entities /\ Neighbours \in SUBSET (Entities \X Entities) BY QuestionIs
<1>2. /\ Near(0) = {question.from}
      /\ \A n \in Nat : Near(n) \in SUBSET Entities
      /\ \A n \in Nat \ {0} : \A f : f \in Near(n) <=>
           /\ \E e \in Near(n - 1) : <<e, f>> \in Neighbours
           /\ \A k \in 0..(n - 1) : f \notin Reach(Neighbours, question.from)[k]
  BY <1>1, NearestIs DEF Near
<1>3. \A e, f : <<e, f>> \in Neighbours <=> Fits(f) /\ \E r \in Relationships : Admitted(r) /\ Leads(r, e, f)
  BY QuestionIs
<1>4. ASSUME NEW n \in Nat \ {0}, NEW f
      PROVE  f \in Near(n) <=>
              /\ Fits(f) /\ \E r \in Relationships, e \in Near(n - 1) : Admitted(r) /\ Leads(r, e, f)
              /\ \A k \in 0..(n - 1) : f \notin Reach(Neighbours, question.from)[k]
  <2>1. (\E e \in Near(n - 1) : <<e, f>> \in Neighbours) <=>
          Fits(f) /\ \E r \in Relationships, e \in Near(n - 1) : Admitted(r) /\ Leads(r, e, f)
    BY <1>3
  <2> QED BY <1>2, <2>1
<1> QED BY <1>2, <1>4

\* What a frontier reaches, if no relationship that leads on was left in the store.
LEMMA ReachedIs ==
  ASSUME Exploring, NEW rels \in SUBSET Relationships,
         \A r \in Relationships, e \in frontier, f \in Entities \ visited :
           Admitted(r) /\ Leads(r, e, f) => r \in rels
  PROVE  Reached(rels) = BucketsAt(round + 1) /\ EntitiesOf(Reached(rels)) = Near(round + 1)
<1> DEFINE n == round + 1
<1>1. n \in Nat \ {0} /\ n - 1 = round /\ frontier = Near(n - 1) /\ question \in Question BY DEF Exploring
<1>2. \A e : e \in visited <=> \E k \in 0..(n - 1) : e \in Reach(Neighbours, question.from)[k]
  BY <1>1 DEF Exploring
<1> HIDE DEF n
<1>3. /\ Relationships \in SUBSET Relationship
      /\ \A r \in Relationship : \A e, f : Leads(r, e, f) => f \in Entities
      /\ \A r \in Relationship : r.type \in RelationshipTypes
  BY <1>1, QuestionIs DEF Relationship
<1>4. \A f : f \in Near(n) <=>
        /\ Fits(f) /\ \E r \in Relationships, e \in frontier : Admitted(r) /\ Leads(r, e, f)
        /\ f \notin visited
  BY <1>1, <1>2, NearIs
<1>5. ASSUME NEW t, NEW f
      PROVE  <<t, f>> \in Reached(rels) <=>
               f \in Near(n) /\ \E r \in Relationships, e \in frontier : r.type = t /\ Admitted(r) /\ Leads(r, e, f)
  <2>1. <<t, f>>[1] = t /\ <<t, f>>[2] = f OBVIOUS
  <2>2. <<t, f>> \in Reached(rels) <=>
          /\ \E r \in rels : t = r.type
          /\ f \in Entities \ visited /\ Fits(f)
          /\ \E r \in rels, e \in frontier : r.type = t /\ Admitted(r) /\ Leads(r, e, f)
    BY <2>1 DEF Reached
  <2>3. \A r \in Relationships, e \in frontier : Admitted(r) /\ Leads(r, e, f) => f \in Entities BY <1>3
  <2>4. ASSUME <<t, f>> \in Reached(rels)
        PROVE  f \in Near(n) /\ \E r \in Relationships, e \in frontier : r.type = t /\ Admitted(r) /\ Leads(r, e, f)
    BY <2>2, <2>4, <1>4
  <2>5. ASSUME f \in Near(n), NEW r \in Relationships, NEW e \in frontier, r.type = t, Admitted(r), Leads(r, e, f)
        PROVE  <<t, f>> \in Reached(rels)
    <3>1. f \in Entities \ visited /\ Fits(f) BY <2>3, <2>5, <1>4
    <3>2. r \in rels BY <3>1, <2>5
    <3> QED BY <2>2, <2>5, <3>1, <3>2
  <2> QED BY <2>4, <2>5
<1>6. ASSUME NEW t, NEW f
      PROVE  <<t, f>> \in BucketsAt(n) <=>
               f \in Near(n) /\ \E r \in Relationships, e \in frontier : r.type = t /\ Admitted(r) /\ Leads(r, e, f)
  <2>1. <<t, f>>[1] = t /\ <<t, f>>[2] = f OBVIOUS
  <2>2. \A r \in Relationships, e \in frontier : r.type = t /\ Leads(r, e, f) =>
          <<t, f>> \in RelationshipTypes \X Entities
    BY <1>3
  <2> QED BY <2>1, <2>2, <1>1 DEF BucketsAt
<1>7. Reached(rels) = BucketsAt(n)
  <2>1. \A p \in Reached(rels) \cup BucketsAt(n) : p = <<p[1], p[2]>> BY DEF Reached, BucketsAt
  <2>2. \A p : p \in Reached(rels) <=> p \in BucketsAt(n) BY <2>1, <1>5, <1>6
  <2> QED BY <2>2 DEF Reached, BucketsAt
<1>8. EntitiesOf(Reached(rels)) = Near(n)
  <2>1. ASSUME NEW f \in EntitiesOf(Reached(rels)) PROVE f \in Near(n)
    <3>1. PICK p \in BucketsAt(n) : f = p[2] BY <2>1, <1>7 DEF EntitiesOf
    <3> QED BY <3>1 DEF BucketsAt
  <2>2. ASSUME NEW f \in Near(n) PROVE f \in EntitiesOf(Reached(rels))
    <3>1. PICK r \in Relationships, e \in frontier : Admitted(r) /\ Leads(r, e, f) BY <2>2, <1>4
    <3>2. <<r.type, f>> \in Reached(rels) /\ <<r.type, f>>[2] = f BY <3>1, <2>2, <1>5
    <3> QED BY <3>2 DEF EntitiesOf
  <2> QED BY <2>1, <2>2
<1> QED BY <1>7, <1>8 DEF n

\* A layer more.
LEMMA LayerAdded ==
  ASSUME Exploring, MoreRounds, NEW layer, IsLayer(layer, round + 1), Promote(layer),
         layers' = Append(layers, layer) \/ (layers' = layers /\ layer = {})
  PROVE  Exploring'
<1>1. question' = question /\ round' = round + 1 /\ frontier' = EntitiesOf(layer)
      /\ visited' = visited \cup EntitiesOf(layer)
  BY DEF Promote
<1>2. Neighbours' = Neighbours BY <1>1 DEF Neighbours, Fits, Relationships, Admitted, Leads
<1>3. \A n : Near(n)' = Near(n) BY <1>1, <1>2 DEF Near
<1>4. \A n : BucketsAt(n)' = BucketsAt(n) BY <1>1, <1>3 DEF BucketsAt, Relationships, Admitted, Leads
<1>5. \A l, n : IsLayer(l, n)' <=> IsLayer(l, n) BY <1>1, <1>3, <1>4 DEF IsLayer
<1>6. frontier' = Near(round + 1) BY <1>1 DEF IsLayer
<1>7. \A e : e \in visited' <=> \E k \in 0..(round + 1) : e \in Reach(Neighbours, question.from)[k]
  <2>1. /\ \A e : e \in visited <=> \E k \in 0..round : e \in Reach(Neighbours, question.from)[k]
        /\ round \in Nat
    BY DEF Exploring
  <2>2. Near(round + 1) = Reach(Neighbours, question.from)[round + 1] \ UNION {Reach(Neighbours, question.from)[k] : k \in 0..round}
    BY <2>1 DEF Near, Nearest
  <2>3. \A e : e \in Near(round + 1) <=> e \in Reach(Neighbours, question.from)[round + 1] /\ e \notin visited
    BY <2>1, <2>2
  <2>4. 0..(round + 1) = (0..round) \cup {round + 1} BY <2>1
  <2>5. EntitiesOf(layer) = Near(round + 1) BY DEF IsLayer
  <2>6. \A e : e \in visited' <=> \E k \in 0..(round + 1) : e \in Reach(Neighbours, question.from)[k]
    BY <1>1, <2>1, <2>3, <2>4, <2>5
  <2> QED BY <2>6
<1>8. layer \in SUBSET (RelationshipTypes \X Entities) BY DEF IsLayer, BucketsAt
<1>9. Len(layers) = round /\ round \in Nat BY DEF Exploring, MoreRounds
<1>10. ASSUME layers' \in Seq(SUBSET (RelationshipTypes \X Entities)),
              Len(layers') = round' \/ (Len(layers') = round' - 1 /\ frontier' = {}),
              \A n \in 1..Len(layers') : IsLayer(layers'[n], n)
       PROVE  Exploring'
  <2>1. question' \in Question /\ round' \in Nat BY <1>1, <1>9 DEF Exploring
  <2>2. frontier' = Near(round)' BY <1>1, <1>3, <1>6
  <2>3. \A n \in 1..Len(layers') : IsLayer(layers[n], n)' BY <1>5, <1>10
  <2>4. \A e : e \in visited' <=> \E k \in 0..round' : e \in Reach(Neighbours', question'.from)[k]
    BY <1>1, <1>2, <1>7
  <2> QED BY <1>10, <2>1, <2>2, <2>3, <2>4 DEF Exploring
<1>11. CASE layers' = Append(layers, layer)
  <2>1. /\ layers' \in Seq(SUBSET (RelationshipTypes \X Entities)) /\ Len(layers') = round + 1
        /\ \A n \in 1..round : layers'[n] = layers[n]
        /\ layers'[round + 1] = layer
    BY <1>8, <1>9, <1>11 DEF Exploring
  <2>2. ASSUME NEW n \in 1..Len(layers') PROVE IsLayer(layers'[n], n)
    <3>1. CASE n = round + 1 BY <2>1, <3>1
    <3>2. CASE n # round + 1
      <4>1. n \in 1..round BY <1>9, <2>1, <3>2
      <4> QED BY <4>1, <1>9, <2>1 DEF Exploring
    <3> QED BY <3>1, <3>2
  <2> QED BY <1>1, <1>10, <2>1, <2>2
<1>12. CASE layers' = layers /\ layer = {}
  <2>1. frontier' = {} BY <1>1, <1>12 DEF EntitiesOf
  <2>2. \A n \in 1..Len(layers') : IsLayer(layers'[n], n) BY <1>12 DEF Exploring
  <2>3. Len(layers') = round' - 1 BY <1>1, <1>9, <1>12
  <2>4. layers' \in Seq(SUBSET (RelationshipTypes \X Entities)) BY <1>12 DEF Exploring
  <2> QED BY <1>10, <2>1, <2>2, <2>3, <2>4
<1> QED BY <1>11, <1>12

\* A neighbourhood starts with its center, at no distance.
LEMMA Begins == Init /\ AsksFor("neighborhood") => Exploring
<1> SUFFICES ASSUME Init PROVE Exploring OBVIOUS
<1>1. question \in Question BY QuestionAssumption DEF Init
<1>2. /\ round = 0 /\ visited = {question.from} /\ frontier = {question.from} /\ layers = <<>>
  BY DEF Init, NeighborhoodInit
<1>3. Near(0) = {question.from} BY <1>1, NearIs
<1>4. Reach(Neighbours, question.from)[0] = {question.from} BY <1>1, QuestionIs, ReachIs
<1>5. \A e : e \in visited <=> \E k \in 0..round : e \in Reach(Neighbours, question.from)[k]
  BY <1>2, <1>4
<1>6. /\ layers \in Seq(SUBSET (RelationshipTypes \X Entities)) /\ Len(layers) = 0
  BY <1>2
<1> QED BY <1>1, <1>2, <1>3, <1>5, <1>6 DEF Exploring

\* Finitely many entities are at a distance, the ends of relationships.
LEMMA NearFinite ==
  ASSUME question \in Question, NEW n \in Nat
  PROVE  IsFiniteSet(Near(n))
<1> DEFINE stored == question.stored
           ends == {stored[i].source : i \in 1..Len(stored)} \cup {stored[i].target : i \in 1..Len(stored)}
<1>1. stored \in Seq(Relationship) /\ Len(stored) \in Nat /\ DOMAIN stored = 1..Len(stored) BY DEF Question
<1>2. CASE n = 0
  <2>1. Near(n) = {question.from} BY <1>2, NearIs
  <2> QED BY <2>1, FS_Singleton
<1>3. CASE n # 0
  <2>1. IsFiniteSet(1..Len(stored)) BY <1>1, FS_Interval
  <2> DEFINE sources == [i \in 1..Len(stored) |-> stored[i].source]
             targets == [i \in 1..Len(stored) |-> stored[i].target]
  <2>2. IsFiniteSet({stored[i].source : i \in 1..Len(stored)})
    <3>1. sources \in Surjection(1..Len(stored), {stored[i].source : i \in 1..Len(stored)}) BY DEF Surjection
    <3> QED BY <2>1, <3>1, FS_Surjection
  <2>3. IsFiniteSet({stored[i].target : i \in 1..Len(stored)})
    <3>1. targets \in Surjection(1..Len(stored), {stored[i].target : i \in 1..Len(stored)}) BY DEF Surjection
    <3> QED BY <2>1, <3>1, FS_Surjection
  <2>4. IsFiniteSet(ends) BY <2>2, <2>3, FS_Union
  <2>5. Near(n) \subseteq ends
    <3> SUFFICES ASSUME NEW f \in Near(n) PROVE f \in ends OBVIOUS
    <3>1. PICK r \in Relationships : \E e \in Near(n - 1) : Leads(r, e, f) BY <1>3, NearIs
    <3>2. PICK i \in 1..Len(stored) : r = stored[i] BY <1>1 DEF Relationships
    <3>3. f \in {r.source, r.target} BY <3>1 DEF Leads, LeadsTo
    <3> QED BY <3>2, <3>3
  <2> QED BY <2>4, <2>5, FS_Subset
<1> QED BY <1>2, <1>3

\* The in-memory provider, which looks at all relationships.
LEMMA StoredLayer ==
  ASSUME Exploring, ExploreStored
  PROVE  Exploring'
<1> DEFINE layer == Reached(Relationships)
<1>1. MoreRounds /\ question.provider = "memory" /\ layers' = Append(layers, layer) /\ Promote(layer)
  BY DEF ExploreStored
<1>2. layer = BucketsAt(round + 1) /\ EntitiesOf(layer) = Near(round + 1) BY ReachedIs
<1> HIDE DEF layer
<1>3. IsLayer(layer, round + 1) BY <1>1, <1>2 DEF IsLayer
<1> QED BY <1>1, <1>3, LayerAdded

\* The SQL provider, which has each entity under one of its types.
LEMMA RowsLayer ==
  ASSUME Exploring, ExploreRows
  PROVE  Exploring'
<1> DEFINE reached == Reached(OfType)
           found1 == EntitiesOf(reached)
<1>1. MoreRounds /\ question.provider = "sql" BY DEF ExploreRows
<1>2. PICK first \in [found1 -> TypesOf(reached)] :
        LET layer == {<<first[e], e>> : e \in found1}
        IN  layer \subseteq reached /\ layers' = Append(layers, layer) /\ Promote(layer)
  BY DEF ExploreRows
<1> DEFINE layer == {<<first[e], e>> : e \in found1}
<1>3. reached = BucketsAt(round + 1) /\ found1 = Near(round + 1)
  <2>1. OfType \in SUBSET Relationships /\ \A r \in Relationships : Admitted(r) => r \in OfType
    BY DEF OfType, Admitted
  <2> QED BY <2>1, ReachedIs
<1> HIDE DEF reached, found1
<1>4. layer \subseteq reached /\ layers' = Append(layers, layer) /\ Promote(layer) BY <1>2
<1>5. EntitiesOf(layer) = found1
  <2>1. \A e : <<first[e], e>>[2] = e OBVIOUS
  <2> QED BY <2>1 DEF EntitiesOf
<1>6. Cardinality(layer) = Cardinality(found1)
  <2>1. IsFiniteSet(found1) BY <1>3, NearFinite DEF Exploring
  <2> DEFINE pair == [e \in found1 |-> <<first[e], e>>]
  <2>2. pair \in Bijection(found1, layer)
    BY DEF Bijection, Injection, Surjection, IsInjective
  <2> QED BY <2>1, <2>2, FS_Bijection DEF ExistsBijection
<1> HIDE DEF layer
<1>7. IsLayer(layer, round + 1) BY <1>1, <1>3, <1>4, <1>5, <1>6 DEF IsLayer
<1> QED BY <1>1, <1>4, <1>7, LayerAdded

\* A traversal as long as the distance of the next layer returns every relationship that
\* leads to one of its entities: a trail leads to where it starts, and it is not on that.
LEMMA RetrievedIs ==
  ASSUME Exploring
  PROVE  /\ Retrieved(round + 1) \in SUBSET Relationships
         /\ \A r \in Relationships, e \in frontier, f \in Entities \ visited :
              Admitted(r) /\ Leads(r, e, f) => r \in Retrieved(round + 1)
<1> DEFINE n == round + 1
           from == question.from
           Along1(w) == {w.relationships[i] : i \in DOMAIN w.relationships}
           Used(k) == UNION {Along1(w) : w \in Trails(OfType, from, k)}
<1>1. question \in Question /\ round \in Nat /\ frontier = Near(round) BY DEF Exploring
<1>2. /\ Relationships \in SUBSET Relationship /\ from \in Entities
      /\ Neighbours \in SUBSET (Entities \X Entities)
      /\ \A r \in Relationship : \A e, f : Leads(r, e, f) => Touches(r, e) /\ OtherEnd(r, e) = f
      /\ \A e, f : <<e, f>> \in Neighbours <=> Fits(f) /\ \E r \in Relationships : Admitted(r) /\ Leads(r, e, f)
  BY <1>1, QuestionIs
<1>3. OfType \in SUBSET Relationship /\ OfType \subseteq Relationships
      /\ \A r \in Relationships : Admitted(r) => r \in OfType
  BY <1>2 DEF OfType, Admitted
<1>4. n \in Nat \ {0} /\ n - 1 = round BY <1>1
<1> HIDE DEF n
<1>5. Retrieved(n) = IF question.provider = "cosmos" THEN UNION {Used(k) : k \in 1..n} ELSE Used(n)
  BY DEF Retrieved
<1>6. ASSUME NEW k \in Nat PROVE Used(k) \subseteq Relationships
  <2> SUFFICES ASSUME NEW w \in Trails(OfType, from, k), NEW i \in DOMAIN w.relationships
               PROVE  w.relationships[i] \in Relationships
    OBVIOUS
  <2>1. IsTrail(w, OfType, from, k) BY <1>2, <1>3, TrailShape
  <2>2. DOMAIN w.relationships = 1..k BY <2>1 DEF IsTrail, Walk
  <2> QED BY <1>3, <2>1, <2>2 DEF IsTrail
<1>7. Used(n) \subseteq Retrieved(n)
  <2> HIDE DEF Used
  <2> QED BY <1>4, <1>5
<1>8. Retrieved(n) \subseteq Relationships
  <2>1. \A k \in 1..n : Used(k) \subseteq Relationships BY <1>6
  <2> HIDE DEF Used
  <2> QED BY <1>4, <1>5, <2>1
<1>9. ASSUME NEW r \in Relationships, NEW e \in frontier, NEW f \in Entities \ visited,
             Admitted(r), Leads(r, e, f)
      PROVE  r \in Used(n)
  <2>1. \A p \in Neighbours : \E s \in OfType : Touches(s, p[1]) /\ OtherEnd(s, p[1]) = p[2]
    <3> SUFFICES ASSUME NEW p \in Neighbours
                 PROVE  \E s \in OfType : Touches(s, p[1]) /\ OtherEnd(s, p[1]) = p[2]
      OBVIOUS
    <3>1. p = <<p[1], p[2]>> BY <1>2
    <3> QED BY <3>1, <1>2, <1>3
  <2>2. e \in Nearest(Neighbours, from, round) BY <1>1 DEF Near
  <2>3. r \in Relationship /\ r \in OfType /\ Touches(r, e) /\ OtherEnd(r, e) = f BY <1>2, <1>3, <1>9
  <2>4. \A k \in 0..round : f \notin Nearest(Neighbours, from, k)
    <3>1. \A k \in 0..round : f \notin Reach(Neighbours, from)[k] BY DEF Exploring
    <3> QED BY <3>1 DEF Nearest
  <2>5. PICK w \in Trails(OfType, from, round) :
          /\ End(w) = e
          /\ \A s \in Relationship :
               Touches(s, e) /\ (\A k \in 0..round : OtherEnd(s, e) \notin Nearest(Neighbours, from, k)) => ~ Uses(w, s)
    <3> HIDE DEF from, Along1, Used
    <3> QED BY <1>1, <1>2, <1>3, <2>1, <2>2, NearestHasTrail
  <2>6. ~ Uses(w, r) BY <2>3, <2>4, <2>5
  <2>7. Extend(w, r) \in Trails(OfType, from, n) BY <1>4, <2>3, <2>5, <2>6, TrailsAre
  <2>8. IsTrail(w, OfType, from, round) BY <1>1, <1>2, <1>3, <2>5, TrailShape
  <2>9. w \in Walk /\ Len(w.entities) # 0 /\ Len(w.relationships) = round BY <1>1, <2>8 DEF IsTrail
  <2>10. /\ Extend(w, r) \in Walk /\ Len(Extend(w, r).relationships) = n
         /\ Extend(w, r).relationships[n] = r
    <3>1. /\ Extend(w, r) \in Walk
          /\ Len(Extend(w, r).relationships) = Len(w.relationships) + 1
          /\ Extend(w, r).relationships[Len(w.relationships) + 1] = r
      <4> HIDE DEF from, Along1, Used
      <4> QED BY <2>3, <2>9, ExtendIs
    <3> QED BY <3>1, <2>9 DEF n
  <2>11. n \in DOMAIN Extend(w, r).relationships BY <1>4, <2>10 DEF Walk
  <2>12. r \in Along1(Extend(w, r)) BY <2>10, <2>11
  <2> QED BY <2>7, <2>12
<1> QED BY <1>7, <1>8, <1>9 DEF n

\* A round of a compiled neighbourhood adds the next layer.
LEMMA TraversalLayer ==
  ASSUME Exploring, ExploreTraversal
  PROVE  Exploring'
<1> DEFINE layer == Reached(Retrieved(round + 1))
<1>1. /\ MoreRounds /\ question.provider \in Compiled
      /\ layers' = IF layer = {} THEN layers ELSE Append(layers, layer)
      /\ Promote(layer)
  BY DEF ExploreTraversal
<1>2. layer = BucketsAt(round + 1) /\ EntitiesOf(layer) = Near(round + 1) BY RetrievedIs, ReachedIs
<1> HIDE DEF layer
<1>3. IsLayer(layer, round + 1) BY <1>1, <1>2 DEF IsLayer, Compiled
<1> QED BY <1>1, <1>3, LayerAdded

-----------------------------------------------------------------------------
\* While a neighbourhood is explored nothing else moves.
LayersInv == question \in Question /\ (AsksFor("neighborhood") => Exploring)

\* The layers stay right as long as neither they nor the question move.
LEMMA SameLayers ==
  ASSUME Exploring, question' = question, UNCHANGED neighborhoodVars
  PROVE  Exploring'
<1>1. round' = round /\ visited' = visited /\ frontier' = frontier /\ layers' = layers BY DEF neighborhoodVars
<1>2. Neighbours' = Neighbours BY DEF Neighbours, Fits, Relationships, Admitted, Leads
<1>3. \A n : Near(n)' = Near(n) BY <1>2 DEF Near
<1>4. \A n : BucketsAt(n)' = BucketsAt(n) BY <1>3 DEF BucketsAt, Relationships, Admitted, Leads
<1>5. \A l, n : IsLayer(l, n)' <=> IsLayer(l, n) BY <1>3, <1>4 DEF IsLayer
<1>6. \A n \in 1..Len(layers') : IsLayer(layers[n], n)' BY <1>1, <1>5 DEF Exploring
<1>7. frontier' = Near(round)' BY <1>1, <1>3 DEF Exploring
<1>8. \A e : e \in visited' <=> \E k \in 0..round' : e \in Reach(Neighbours', question'.from)[k]
  BY <1>1, <1>2 DEF Exploring
<1>9. /\ question' \in Question /\ round' \in Nat
      /\ layers' \in Seq(SUBSET (RelationshipTypes \X Entities))
      /\ Len(layers') = round' \/ (Len(layers') = round' - 1 /\ frontier' = {})
  BY <1>1 DEF Exploring
<1> QED BY <1>6, <1>7, <1>8, <1>9 DEF Exploring

\* Every step of every request keeps what is said of the layers.
LEMMA LayersStep == LayersInv /\ [Next]_vars => LayersInv'
<1> SUFFICES ASSUME LayersInv, [Next]_vars PROVE LayersInv' OBVIOUS
<1>1. question' = question BY SameGraph
<1>2. question' \in Question /\ (AsksFor("neighborhood")' => AsksFor("neighborhood"))
  BY <1>1 DEF LayersInv, AsksFor
<1> SUFFICES ASSUME AsksFor("neighborhood") PROVE Exploring' BY <1>2 DEF LayersInv
<1>3. Exploring BY DEF LayersInv
<1>4. CASE ExploreStored BY <1>3, <1>4, StoredLayer
<1>5. CASE ExploreRows BY <1>3, <1>5, RowsLayer
<1>6. CASE ExploreTraversal BY <1>3, <1>6, TraversalLayer
<1>7. CASE UNCHANGED neighborhoodVars BY <1>1, <1>3, <1>7, SameLayers
<1> QED BY <1>4, <1>5, <1>6, <1>7 DEF Next, NeighborhoodNext, Finished, vars

\* What the property says a layer holds, in terms of the distances.
LEMMA BucketsAre ==
  ASSUME question \in Question, NEW n \in Nat \ {0}
  PROVE  Buckets(n) = BucketsAt(n)
<1>1. AtDistance(n) = Near(n) /\ AtDistance(n - 1) = Near(n - 1) BY DistancesAre DEF Near
<1>2. /\ Relationships \in SUBSET Relationship
      /\ \A r \in Relationship : \A e, f : Leads(r, e, f) => f \in Entities
      /\ \A r \in Relationship : r.type \in RelationshipTypes
  BY QuestionIs DEF Relationship
<1>3. ASSUME NEW p
      PROVE  p \in Buckets(n) <=>
               \E f \in Near(n) : \E r \in Relationships :
                 p = <<r.type, f>> /\ Admitted(r) /\ \E e \in Near(n - 1) : Leads(r, e, f)
  BY <1>1 DEF Buckets
<1>4. ASSUME NEW p \in Buckets(n) PROVE p \in BucketsAt(n)
  <2>1. PICK f \in Near(n), r \in Relationships, e \in Near(n - 1) :
          p = <<r.type, f>> /\ Admitted(r) /\ Leads(r, e, f)
    BY <1>3, <1>4
  <2>2. p[1] = r.type /\ p[2] = f /\ p \in RelationshipTypes \X Entities BY <1>2, <2>1
  <2> QED BY <2>1, <2>2 DEF BucketsAt
<1>5. ASSUME NEW p \in BucketsAt(n) PROVE p \in Buckets(n)
  <2>1. p = <<p[1], p[2]>> /\ p[2] \in Near(n) BY DEF BucketsAt
  <2>2. PICK r \in Relationships, e \in Near(n - 1) : r.type = p[1] /\ Admitted(r) /\ Leads(r, e, p[2])
    BY DEF BucketsAt
  <2> QED BY <1>3, <2>1, <2>2
<1> QED BY <1>4, <1>5

\* Every layer of a neighbourhood is a distance, and none is missing.
THEOREM LayersHoldDistances == Spec => []LayersAreDistances
<1>1. Init => LayersInv BY Begins, QuestionAssumption DEF LayersInv, Init
<1>2. LayersInv => LayersAreDistances
  <2> SUFFICES ASSUME LayersInv, Explored PROVE
        /\ \A n \in DOMAIN layers :
             /\ layers[n] \subseteq Buckets(n)
             /\ EntitiesOf(layers[n]) = AtDistance(n)
             /\ question.provider # "sql" => layers[n] = Buckets(n)
             /\ question.provider = "sql" => Cardinality(layers[n]) = Cardinality(AtDistance(n))
        /\ \A n \in 1..question.maxDepth : n > Len(layers) => AtDistance(n) = {}
    BY DEF LayersAreDistances
  <2>1. Exploring /\ question \in Question BY DEF LayersInv, Explored
  <2>2. DOMAIN layers = 1..Len(layers) /\ Len(layers) \in Nat BY <2>1 DEF Exploring
  <2>3. ASSUME NEW n \in DOMAIN layers
        PROVE  /\ layers[n] \subseteq Buckets(n)
               /\ EntitiesOf(layers[n]) = AtDistance(n)
               /\ question.provider # "sql" => layers[n] = Buckets(n)
               /\ question.provider = "sql" => Cardinality(layers[n]) = Cardinality(AtDistance(n))
    <3>1. \A k \in 1..Len(layers) : IsLayer(layers[k], k) BY <2>1 DEF Exploring
    <3>2. n \in Nat \ {0} /\ IsLayer(layers[n], n) BY <2>2, <3>1
    <3>3. Buckets(n) = BucketsAt(n) /\ AtDistance(n) = Near(n) BY <2>1, <3>2, BucketsAre, DistancesAre DEF Near
    <3> QED BY <3>2, <3>3 DEF IsLayer
  <2>4. ASSUME NEW n \in 1..question.maxDepth, n > Len(layers) PROVE AtDistance(n) = {}
    <3>1. round \in Nat /\ frontier = Near(round) /\ question.maxDepth \in Nat BY <2>1 DEF Exploring, Question
    <3>2. round >= question.maxDepth \/ frontier = {} BY <3>1 DEF Explored, MoreRounds
    <3>3. Len(layers) = round \/ (Len(layers) = round - 1 /\ frontier = {}) BY <2>1 DEF Exploring
    <3>4. n \in Nat /\ n <= question.maxDepth /\ Len(layers) \in Nat BY <2>2, <3>1
    <3>5. round <= n BY <2>4, <3>1, <3>3, <3>4
    <3>6. frontier = {} BY <2>4, <3>1, <3>2, <3>3, <3>4
    <3>7. question.from \in Entities /\ Neighbours \in SUBSET (Entities \X Entities)
      BY <2>1, QuestionIs
    <3>8. Nearest(Neighbours, question.from, n) = {} BY <3>1, <3>4, <3>5, <3>6, <3>7, NothingBeyond DEF Near
    <3> QED BY <2>1, <3>4, <3>8, DistancesAre
  <2> QED BY <2>3, <2>4
<1> QED BY <1>1, <1>2, LayersStep, PTL DEF Spec

-----------------------------------------------------------------------------
(* Paths.                                                                    *)

\* The beginning of a path: it has not reached the target, it may still grow by one
\* relationship, and all it has come to fits.
Partial(w) ==
  /\ w \in Walk
  /\ Len(w.entities) \in 1..question.maxDepth
  /\ Joined(w)
  /\ w.entities[1] = question.from
  /\ IsSimple(w)
  /\ ~Visits(w, question.to)
  /\ \A i \in 2..Len(w.entities) : Fits(w.entities[i])

AllPartial(s) == \A i \in 1..Len(s) : Partial(s[i])

AllPaths(s) == \A i \in 1..Len(s) : IsPath(s[i])

PathsInv ==
  /\ question \in Question
  /\ at \in Nat \ {0}
  /\ queue \in Seq(Walk) /\ nextLevel \in Seq(Walk) /\ found \in Seq(Walk)
  /\ question.from # question.to =>
       AllPartial(queue) /\ AllPartial(nextLevel) /\ Partial(current)
  /\ AllPaths(found)
  /\ page \subseteq FoundPaths

-----------------------------------------------------------------------------
\* A row looked at is a stored relationship.
LEMMA RowIsStored ==
  ASSUME question \in Question, at \in Nat \ {0}, ~Idle
  PROVE  Row \in Relationships /\ Row \in Relationship
<1> DEFINE n == Len(question.stored)
           i == IF at <= n THEN at ELSE at - n
<1>1. question.stored \in Seq(Relationship) /\ n \in Nat
  BY DEF Question
<1>2. i \in 1..n
  BY <1>1 DEF Idle, Rows
<1>3. QED
  BY <1>1, <1>2 DEF Row, Relationships

\* What a partial path becomes when a relationship takes it to an entity it has not visited.
LEMMA ExtendPartial ==
  ASSUME question \in Question,
         NEW w, Partial(w),
         NEW r \in Relationships, r \in Relationship, Admitted(r), Touches(r, End(w)),
         ~Visits(w, OtherEnd(r, End(w)))
  PROVE  LET x == Extend(w, r)
         IN  /\ x \in Walk
             /\ Len(x.entities) = Len(w.entities) + 1
             /\ Len(x.relationships) = Len(w.entities)
             /\ End(x) = OtherEnd(r, End(w))
             /\ x.entities[1] = question.from
             /\ \A i \in 1..Len(w.entities) : x.entities[i] = w.entities[i]
             /\ Joined(x) /\ IsSimple(x) /\ FitsBetween(x)
<1> DEFINE f == OtherEnd(r, End(w))
           x == Extend(w, r)
           n == Len(w.entities)
<1>1. /\ w.entities \in Seq(Entities) /\ w.relationships \in Seq(Relationship)
      /\ n \in Nat /\ n >= 1 /\ n = Len(w.relationships) + 1
  BY DEF Partial, Walk, Joined, Question
<1>2. f \in Entities
  BY DEF OtherEnd, Relationship
<1>3. /\ x.entities = Append(w.entities, f) /\ x.relationships = Append(w.relationships, r)
      /\ x \in Walk
  BY <1>1, <1>2 DEF Extend, Walk
<1>4. /\ Len(x.entities) = n + 1 /\ Len(x.relationships) = n
      /\ DOMAIN x.entities = 1..(n + 1) /\ DOMAIN x.relationships = 1..n
      /\ \A i \in 1..n : x.entities[i] = w.entities[i]
      /\ x.entities[n + 1] = f
      /\ \A i \in 1..(n - 1) : x.relationships[i] = w.relationships[i]
      /\ x.relationships[n] = r
  BY <1>1, <1>2, <1>3
<1>5. End(x) = f /\ x.entities[1] = question.from
  BY <1>1, <1>4 DEF End, Partial
<1>6. Joined(x)
  <2> SUFFICES ASSUME NEW i \in 1..n
               PROVE  LET s == x.relationships[i]
                      IN  /\ s \in Relationships /\ Admitted(s)
                          /\ Touches(s, x.entities[i])
                          /\ x.entities[i + 1] = OtherEnd(s, x.entities[i])
    BY <1>1, <1>4 DEF Joined
  <2>1. CASE i = n
    BY <2>1, <1>1, <1>4 DEF End
  <2>2. CASE i # n
    <3>1. i \in DOMAIN w.relationships /\ i \in 1..(n - 1) /\ i + 1 \in 1..n
      BY <2>2, <1>1
    <3>2. QED
      BY <3>1, <1>1, <1>4 DEF Partial, Joined
  <2>3. QED
    BY <2>1, <2>2
<1>7. IsSimple(x)
  <2>1. \A i \in 1..n : w.entities[i] # f
    BY <1>1 DEF Visits
  <2>2. \A i, j \in 1..n : w.entities[i] = w.entities[j] => i = j
    BY <1>1 DEF Partial, IsSimple
  <2> SUFFICES ASSUME NEW i \in 1..(n + 1), NEW j \in 1..(n + 1), x.entities[i] = x.entities[j]
               PROVE  i = j
    BY <1>4 DEF IsSimple
  <2>3. CASE i \in 1..n /\ j \in 1..n
    BY <2>2, <2>3, <1>4
  <2>4. CASE i = n + 1 /\ j \in 1..n
    BY <2>1, <2>4, <1>4
  <2>5. CASE i \in 1..n /\ j = n + 1
    BY <2>1, <2>5, <1>4
  <2>6. QED
    BY <2>3, <2>4, <2>5, <1>1
<1>8. FitsBetween(x)
  BY <1>1, <1>4 DEF FitsBetween, Partial
<1>9. QED
  BY <1>1, <1>3, <1>4, <1>5, <1>6, <1>7, <1>8

\* The beginnings of paths and the paths are those of the question, which stays.
LEMMA SameQuestion ==
  ASSUME question' = question
  PROVE  /\ \A w : Partial(w)' <=> Partial(w)
         /\ \A w : IsPath(w)' <=> IsPath(w)
BY DEF Partial, IsPath, Joined, IsSimple, Visits, FitsBetween, Fits, Admitted, Relationships,
       End, Touches, OtherEnd

\* One more at the end of a sequence.
LEMMA AppendAll ==
  ASSUME NEW S, NEW s \in Seq(S), NEW x \in S
  PROVE  /\ Append(s, x) \in Seq(S)
         /\ Len(Append(s, x)) = Len(s) + 1
         /\ \A i \in 1..Len(s) : Append(s, x)[i] = s[i]
         /\ Append(s, x)[Len(s) + 1] = x
OBVIOUS

-----------------------------------------------------------------------------
\* The one place where a path starts is the entity asked about.
LEMMA StartIsPartial ==
  ASSUME question \in Question
  PROVE  /\ Start(question.from) \in Walk
         /\ question.from # question.to => Partial(Start(question.from))
         /\ question.from = question.to => IsPath(Start(question.from))
<1> DEFINE w == Start(question.from)
<1>1. question.from \in Entities /\ question.maxDepth \in Nat \ {0}
  BY DEF Question
<1>2. w \in Walk /\ Len(w.entities) = 1 /\ w.entities[1] = question.from
      /\ Len(w.relationships) = 0 /\ DOMAIN w.entities = 1..1 /\ DOMAIN w.relationships = {}
  BY <1>1 DEF Start, Walk
<1>3. Joined(w) /\ IsSimple(w) /\ FitsBetween(w)
  BY <1>2 DEF Joined, IsSimple, FitsBetween
<1>4. question.from # question.to => ~Visits(w, question.to)
  BY <1>2 DEF Visits
<1>5. End(w) = question.from
  BY <1>2 DEF End
<1>6. QED
  BY <1>1, <1>2, <1>3, <1>4, <1>5 DEF Partial, IsPath

\* A path search begins with the beginning of a path.
LEMMA PathsInit == Init => PathsInv
<1> SUFFICES ASSUME Init PROVE PathsInv
  OBVIOUS
<1>1. question \in Question
  BY QuestionAssumption DEF Init
<1>2. question.stored \in Seq(Relationship) /\ at = Rows + 1
  BY <1>1 DEF Init, SearchInit, Question
<1>3. at \in Nat \ {0}
  BY <1>2 DEF Rows
<1>4. Len(queue) = 1 /\ queue[1] = Start(question.from) /\ queue \in Seq(Walk)
  BY <1>1, StartIsPartial DEF Init, SearchInit
<1>5. nextLevel = <<>> /\ found = <<>> /\ page = {} /\ current = Start(question.from)
  BY DEF Init, SearchInit
<1>6. QED
  BY <1>1, <1>3, <1>4, <1>5, StartIsPartial DEF PathsInv, AllPartial, AllPaths

\* Looking at a row with a partial path in hand.
LEMMA UsableRow ==
  ASSUME PathsInv, LookAtRow, Usable
  PROVE  /\ ~Visits(current, NextEntity)
         /\ Extended \in Walk
         /\ Len(Extended.entities) = Len(current.entities) + 1
         /\ Len(Extended.relationships) = Len(current.entities)
         /\ Extended.entities[1] = question.from
         /\ \A i \in 1..Len(current.entities) : Extended.entities[i] = current.entities[i]
         /\ Joined(Extended) /\ IsSimple(Extended) /\ FitsBetween(Extended)
<1>1. Partial(current) /\ question \in Question /\ ~Idle /\ at \in Nat \ {0}
  BY DEF PathsInv, LookAtRow, Searching
<1>2. Row \in Relationships /\ Row \in Relationship
  BY <1>1, RowIsStored
<1>3. Admitted(Row) /\ Touches(Row, End(current))
  BY DEF Usable
<1>4. NextEntity = OtherEnd(Row, End(current))
  <2>1. current.entities \in Seq(Entities)
    BY <1>1 DEF Partial, Walk
  <2>2. Extended.entities = Append(current.entities, OtherEnd(Row, End(current)))
    BY DEF Extended, Extend
  <2>3. QED
    BY <2>1, <2>2 DEF NextEntity, End
<1>5. ~Visits(current, NextEntity)
  BY <1>1, <1>4 DEF Usable, Partial
<1>6. QED
  BY <1>1, <1>2, <1>3, <1>4, <1>5, ExtendPartial DEF Extended

-----------------------------------------------------------------------------
(* The compiled search.                                                      *)

\* There are as many relationships as rows at most.
LEMMA FiniteGraph == question \in Question => IsFiniteSet(Relationships)
<1> SUFFICES ASSUME question \in Question PROVE IsFiniteSet(Relationships) OBVIOUS
<1> DEFINE n == Len(question.stored)
           row == [i \in 1..n |-> question.stored[i]]
<1>1. n \in Nat /\ DOMAIN question.stored = 1..n BY DEF Question
<1>2. row \in Surjection(1..n, Relationships) BY <1>1 DEF Surjection, Relationships
<1> HIDE DEF n, row
<1>3. IsFiniteSet(1..n) BY <1>1, FS_Interval
<1> QED BY <1>2, <1>3, FS_Surjection

\* Finitely many relationships make finitely many trails of a length.
LEMMA FiniteTrails ==
  ASSUME NEW R, IsFiniteSet(R), NEW from, NEW n \in Nat
  PROVE  IsFiniteSet(Trails(R, from, n))
<1> SUFFICES ASSUME ~ IsFiniteSet(Trails(R, from, n)) PROVE FALSE OBVIOUS
<1> DEFINE Bad == {k \in Nat : ~ IsFiniteSet(Trails(R, from, k))}
<1>0. Bad \in SUBSET Nat /\ n \in Bad OBVIOUS
<1>1. PICK m \in Bad : \A k \in Bad : m <= k BY <1>0, Reaching!Least
<1>2. m # 0
  <2>1. Trails(R, from, 0) = {Start(from)} BY TrailsAre
  <2>2. IsFiniteSet(Trails(R, from, 0)) BY <2>1, FS_Singleton
  <2> QED BY <1>1, <2>2
<1>3. m - 1 \in Nat /\ m - 1 \notin Bad /\ m \in Nat \ {0} BY <1>1, <1>2
<1> DEFINE pairs == Trails(R, from, m - 1) \X R
           longer == [p \in pairs |-> Extend(p[1], p[2])]
           all == {longer[p] : p \in pairs}
<1>4. IsFiniteSet(pairs) BY <1>3, FS_Product
<1>5. longer \in Surjection(pairs, all) BY DEF Surjection
<1>6. IsFiniteSet(all) BY <1>4, <1>5, FS_Surjection
<1>7. Trails(R, from, m) \subseteq all
  <2> SUFFICES ASSUME NEW w \in Trails(R, from, m) PROVE w \in all OBVIOUS
  <2>1. PICK v \in Trails(R, from, m - 1), r \in R : w = Extend(v, r) BY <1>3, TrailsAre
  <2>2. <<v, r>> \in pairs /\ <<v, r>>[1] = v /\ <<v, r>>[2] = r OBVIOUS
  <2>3. w = longer[<<v, r>>] BY <2>1, <2>2
  <2> QED BY <2>2, <2>3
<1>8. IsFiniteSet(Trails(R, from, m)) BY <1>6, <1>7, FS_Subset
<1> QED BY <1>1, <1>8

\* A finite set in some order.
LEMMA SequenceOfSet ==
  ASSUME NEW S, IsFiniteSet(S)
  PROVE  /\ SetToSeq(S) \in Seq(S)
         /\ IsInjective(SetToSeq(S))
         /\ {SetToSeq(S)[i] : i \in DOMAIN SetToSeq(S)} = S
<1> DEFINE n == Cardinality(S)
           s == SetToSeq(S)
<1>1. n \in Nat /\ ExistsBijection(1..n, S) BY FS_CardinalityType
<1>2. s \in [1..n -> S] /\ IsInjective(s)
  <2>1. PICK f \in [1..n -> S] : IsInjective(f)
    BY <1>1 DEF ExistsBijection, Bijection, Injection
  <2> QED BY <2>1 DEF SetToSeq
<1> HIDE DEF s
<1>3. s \in Injection(1..n, S) BY <1>2 DEF Injection
<1>4. IsFiniteSet(1..n) /\ Cardinality(1..n) = n BY <1>1, FS_Interval
<1>5. s \in Surjection(1..n, S) BY <1>3, <1>4, FS_Injection
<1>6. DOMAIN s = 1..n /\ s \in Seq(S) BY <1>1, <1>2
<1>7. {s[i] : i \in DOMAIN s} = S BY <1>5, <1>6 DEF Surjection
<1> QED BY <1>2, <1>6, <1>7 DEF s

\* The relationships a compiled path search asks for.
Passing == {r \in OfType : r.passes}

\* The rows of a compiled search: finitely many, and trails.
LEMMA CandidatesAre ==
  ASSUME question \in Question
  PROVE  /\ IsFiniteSet(Candidates)
         /\ Passing = {r \in Relationships : Admitted(r)}
         /\ Passing \in SUBSET Relationship
         /\ \A w : w \in Candidates <=>
              /\ \E n \in (IF question.provider = "cosmos" THEN 0 ELSE 1)..question.maxDepth :
                   w \in Trails(Passing, question.from, n)
              /\ question.provider = "cosmos" => IsSimple(w)
<1> DEFINE shortest == IF question.provider = "cosmos" THEN 0 ELSE 1
           rowsOf(n) == Trails(Passing, question.from, n)
           all == UNION {rowsOf(n) : n \in shortest..question.maxDepth}
<1>1. question.maxDepth \in Nat /\ Relationships \in SUBSET Relationship BY QuestionIs DEF Question
<1>2. Passing = {r \in Relationships : Admitted(r)} BY DEF Passing, OfType, Admitted
<1>3. Candidates = IF question.provider = "cosmos" THEN {w \in all : IsSimple(w)} ELSE all
  BY DEF Candidates, Passing
<1>4. IsFiniteSet(Passing) BY <1>2, FiniteGraph, FS_Subset
<1>5. \A n \in shortest..question.maxDepth : IsFiniteSet(rowsOf(n))
  <2>1. \A n \in shortest..question.maxDepth : n \in Nat BY <1>1
  <2> QED BY <2>1, <1>4, FiniteTrails
<1> HIDE DEF rowsOf
<1>6. IsFiniteSet(all)
  <2> DEFINE row == [n \in shortest..question.maxDepth |-> rowsOf(n)]
             rowSets == {rowsOf(n) : n \in shortest..question.maxDepth}
  <2>1. row \in Surjection(shortest..question.maxDepth, rowSets) BY DEF Surjection
  <2>2. IsFiniteSet(shortest..question.maxDepth) BY <1>1, FS_Interval
  <2>3. IsFiniteSet(rowSets) BY <2>1, <2>2, FS_Surjection
  <2>4. \A T \in rowSets : IsFiniteSet(T) BY <1>5
  <2> QED BY <2>3, <2>4, FS_UNION
<1>7. \A w : w \in all <=> \E n \in shortest..question.maxDepth : w \in rowsOf(n) OBVIOUS
<1>8. Candidates \subseteq all BY <1>3
<1> HIDE DEF all
<1>9. IsFiniteSet(Candidates) BY <1>6, <1>8, FS_Subset
<1>10. \A w : w \in Candidates <=> w \in all /\ (question.provider = "cosmos" => IsSimple(w)) BY <1>3
<1>11. Passing \in SUBSET Relationship BY <1>1, <1>2
<1> QED BY <1>2, <1>7, <1>9, <1>10, <1>11 DEF rowsOf

\* What the client keeps of the rows of a compiled search are paths.
LEMMA MatchingArePaths ==
  ASSUME question \in Question, question.from # question.to, NEW w \in Matching(Candidates)
  PROVE  w \in Walk /\ IsPath(w)
<1>1. w \in Candidates /\ End(w) = question.to /\ IsSimple(w) /\ FitsBetween(w) BY DEF Matching
<1>2. PICK n \in (IF question.provider = "cosmos" THEN 0 ELSE 1)..question.maxDepth :
        w \in Trails(Passing, question.from, n)
  BY <1>1, CandidatesAre
<1>3. n \in Nat /\ n <= question.maxDepth /\ question.from \in Entities BY <1>2 DEF Question
<1>4. IsTrail(w, Passing, question.from, n) BY <1>2, <1>3, TrailShape, CandidatesAre
<1>5. /\ w \in Walk /\ Len(w.entities) = n + 1 /\ Len(w.relationships) = n
      /\ w.entities[1] = question.from /\ DOMAIN w.relationships = 1..n
  BY <1>3, <1>4 DEF IsTrail, Walk
<1>6. Joined(w) BY <1>4, <1>5, CandidatesAre DEF Joined, IsTrail
<1> QED BY <1>1, <1>3, <1>5, <1>6 DEF IsPath

\* What the client keeps of a page of rows: each of them once, and all when the pool holds every row.
LEMMA PoolIsRead ==
  ASSUME question \in Question, ReadPool
  PROVE  /\ found' \in Seq(Walk)
         /\ IsInjective(found')
         /\ \A i \in 1..Len(found') : IsPath(found'[i])
         /\ page' \subseteq {found'[i] : i \in DOMAIN found'}
         /\ {found'[i] : i \in DOMAIN found'} = Matching(Candidates)
              \/ Cardinality(Candidates) > PoolSize
<1> DEFINE matching == Matching(Candidates)
           others == Cardinality(Candidates) - Cardinality(matching)
           taken == IF Cardinality(Candidates) < PoolSize THEN Cardinality(Candidates) ELSE PoolSize
<1>1. PICK matched \in SUBSET matching :
        /\ Cardinality(matched) <= taken
        /\ taken <= Cardinality(matched) + others
        /\ found' = SetToSeq(matched)
        /\ page' \in kSubset(PageSize(Cardinality(matched)), matched)
  BY DEF ReadPool
<1>2. question.from # question.to BY DEF ReadPool, Searching
<1>3. IsFiniteSet(Candidates) BY CandidatesAre
<1>4. matching \subseteq Candidates BY DEF Matching
<1> HIDE DEF matching
<1>5. IsFiniteSet(matching) /\ IsFiniteSet(matched) BY <1>1, <1>3, <1>4, FS_Subset
<1>6. /\ found' \in Seq(matched) /\ IsInjective(found')
      /\ {found'[i] : i \in DOMAIN found'} = matched
  BY <1>1, <1>5, SequenceOfSet
<1>7. \A w \in matching : w \in Walk /\ IsPath(w) BY <1>2, MatchingArePaths DEF matching
<1>8. found' \in Seq(Walk)
  <2>1. matched \subseteq Walk BY <1>7
  <2> QED BY <1>6, <2>1
<1>9. \A i \in 1..Len(found') : IsPath(found'[i])
  <2>1. \A i \in 1..Len(found') : found'[i] \in matched BY <1>6
  <2> QED BY <2>1, <1>7
<1>10. page' \subseteq matched BY <1>1 DEF kSubset
<1>11. matched = matching \/ Cardinality(Candidates) > PoolSize
  <2> SUFFICES ASSUME ~ Cardinality(Candidates) > PoolSize PROVE matched = matching OBVIOUS
  <2>1. Cardinality(Candidates) \in Nat /\ Cardinality(matching) \in Nat /\ Cardinality(matched) \in Nat
    BY <1>3, <1>5, FS_CardinalityType
  <2>2. PoolSize \in Nat BY DEF PoolSize, Wanted, Question
  <2>3. taken = Cardinality(Candidates) BY <2>1, <2>2
  <2>4. Cardinality(matching) <= Cardinality(matched) BY <1>1, <2>1, <2>3
  <2>5. Cardinality(matched) <= Cardinality(matching) BY <1>5, FS_Subset
  <2>6. Cardinality(matched) = Cardinality(matching) BY <2>1, <2>4, <2>5
  <2> QED BY <1>5, <2>6, FS_Subset
<1> QED BY <1>6, <1>8, <1>9, <1>10, <1>11 DEF matching

\* Every step of the search keeps what it carries the beginning of a path.
LEMMA PathsStep == PathsInv /\ [Next]_vars => PathsInv'
<1> SUFFICES ASSUME PathsInv, [Next]_vars PROVE PathsInv'
  OBVIOUS
<1>1. question' = question
  BY SameGraph
<1>2. /\ \A w : Partial(w)' <=> Partial(w)
      /\ \A w : IsPath(w)' <=> IsPath(w)
  BY <1>1, SameQuestion
<1>3. question \in Question /\ question' \in Question
  BY <1>1 DEF PathsInv
<1>4. CASE AnswerAtOnce
  <2>1. found' = <<Start(question.from)>> /\ IsPath(Start(question.from))
    BY <1>3, <1>4, StartIsPartial DEF AnswerAtOnce
  <2>2. found' \in Seq(Walk) /\ Len(found') = 1 /\ DOMAIN found' = 1..1
        /\ found'[1] = Start(question.from)
    BY <1>3, <2>1, StartIsPartial
  <2>3. AllPaths(found)'
    BY <1>2, <2>1, <2>2 DEF AllPaths
  <2>4. page' \subseteq FoundPaths'
    BY <1>4, <2>2 DEF AnswerAtOnce, FoundPaths
  <2>5. QED
    BY <1>1, <1>3, <1>4, <2>2, <2>3, <2>4 DEF PathsInv, AnswerAtOnce
<1>5. CASE TakeNext
  <2>1. question.from # question.to /\ queue \in Seq(Walk) /\ queue # <<>>
    BY <1>5 DEF TakeNext, Searching, PathsInv
  <2>2. /\ Tail(queue) \in Seq(Walk) /\ Len(Tail(queue)) = Len(queue) - 1
        /\ \A i \in 1..(Len(queue) - 1) : Tail(queue)[i] = queue[i + 1]
        /\ Head(queue) = queue[1] /\ Len(queue) \in Nat \ {0}
    BY <2>1
  <2>3. AllPartial(queue)' /\ Partial(current)'
    BY <1>2, <1>5, <2>1, <2>2 DEF TakeNext, PathsInv, AllPartial
  <2>4. AllPartial(nextLevel)' /\ AllPaths(found)' /\ page' \subseteq FoundPaths'
    BY <1>2, <1>5, <2>1 DEF TakeNext, PathsInv, AllPartial, AllPaths, FoundPaths
  <2>5. QED
    BY <1>3, <1>5, <2>2, <2>3, <2>4 DEF PathsInv, TakeNext
<1>6. CASE ReachTarget
  <2>1. question.from # question.to /\ question.to = NextEntity
    BY <1>6 DEF ReachTarget, LookAtRow, Searching
  <2>2. IsPath(Extended) /\ Extended \in Walk
    <3>1. LookAtRow /\ Usable
      BY <1>6 DEF ReachTarget
    <3>2. Len(current.entities) <= question.maxDepth
      BY <2>1, <1>3 DEF PathsInv, Partial, Question
    <3>3. End(Extended) = question.to
      BY <2>1 DEF NextEntity
    <3>4. QED
      BY <3>1, <3>2, <3>3, UsableRow DEF IsPath
  <2>3. found' = Append(found, Extended) /\ found \in Seq(Walk)
    BY <1>6 DEF ReachTarget, PathsInv
  <2>4. AllPaths(found)'
    BY <1>2, <2>2, <2>3, AppendAll DEF AllPaths, PathsInv
  <2>5. page' \subseteq FoundPaths'
    BY <1>6, <2>2, <2>3, AppendAll DEF FoundPaths, PathsInv, ReachTarget
  <2>6. AllPartial(queue)' /\ AllPartial(nextLevel)' /\ Partial(current)'
    BY <1>2, <1>6, <2>1 DEF ReachTarget, PathsInv, AllPartial
  <2>7. at' \in Nat \ {0}
    BY <1>6 DEF ReachTarget, LookAtRow, PathsInv
  <2>8. QED
    BY <1>3, <1>6, <2>2, <2>3, <2>4, <2>5, <2>6, <2>7, AppendAll DEF PathsInv, ReachTarget
<1>7. CASE Enqueue
  <2>1. question.from # question.to /\ LookAtRow /\ Usable /\ NextEntity # question.to
    BY <1>7 DEF Enqueue, LookAtRow, Searching
  <2>2. Fits(NextEntity) => Partial(Extended)
    <3> SUFFICES ASSUME Fits(NextEntity) PROVE Partial(Extended)
      OBVIOUS
    <3>1. Partial(current) /\ Len(current.entities) \in Nat \ {0}
      BY <2>1 DEF PathsInv, Partial
    <3>2. /\ Extended \in Walk /\ Len(Extended.entities) = Len(current.entities) + 1
          /\ Joined(Extended) /\ IsSimple(Extended)
          /\ Extended.entities[1] = question.from
          /\ \A i \in 1..Len(current.entities) : Extended.entities[i] = current.entities[i]
      BY <2>1, UsableRow
    <3>3. Extended.entities[Len(current.entities) + 1] = NextEntity
      BY <3>2 DEF NextEntity, End
    <3>4. Len(Extended.entities) \in 1..question.maxDepth
      BY <1>3, <1>7, <3>1, <3>2 DEF Enqueue, Continues, Question
    <3>5. ~Visits(Extended, question.to)
      <4>1. DOMAIN Extended.entities = 1..(Len(current.entities) + 1)
            /\ DOMAIN current.entities = 1..Len(current.entities)
        BY <3>1, <3>2 DEF Walk, Partial
      <4>2. QED
        BY <2>1, <3>1, <3>2, <3>3, <4>1 DEF Visits, Partial
    <3>6. \A i \in 2..Len(Extended.entities) : Fits(Extended.entities[i])
      BY <3>1, <3>2, <3>3 DEF Partial
    <3>7. QED
      BY <3>2, <3>4, <3>5, <3>6 DEF Partial
  <2>3. Extended \in Walk
    BY <2>1, UsableRow
  <2>4. CASE question.provider = "memory"
    <3>1. queue' = Append(queue, Extended) /\ nextLevel' = nextLevel /\ Partial(Extended)
      BY <1>7, <2>1, <2>2, <2>4 DEF Enqueue, Usable
    <3>2. queue' \in Seq(Walk) /\ AllPartial(queue)'
      BY <1>2, <2>1, <2>3, <3>1, AppendAll DEF AllPartial, PathsInv
    <3>3. AllPartial(nextLevel)'
      BY <1>2, <2>1, <3>1 DEF AllPartial, PathsInv
    <3>4. QED
      BY <3>1, <3>2, <3>3, <1>1, <1>2, <1>3, <1>7, <2>1 DEF PathsInv, Enqueue, LookAtRow, AllPaths, FoundPaths
  <2>5. CASE question.provider = "sql"
    <3>1. queue' = queue
          /\ nextLevel' = IF Fits(NextEntity) THEN Append(nextLevel, Extended) ELSE nextLevel
      BY <1>7, <2>5 DEF Enqueue
    <3>2. nextLevel' \in Seq(Walk) /\ AllPartial(nextLevel)'
      BY <1>2, <2>1, <2>2, <2>3, <3>1, AppendAll DEF AllPartial, PathsInv
    <3>3. AllPartial(queue)'
      BY <1>2, <2>1, <3>1 DEF AllPartial, PathsInv
    <3>4. QED
      BY <3>1, <3>2, <3>3, <1>1, <1>2, <1>3, <1>7, <2>1 DEF PathsInv, Enqueue, LookAtRow, AllPaths, FoundPaths
  <2>6. QED
    BY <1>7, <2>4, <2>5 DEF Enqueue
<1>8. CASE PassOver
  <2>1. AllPaths(found)' /\ page' \subseteq FoundPaths' /\ at' \in Nat \ {0}
    BY <1>2, <1>8 DEF PassOver, LookAtRow, PathsInv, AllPaths, FoundPaths
  <2>2. question.from # question.to =>
          AllPartial(queue)' /\ AllPartial(nextLevel)' /\ Partial(current)'
    BY <1>2, <1>8 DEF PassOver, PathsInv, AllPartial
  <2>3. QED
    BY <1>1, <1>3, <1>8, <2>1, <2>2 DEF PassOver, PathsInv
<1>9. CASE NextLevel
  <2>1. AllPaths(found)' /\ page' \subseteq FoundPaths'
    BY <1>2, <1>9 DEF NextLevel, PathsInv, AllPaths, FoundPaths
  <2>2. question.from # question.to =>
          AllPartial(queue)' /\ AllPartial(nextLevel)' /\ Partial(current)'
    BY <1>2, <1>9 DEF NextLevel, PathsInv, AllPartial
  <2>3. QED
    BY <1>1, <1>3, <1>9, <2>1, <2>2 DEF NextLevel, PathsInv
<1>10. CASE EndSearch
  <2>1. AllPaths(found)' /\ page' \subseteq FoundPaths'
    BY <1>2, <1>10 DEF EndSearch, PathsInv, AllPaths, FoundPaths, Slice
  <2>2. question.from # question.to =>
          AllPartial(queue)' /\ AllPartial(nextLevel)' /\ Partial(current)'
    BY <1>2, <1>10 DEF EndSearch, PathsInv, AllPartial
  <2>3. QED
    BY <1>1, <1>3, <1>10, <2>1, <2>2 DEF EndSearch, PathsInv
<1>11. CASE ReadPool
  <2>1. /\ found' \in Seq(Walk) /\ AllPaths(found)
        /\ \A i \in 1..Len(found') : IsPath(found'[i])
        /\ page' \subseteq {found'[i] : i \in DOMAIN found'}
    BY <1>3, <1>11, PoolIsRead DEF PathsInv
  <2>2. AllPaths(found)' /\ page' \subseteq FoundPaths'
    BY <1>2, <2>1 DEF AllPaths, FoundPaths
  <2>3. question.from # question.to =>
          AllPartial(queue)' /\ AllPartial(nextLevel)' /\ Partial(current)'
    BY <1>2, <1>11 DEF ReadPool, PathsInv, AllPartial
  <2>4. QED
    BY <1>3, <1>11, <2>1, <2>2, <2>3 DEF ReadPool, PathsInv
<1>12. CASE UNCHANGED searchVars
  <2>1. AllPaths(found)' /\ page' \subseteq FoundPaths'
    BY <1>2, <1>12 DEF searchVars, PathsInv, AllPaths, FoundPaths
  <2>2. question.from # question.to =>
          AllPartial(queue)' /\ AllPartial(nextLevel)' /\ Partial(current)'
    BY <1>2, <1>12 DEF searchVars, PathsInv, AllPartial
  <2>3. QED
    BY <1>1, <1>3, <1>12, <2>1, <2>2 DEF searchVars, PathsInv
<1>13. QED
  BY <1>4, <1>5, <1>6, <1>7, <1>8, <1>9, <1>10, <1>11, <1>12 DEF Next, PathNext, Answer, Finished, vars

\* Whatever the graph, the options and the provider, findPaths finds and answers nothing
\* but real paths.
THEOREM FindPathsIsSound == Spec => []PathsAreReal
<1>1. PathsInv => PathsAreReal
  BY DEF PathsInv, PathsAreReal, AllPaths, FoundPaths
<1>2. QED
  BY PathsInit, PathsStep, <1>1, PTL DEF Spec

-----------------------------------------------------------------------------
(* What a search has to find.                                               *)

\* A step from index to index of a walk in a graph is a step of the graph.
LEMMA Onward ==
  ASSUME NEW G \in SUBSET (Entities \X Entities), NEW s, NEW es \in Seq(Entities),
         \A l \in 1..(Len(es) - 1) : <<es[l], es[l + 1]>> \in G,
         NEW i \in Nat \ {0}, NEW k \in Nat, es[i] \in Reach(G, s)[k],
         NEW j \in Nat, i + j <= Len(es)
  PROVE  es[i + j] \in Reach(G, s)[k + j]
<1> SUFFICES ASSUME es[i + j] \notin Reach(G, s)[k + j] PROVE FALSE OBVIOUS
<1> DEFINE Bad == {n \in Nat : n <= j /\ es[i + n] \notin Reach(G, s)[k + n]}
<1>0. Bad \in SUBSET Nat /\ j \in Bad OBVIOUS
<1>1. PICK m \in Bad : \A n \in Bad : m <= n BY <1>0, Reaching!Least
<1>2. m # 0
  <2>1. i + 0 = i /\ k + 0 = k OBVIOUS
  <2> QED BY <2>1
<1>3. m - 1 \in Nat /\ m - 1 <= j /\ m - 1 \notin Bad
  <2>1. m \in Nat /\ m <= j OBVIOUS
  <2>2. m - 1 \in Nat /\ m - 1 <= j /\ ~ (m <= m - 1) BY <1>2, <2>1
  <2> HIDE DEF Bad
  <2> QED BY <1>1, <2>2
<1>4. es[i + (m - 1)] \in Reach(G, s)[k + (m - 1)] BY <1>3
<1> DEFINE l == i + (m - 1)
           d == k + m
<1>5. Len(es) \in Nat /\ m \in Nat /\ m <= j OBVIOUS
<1>6. l \in 1..(Len(es) - 1) /\ l + 1 = i + m /\ d \in Nat \ {0} /\ d - 1 = k + (m - 1) BY <1>2, <1>5
<1>7. <<es[l], es[l + 1]>> \in G BY <1>6
<1> HIDE DEF l, d
<1>8. es[l] \in Reach(G, s)[d - 1] BY <1>4, <1>6 DEF l
<1>9. es[l + 1] \in Reach(G, s)[d] BY <1>6, <1>7, <1>8, ReachIs
<1> QED BY <1>1, <1>6, <1>9 DEF d

\* The beginning of a walk, up to its m-th entity.
Prefix(w, m) == [entities |-> SubSeq(w.entities, 1, m), relationships |-> SubSeq(w.relationships, 1, m - 1)]

\* What the beginning of a walk is.
LEMMA PrefixIs ==
  ASSUME NEW w \in Walk, Len(w.entities) = Len(w.relationships) + 1, NEW m \in 1..Len(w.entities)
  PROVE  /\ Prefix(w, m) \in Walk
         /\ Len(Prefix(w, m).entities) = m /\ Len(Prefix(w, m).relationships) = m - 1
         /\ \A i \in 1..m : Prefix(w, m).entities[i] = w.entities[i]
         /\ \A i \in 1..(m - 1) : Prefix(w, m).relationships[i] = w.relationships[i]
         /\ End(Prefix(w, m)) = w.entities[m]
         /\ m = 1 => Prefix(w, m) = Start(w.entities[1])
         /\ m = Len(w.entities) => Prefix(w, m) = w
<1> DEFINE es == w.entities
           rs == w.relationships
           fs == SubSeq(es, 1, m)
           ts == SubSeq(rs, 1, m - 1)
<1>1. es \in Seq(Entities) /\ rs \in Seq(Relationship) /\ Len(es) \in Nat /\ Len(rs) \in Nat
      /\ w = [entities |-> es, relationships |-> rs]
  BY DEF Walk
<1>2. m \in Nat /\ m >= 1 /\ m <= Len(es) /\ m - 1 <= Len(rs) BY <1>1
<1>3. Prefix(w, m) = [entities |-> fs, relationships |-> ts] BY DEF Prefix
<1> HIDE DEF es, rs
<1>4. /\ fs \in Seq(Entities) /\ Len(fs) = m /\ \A i \in 1..m : fs[i] = es[i]
  BY <1>1, <1>2
<1>5. /\ ts \in Seq(Relationship) /\ Len(ts) = m - 1 /\ \A i \in 1..(m - 1) : ts[i] = rs[i]
  BY <1>1, <1>2
<1>6. m = 1 => fs = <<es[1]>> /\ ts = <<>>
  <2> SUFFICES ASSUME m = 1 PROVE fs = <<es[1]>> /\ ts = <<>> OBVIOUS
  <2>1. Len(fs) = 1 /\ fs[1] = es[1] /\ Len(ts) = 0 BY <1>4, <1>5
  <2>2. \A q \in Seq(Entities) : Len(q) = 1 => q = <<q[1]>> OBVIOUS
  <2>3. \A q \in Seq(Relationship) : Len(q) = 0 => q = <<>> OBVIOUS
  <2> HIDE DEF fs, ts
  <2>4. fs = <<es[1]>> BY <1>4, <2>1, <2>2
  <2>5. ts = <<>> BY <1>5, <2>1, <2>3
  <2> QED BY <2>4, <2>5
<1>7. m = Len(es) => fs = es /\ ts = rs
  <2> SUFFICES ASSUME m = Len(es) PROVE fs = es /\ ts = rs OBVIOUS
  <2>1. Len(rs) = m - 1 BY <1>1, <1>2 DEF es, rs
  <2>2. fs = es BY <1>1, <1>4
  <2>3. ts = rs BY <1>1, <1>5, <2>1
  <2> QED BY <2>2, <2>3
<1> HIDE DEF fs, ts
<1>8. Prefix(w, m).entities = fs /\ Prefix(w, m).relationships = ts BY <1>3
<1>9. Prefix(w, m) \in Walk BY <1>3, <1>4, <1>5 DEF Walk
<1>10. End(Prefix(w, m)) = es[m] BY <1>2, <1>4, <1>8 DEF End
<1>11. m = 1 => Prefix(w, m) = Start(es[1]) BY <1>3, <1>6 DEF Start
<1>12. m = Len(es) => Prefix(w, m) = w BY <1>1, <1>3, <1>7
<1> QED BY <1>4, <1>5, <1>8, <1>9, <1>10, <1>11, <1>12 DEF es, rs

\* The beginning of a walk, gone on with, is a longer beginning.
LEMMA PrefixExtends ==
  ASSUME NEW w \in Walk, Len(w.entities) = Len(w.relationships) + 1, NEW m \in 1..Len(w.relationships),
         w.entities[m + 1] = OtherEnd(w.relationships[m], w.entities[m])
  PROVE  Extend(Prefix(w, m), w.relationships[m]) = Prefix(w, m + 1)
<1> DEFINE r == w.relationships[m]
           x == Extend(Prefix(w, m), r)
           y == Prefix(w, m + 1)
<1>1. Len(w.relationships) \in Nat /\ w.relationships \in Seq(Relationship) BY DEF Walk
<1>2. m \in 1..Len(w.entities) /\ m + 1 \in 1..Len(w.entities) /\ m \in Nat /\ r \in Relationship BY <1>1
<1>3. /\ Prefix(w, m) \in Walk
      /\ Len(Prefix(w, m).entities) = m /\ Len(Prefix(w, m).relationships) = m - 1
      /\ \A i \in 1..m : Prefix(w, m).entities[i] = w.entities[i]
      /\ \A i \in 1..(m - 1) : Prefix(w, m).relationships[i] = w.relationships[i]
      /\ End(Prefix(w, m)) = w.entities[m]
  BY <1>2, PrefixIs
<1>4. /\ y \in Walk
      /\ Len(y.entities) = m + 1 /\ Len(y.relationships) = m
      /\ \A i \in 1..(m + 1) : y.entities[i] = w.entities[i]
      /\ \A i \in 1..m : y.relationships[i] = w.relationships[i]
  <2>1. /\ y \in Walk
        /\ Len(y.entities) = m + 1 /\ Len(y.relationships) = (m + 1) - 1
        /\ \A i \in 1..(m + 1) : y.entities[i] = w.entities[i]
        /\ \A i \in 1..((m + 1) - 1) : y.relationships[i] = w.relationships[i]
    BY <1>2, PrefixIs
  <2>2. (m + 1) - 1 = m BY <1>2
  <2> QED BY <2>1, <2>2
<1>5. Len(Prefix(w, m).entities) # 0 BY <1>2, <1>3
<1> HIDE DEF r, y
<1>6. /\ x \in Walk
      /\ Len(x.entities) = m + 1 /\ Len(x.relationships) = m
      /\ \A i \in 1..m : x.entities[i] = w.entities[i]
      /\ \A i \in 1..(m - 1) : x.relationships[i] = w.relationships[i]
      /\ x.entities[m + 1] = w.entities[m + 1]
      /\ x.relationships[m] = r
  <2>1. /\ x \in Walk
        /\ Len(x.entities) = Len(Prefix(w, m).entities) + 1
        /\ Len(x.relationships) = Len(Prefix(w, m).relationships) + 1
        /\ \A i \in 1..Len(Prefix(w, m).entities) : x.entities[i] = Prefix(w, m).entities[i]
        /\ \A i \in 1..Len(Prefix(w, m).relationships) : x.relationships[i] = Prefix(w, m).relationships[i]
        /\ x.entities[Len(Prefix(w, m).entities) + 1] = OtherEnd(r, End(Prefix(w, m)))
        /\ x.relationships[Len(Prefix(w, m).relationships) + 1] = r
    BY <1>2, <1>3, <1>5, ExtendIs
  <2>2. (m - 1) + 1 = m BY <1>2
  <2> QED BY <1>3, <2>1, <2>2 DEF r
<1> HIDE DEF x
<1>7. x.entities = y.entities
  <2>1. \A i \in 1..(m + 1) : x.entities[i] = y.entities[i] BY <1>2, <1>4, <1>6
  <2>2. x.entities \in Seq(Entities) /\ y.entities \in Seq(Entities) BY <1>4, <1>6 DEF Walk
  <2>3. Len(x.entities) = m + 1 /\ Len(y.entities) = m + 1 BY <1>4, <1>6
  <2>4. \A q, t \in Seq(Entities) : Len(q) = m + 1 /\ Len(t) = m + 1 /\ (\A i \in 1..(m + 1) : q[i] = t[i]) => q = t OBVIOUS
  <2> QED BY <2>1, <2>2, <2>3, <2>4
<1>8. x.relationships = y.relationships
  <2>1. ASSUME NEW i \in 1..m PROVE x.relationships[i] = y.relationships[i]
    <3>1. CASE i = m BY <3>1, <1>4, <1>6 DEF r
    <3>2. CASE i # m
      <4>1. i \in 1..(m - 1) BY <1>2, <3>2
      <4> QED BY <4>1, <1>4, <1>6
    <3> QED BY <3>1, <3>2
  <2>2. x.relationships \in Seq(Relationship) /\ y.relationships \in Seq(Relationship) BY <1>4, <1>6 DEF Walk
  <2>3. Len(x.relationships) = m /\ Len(y.relationships) = m BY <1>4, <1>6
  <2>4. \A q, t \in Seq(Relationship) : Len(q) = m /\ Len(t) = m /\ (\A i \in 1..m : q[i] = t[i]) => q = t OBVIOUS
  <2> QED BY <2>1, <2>2, <2>3, <2>4
<1>9. x = y
  <2>1. \A v \in Walk : v = [entities |-> v.entities, relationships |-> v.relationships] BY DEF Walk
  <2> QED BY <1>4, <1>6, <1>7, <1>8, <2>1
<1> QED BY <1>9 DEF x, y, r

\* Every walk that is joined and uses no relationship twice is a trail.
LEMMA WalkIsTrail ==
  ASSUME NEW R \in SUBSET Relationship, NEW from \in Entities, NEW n \in Nat, NEW w, IsTrail(w, R, from, n)
  PROVE  w \in Trails(R, from, n)
<1>1. /\ w \in Walk /\ Len(w.entities) = n + 1 /\ Len(w.relationships) = n
      /\ Len(w.entities) = Len(w.relationships) + 1
      /\ w.entities[1] = from
  BY DEF IsTrail
<1> DEFINE Bad == {k \in Nat : k <= n /\ Prefix(w, k + 1) \notin Trails(R, from, k)}
<1>2. ASSUME n \in Bad PROVE FALSE
  <2>0. Bad \in SUBSET Nat OBVIOUS
  <2>1. PICK m \in Bad : \A k \in Bad : m <= k BY <2>0, <1>2, Reaching!Least
  <2>2. m # 0
    <3>1. 1 \in 1..Len(w.entities) /\ 0 + 1 = 1 BY <1>1
    <3>2. Prefix(w, 1) = Start(from)
      <4> HIDE DEF Bad
      <4> QED BY <1>1, <3>1, PrefixIs
    <3> QED BY <2>1, <3>1, <3>2, TrailsAre
  <2>3. m \in Nat \ {0} /\ m <= n /\ m - 1 \in Nat /\ m - 1 <= n /\ m - 1 \notin Bad /\ (m - 1) + 1 = m BY <2>1, <2>2
  <2>4. Prefix(w, m) \in Trails(R, from, m - 1) BY <2>3
  <2> DEFINE r == w.relationships[m]
  <2>5. /\ m \in 1..n /\ r \in R /\ Touches(r, w.entities[m])
        /\ w.entities[m + 1] = OtherEnd(r, w.entities[m])
    BY <2>3 DEF IsTrail
  <2>6. m \in 1..Len(w.entities) BY <2>3, <1>1
  <2>7. /\ Prefix(w, m) \in Walk /\ Len(Prefix(w, m).relationships) = m - 1
        /\ \A i \in 1..(m - 1) : Prefix(w, m).relationships[i] = w.relationships[i]
        /\ End(Prefix(w, m)) = w.entities[m]
    <3> HIDE DEF Bad, r
    <3> QED BY <1>1, <2>6, PrefixIs
  <2>8. ~ Uses(Prefix(w, m), r)
    <3> SUFFICES ASSUME Uses(Prefix(w, m), r) PROVE FALSE OBVIOUS
    <3>1. DOMAIN Prefix(w, m).relationships = 1..(m - 1) BY <2>3, <2>7 DEF Walk
    <3>2. PICK i \in 1..(m - 1) : w.relationships[i] = r BY <2>7, <3>1 DEF Uses
    <3>3. i \in 1..n /\ i # m BY <2>3
    <3> QED BY <2>5, <3>2, <3>3 DEF IsTrail
  <2>9. Extend(Prefix(w, m), r) \in Trails(R, from, m)
    <3>1. m \in Nat \ {0} /\ r \in R /\ Touches(r, End(Prefix(w, m))) BY <2>3, <2>5, <2>7
    <3> HIDE DEF Bad, r
    <3> QED BY <2>4, <2>8, <3>1, TrailsAre
  <2>10. Extend(Prefix(w, m), r) = Prefix(w, m + 1)
    <3> HIDE DEF Bad
    <3> QED BY <1>1, <2>5, PrefixExtends
  <2> QED BY <2>1, <2>9, <2>10
<1>3. Prefix(w, n + 1) = w
  <2>1. n + 1 \in 1..Len(w.entities) BY <1>1
  <2> HIDE DEF Bad
  <2> QED BY <1>1, <2>1, PrefixIs
<1> QED BY <1>2, <1>3

\* A path uses no relationship twice, for then it would visit an entity twice.
LEMMA PathIsTrail ==
  ASSUME question \in Question, NEW w \in Walk, IsPath(w)
  PROVE  IsTrail(w, Passing, question.from, Len(w.relationships))
<1> DEFINE n == Len(w.relationships)
<1>1. /\ n \in Nat /\ Len(w.entities) = n + 1
      /\ DOMAIN w.relationships = 1..n /\ DOMAIN w.entities = 1..(n + 1)
  BY DEF IsPath, Joined, Walk
<1>2. \A i \in 1..n : /\ w.relationships[i] \in Passing
                      /\ Touches(w.relationships[i], w.entities[i])
                      /\ w.entities[i + 1] = OtherEnd(w.relationships[i], w.entities[i])
  <2>1. Passing = {r \in Relationships : Admitted(r)} BY DEF Passing, OfType, Admitted
  <2> QED BY <1>1, <2>1 DEF IsPath, Joined
<1>3. ASSUME NEW i \in 1..n, NEW j \in 1..n, w.relationships[i] = w.relationships[j], i < j PROVE FALSE
  <2>1. w.entities[i] \in {w.entities[j], w.entities[j + 1]} BY <1>2, <1>3 DEF Touches, OtherEnd
  <2>2. i \in 1..(n + 1) /\ j \in 1..(n + 1) /\ j + 1 \in 1..(n + 1) /\ i # j /\ i # j + 1 BY <1>1, <1>3
  <2> QED BY <1>1, <2>1, <2>2 DEF IsPath, IsSimple
<1>4. ASSUME NEW i \in 1..n, NEW j \in 1..n, w.relationships[i] = w.relationships[j] PROVE i = j
  <2>1. i < j \/ i = j \/ j < i BY <1>1
  <2> QED BY <2>1, <1>3, <1>4
<1> QED BY <1>1, <1>2, <1>4 DEF IsTrail, IsPath

\* The paths there are, without the trails.
LEMMA PathsAre ==
  ASSUME question \in Question
  PROVE  \A w : w \in Paths <=> w \in Walk /\ IsPath(w)
<1>1. question.from \in Entities /\ question.maxDepth \in Nat /\ Relationships \in SUBSET Relationship
  BY QuestionIs DEF Question
<1>2. ASSUME NEW w \in Paths PROVE w \in Walk /\ IsPath(w)
  <2>1. IsPath(w) /\ \E n \in 0..question.maxDepth : w \in Trails(Relationships, question.from, n) BY DEF Paths
  <2>2. PICK n \in 0..question.maxDepth : w \in Trails(Relationships, question.from, n) BY <2>1
  <2>3. IsTrail(w, Relationships, question.from, n) BY <1>1, <2>2, TrailShape
  <2> QED BY <2>1, <2>3 DEF IsTrail
<1>3. ASSUME NEW w \in Walk, IsPath(w) PROVE w \in Paths
  <2>1. IsTrail(w, Passing, question.from, Len(w.relationships)) BY <1>3, PathIsTrail
  <2>2. IsTrail(w, Relationships, question.from, Len(w.relationships)) BY <2>1 DEF IsTrail, Passing, OfType
  <2>3. Len(w.relationships) \in 0..question.maxDepth BY <1>1, <1>3 DEF IsPath, Walk
  <2>4. w \in Trails(Relationships, question.from, Len(w.relationships)) BY <1>1, <2>2, <2>3, WalkIsTrail
  <2> QED BY <1>3, <2>3, <2>4 DEF Paths
<1> QED BY <1>2, <1>3

\* The steps a path can make: to the target, or to an entity that fits, and none on
\* from the target.
Ways ==
  {p \in Entities \X Entities :
     /\ p[1] # question.to
     /\ p[2] = question.to \/ Fits(p[2])
     /\ \E r \in Relationships : Admitted(r) /\ Touches(r, p[1]) /\ OtherEnd(r, p[1]) = p[2]}

\* A step a path can make, from end to end.
LEMMA WaysAre ==
  ASSUME question \in Question
  PROVE  /\ Ways \in SUBSET (Entities \X Entities)
         /\ \A e \in Entities : \A f : <<e, f>> \in Ways <=>
              /\ e # question.to
              /\ f = question.to \/ Fits(f)
              /\ \E r \in Relationships : Admitted(r) /\ Touches(r, e) /\ OtherEnd(r, e) = f
<1>1. Relationships \in SUBSET Relationship BY QuestionIs
<1>2. ASSUME NEW e \in Entities, NEW f
      PROVE  <<e, f>> \in Ways <=>
              /\ e # question.to
              /\ f = question.to \/ Fits(f)
              /\ \E r \in Relationships : Admitted(r) /\ Touches(r, e) /\ OtherEnd(r, e) = f
  <2>1. <<e, f>>[1] = e /\ <<e, f>>[2] = f OBVIOUS
  <2>2. (\E r \in Relationships : OtherEnd(r, e) = f) => f \in Entities BY <1>1 DEF OtherEnd, Relationship
  <2> QED BY <2>1, <2>2 DEF Ways
<1> QED BY <1>2 DEF Ways

\* What can become a path reaches no entity sooner than the ways there allow.
LEMMA PartialReaches ==
  ASSUME question \in Question, NEW w, Partial(w), NEW i \in 1..Len(w.entities)
  PROVE  w.entities[i] \in Reach(Ways, question.from)[i - 1]
<1> DEFINE es == w.entities
           n == Len(es)
<1>1. /\ es \in Seq(Entities) /\ n \in Nat /\ n >= 1 /\ n = Len(w.relationships) + 1
      /\ es[1] = question.from /\ DOMAIN es = 1..n /\ DOMAIN w.relationships = 1..(n - 1)
  BY DEF Partial, Walk, Joined, Question
<1>2. Ways \in SUBSET (Entities \X Entities) BY WaysAre
<1>3. es[1] \in Reach(Ways, question.from)[0]
  <2>1. Reach(Ways, question.from)[0] = {question.from} BY <1>2, ReachIs
  <2> QED BY <1>1, <2>1
<1>4. ASSUME NEW l \in 1..(n - 1) PROVE <<es[l], es[l + 1]>> \in Ways
  <2>1. l \in 1..n /\ l + 1 \in 2..n BY <1>1
  <2>2. es[l] \in Entities /\ es[l] # question.to BY <1>1, <2>1 DEF Partial, Visits
  <2>3. Fits(es[l + 1]) BY <2>1 DEF Partial
  <2>4. \E r \in Relationships : Admitted(r) /\ Touches(r, es[l]) /\ OtherEnd(r, es[l]) = es[l + 1]
    BY <1>1 DEF Partial, Joined
  <2> QED BY <2>2, <2>3, <2>4, WaysAre
<1> DEFINE j == i - 1
<1>5. j \in Nat /\ 1 + j = i /\ 1 + j <= n /\ 0 + j = i - 1 BY <1>1
<1> HIDE DEF es, j
<1>6. es[1 + j] \in Reach(Ways, question.from)[0 + j]
  <2>1. 1 \in Nat \ {0} /\ 0 \in Nat /\ 1 + j <= Len(es) BY <1>5
  <2>2. \A l \in 1..(Len(es) - 1) : <<es[l], es[l + 1]>> \in Ways BY <1>4
  <2> QED BY <1>1, <1>2, <1>3, <1>5, <2>1, <2>2, Onward
<1> QED BY <1>5, <1>6 DEF es

\* What comes later on a path is reached by as many steps more.
LEMMA PathReaches ==
  ASSUME question \in Question, NEW w \in Walk, IsPath(w),
         NEW i \in 1..Len(w.entities), NEW k \in Nat, w.entities[i] \in Reach(Ways, question.from)[k],
         NEW j \in Nat, i + j <= Len(w.entities)
  PROVE  w.entities[i + j] \in Reach(Ways, question.from)[k + j]
<1> DEFINE es == w.entities
           n == Len(es)
<1>1. /\ es \in Seq(Entities) /\ n \in Nat /\ n >= 1 /\ n = Len(w.relationships) + 1
      /\ DOMAIN es = 1..n /\ DOMAIN w.relationships = 1..(n - 1)
      /\ es[n] = question.to
  BY DEF IsPath, Walk, Joined, End
<1>2. Ways \in SUBSET (Entities \X Entities) BY WaysAre
<1>4. ASSUME NEW l \in 1..(n - 1) PROVE <<es[l], es[l + 1]>> \in Ways
  <2>1. l \in 1..n /\ n \in 1..n /\ l # n /\ l + 1 \in 2..n BY <1>1
  <2>2. es[l] \in Entities /\ es[l] # question.to
    <3>1. \A a, b \in 1..n : es[a] = es[b] => a = b
      <4>1. IsSimple(w) BY DEF IsPath
      <4> QED BY <1>1, <4>1 DEF IsSimple
    <3>2. es[l] # es[n] BY <2>1, <3>1
    <3>3. es[l] \in Entities BY <1>1, <2>1
    <3> HIDE DEF es
    <3> QED BY <1>1, <3>2, <3>3
  <2>3. es[l + 1] = question.to \/ Fits(es[l + 1])
    <3>1. CASE l + 1 = n BY <1>1, <3>1
    <3>2. CASE l + 1 # n
      <4>1. l + 1 \in 2..(n - 1) BY <1>1, <2>1, <3>2
      <4> QED BY <4>1 DEF IsPath, FitsBetween
    <3> QED BY <3>1, <3>2
  <2>4. \E r \in Relationships : Admitted(r) /\ Touches(r, es[l]) /\ OtherEnd(r, es[l]) = es[l + 1]
    BY <1>1 DEF IsPath, Joined
  <2> QED BY <2>2, <2>3, <2>4, WaysAre
<1>5. i \in Nat \ {0} BY <1>1
<1> HIDE DEF es
<1>6. es[i] \in Reach(Ways, question.from)[k] /\ i + j <= n BY DEF es
<1> QED BY <1>1, <1>2, <1>4, <1>5, <1>6, Onward DEF es

\* There is a path to an entity at a distance that is no longer than the distance.
LEMMA TargetHasPath ==
  ASSUME question \in Question, NEW n \in Nat, n <= question.maxDepth,
         question.to \in Nearest(Ways, question.from, n)
  PROVE  \E w \in Paths : Len(w.relationships) = n
<1> DEFINE from == question.from
           to == question.to
<1>1. /\ Ways \in SUBSET (Entities \X Entities) /\ from \in Entities
      /\ Passing \in SUBSET Relationship /\ Passing = {r \in Relationships : Admitted(r)}
  BY WaysAre, CandidatesAre DEF Question
<1>2. \A p \in Ways : \E r \in Passing : Touches(r, p[1]) /\ OtherEnd(r, p[1]) = p[2]
  BY <1>1 DEF Ways
<1>3. PICK w \in Trails(Passing, from, n) :
        /\ End(w) = to
        /\ \A i \in 1..(n + 1) : w.entities[i] \in Nearest(Ways, from, i - 1)
  <2> HIDE DEF from, to
  <2>1. to \in Nearest(Ways, from, n) BY DEF from, to
  <2> QED BY <1>1, <1>2, <2>1, NearestHasTrail
<1>4. IsTrail(w, Passing, from, n) BY <1>1, TrailShape
<1>5. /\ w \in Walk /\ Len(w.entities) = n + 1 /\ Len(w.relationships) = n
      /\ w.entities[1] = from
      /\ DOMAIN w.entities = 1..(n + 1) /\ DOMAIN w.relationships = 1..n
  BY <1>4 DEF IsTrail, Walk
<1>6. Joined(w) BY <1>1, <1>4, <1>5 DEF Joined, IsTrail
<1>7. IsSimple(w)
  <2> SUFFICES ASSUME NEW i \in 1..(n + 1), NEW j \in 1..(n + 1), w.entities[i] = w.entities[j] PROVE i = j
    BY <1>5 DEF IsSimple
  <2>1. i - 1 \in Nat /\ j - 1 \in Nat OBVIOUS
  <2>2. i - 1 = j - 1 BY <1>3, <2>1, OneDistance
  <2> QED BY <2>1, <2>2
<1>8. FitsBetween(w)
  <2>0. Len(w.entities) - 1 = n BY <1>5
  <2> SUFFICES ASSUME NEW i \in 2..n PROVE Fits(w.entities[i]) BY <2>0 DEF FitsBetween
  <2> DEFINE f == w.entities[i]
  <2>1. i \in 1..(n + 1) /\ i - 1 \in Nat \ {0} /\ (i - 1) - 1 \in Nat /\ i - 1 # n OBVIOUS
  <2>2. f \in Nearest(Ways, from, i - 1) BY <1>3, <2>1
  <2> HIDE DEF f
  <2>3. PICK e \in Nearest(Ways, from, (i - 1) - 1) : <<e, f>> \in Ways BY <1>1, <2>1, <2>2, NearestIs
  <2>4. f # to
    <3> SUFFICES ASSUME f = to PROVE FALSE OBVIOUS
    <3>1. f \in Nearest(Ways, from, n) OBVIOUS
    <3>2. i - 1 = n BY <2>1, <2>2, <3>1, OneDistance
    <3> QED BY <2>1, <3>2
  <2>5. e \in Entities BY <1>1, <2>3
  <2> QED BY <2>3, <2>4, <2>5, WaysAre DEF f
<1>9. IsPath(w) BY <1>3, <1>5, <1>6, <1>7, <1>8 DEF IsPath
<1> QED BY <1>5, <1>9, PathsAre

\* A shortest path is at each of its entities as early as can be.
LEMMA ShortestIs ==
  ASSUME question \in Question, NEW p \in ShortestPaths
  PROVE  /\ p \in Walk /\ IsPath(p)
         /\ \A i \in 1..Len(p.entities) : \A k \in Nat :
              p.entities[i] \in Reach(Ways, question.from)[k] => i - 1 <= k
<1> DEFINE n == Len(p.relationships)
           from == question.from
<1>1. /\ p \in Walk /\ IsPath(p) /\ p \in Paths
      /\ \A q \in Paths : n <= Len(q.relationships)
  BY PathsAre DEF ShortestPaths
<1>2. /\ n \in Nat /\ Len(p.entities) = n + 1 /\ n <= question.maxDepth
      /\ p.entities[n + 1] = question.to /\ question.maxDepth \in Nat
  BY <1>1 DEF IsPath, Walk, Joined, End, Question
<1> HIDE DEF n
<1>3. ASSUME NEW i \in 1..(n + 1), NEW k \in Nat, p.entities[i] \in Reach(Ways, from)[k], ~ (i - 1 <= k)
      PROVE  FALSE
  <2> DEFINE j == (n + 1) - i
             Arrives == {d \in Nat : question.to \in Reach(Ways, from)[d]}
  <2>1. /\ j \in Nat /\ i + j = n + 1 /\ k + j \in Nat /\ k + j < n
        /\ i \in 1..Len(p.entities) /\ i + j <= Len(p.entities)
    BY <1>2, <1>3
  <2> HIDE DEF j
  <2>2. question.to \in Reach(Ways, from)[k + j]
    <3>1. p.entities[i + j] \in Reach(Ways, question.from)[k + j] BY <1>1, <1>3, <2>1, PathReaches
    <3> QED BY <1>2, <2>1, <3>1
  <2>3. Arrives \in SUBSET Nat /\ k + j \in Arrives BY <2>1, <2>2
  <2>4. PICK d \in Arrives : \A c \in Arrives : d <= c
    <3> HIDE DEF Arrives
    <3> QED BY <2>3, Reaching!Least
  <2>5. d \in Nat /\ d <= k + j BY <2>3, <2>4
  <2>6. question.to \in Nearest(Ways, from, d)
    <3>1. \A c \in 0..(d - 1) : c \notin Arrives
      <4> SUFFICES ASSUME NEW c \in 0..(d - 1), c \in Arrives PROVE FALSE OBVIOUS
      <4>1. ~ (d <= c) BY <2>5
      <4> HIDE DEF Arrives
      <4> QED BY <2>4, <4>1
    <3>2. \A c \in 0..(d - 1) : question.to \notin Reach(Ways, from)[c] BY <2>5, <3>1
    <3> QED BY <2>4, <3>2 DEF Nearest
  <2>7. d < n /\ d <= question.maxDepth BY <1>2, <2>1, <2>5
  <2>8. PICK q \in Paths : Len(q.relationships) = d BY <2>5, <2>6, <2>7, TargetHasPath
  <2>9. n <= d BY <1>1, <2>8
  <2> QED BY <1>2, <2>5, <2>7, <2>9
<1> QED BY <1>1, <1>2, <1>3

-----------------------------------------------------------------------------
(* What a breadth-first search keeps while it runs.                          *)

\* The paths to go on from, in the order they will be taken.
Pending == queue \o nextLevel

\* The a-th row the search reads with a path in hand, and whether it is read at all.
RowAt(a) == question.stored[IF a <= Len(question.stored) THEN a ELSE a - Len(question.stored)]

OfferedAt(a) ==
  question.provider = "sql" =>
    IF a <= Len(question.stored) THEN RowAt(a).source \in level ELSE RowAt(a).target \in level

\* What is pending is as long as the path in hand or one entity longer, and shorter
\* paths come first, among those found too.
InOrder ==
  /\ \A i \in 1..Len(Pending) :
       /\ Len(Pending[i].entities) >= Len(current.entities)
       /\ Len(Pending[i].entities) <= Len(current.entities) + 1
  /\ \A i, j \in 1..Len(Pending) : i < j => Len(Pending[i].entities) <= Len(Pending[j].entities)
  /\ \A i \in 1..Len(found) : Len(found[i].entities) <= Len(current.entities) + 1
  /\ \A i, j \in 1..Len(found) : i < j => Len(found[i].entities) <= Len(found[j].entities)

\* The paths of a level of the SQL search are of one length n, and it has seen the
\* entities of the level at that length or before.
LevelIs(n) ==
  /\ \A i \in 1..Len(queue) : Len(queue[i].entities) = n /\ End(queue[i]) \in level
  /\ \A i \in 1..Len(nextLevel) :
       /\ Len(nextLevel[i].entities) = n + 1
       /\ End(nextLevel[i]) \in DOMAIN seenAt /\ seenAt[End(nextLevel[i])] <= n
  /\ Len(current.entities) = n \/ (Idle /\ nextLevel = <<>> /\ Len(current.entities) + 1 = n)
  /\ ~Idle => End(current) \in level
  /\ question.to \notin level
  /\ \A e \in level : e \in DOMAIN seenAt /\ seenAt[e] < n

InLevels ==
  /\ question.provider = "memory" => nextLevel = <<>>
  /\ question.provider = "sql" => \E n \in Nat : LevelIs(n)

\* The paths made so far.
Made == {Pending[i] : i \in 1..Len(Pending)} \cup {found[i] : i \in 1..Len(found)}

\* No path is made twice: none has been made from a path that is still pending, and
\* from the path in hand only those of the rows looked at.
OnceEach ==
  /\ \A i, j \in 1..Len(Pending) : Pending[i] = Pending[j] => i = j
  /\ \A i, j \in 1..Len(found) : found[i] = found[j] => i = j
  /\ \A i \in 1..Len(Pending), r \in Relationships : Extend(Pending[i], r) \notin Made
  /\ ~Idle =>
       /\ \A i \in 1..Len(Pending) : Pending[i] # current
       /\ \A r \in Relationships :
            Extend(current, r) \in Made => \E a \in 1..(at - 1) : RowAt(a) = r /\ OfferedAt(a)

\* An entity that fits was reached by as many steps as it is noted with.
Noticed ==
  \A e \in DOMAIN seenAt :
    seenAt[e] \in Nat /\ (Fits(e) => e \in Reach(Ways, question.from)[seenAt[e]])

\* A row yet to come makes a path of the one in hand.
Awaits(r) == \E a \in at..Rows : RowAt(a) = r /\ OfferedAt(a)

\* Every shortest path has been found, or begins with one that is pending, or with the
\* one in hand and a relationship whose row is yet to come.
Kept(p) ==
  \/ \E i \in 1..Len(found) : found[i] = p
  \/ \E m \in 1..Len(p.relationships) : \E i \in 1..Len(Pending) : Pending[i] = Prefix(p, m)
  \/ \E m \in 1..Len(p.relationships) : current = Prefix(p, m) /\ Awaits(p.relationships[m])

NoneLost == \A p \in ShortestPaths : Kept(p)

\* A search that has ended is between two paths, and had no reason to go on.
Ended == search = "searched" => Idle /\ (Len(found) >= Wanted \/ Pending = <<>>)

-----------------------------------------------------------------------------
(* What the steps of the search do to it.                                    *)

\* What stands still with the question.
LEMMA SameSearch ==
  ASSUME question' = question
  PROVE  /\ Rows' = Rows /\ Wanted' = Wanted /\ Relationships' = Relationships
         /\ \A e : Fits(e)' <=> Fits(e)
         /\ \A a : RowAt(a)' = RowAt(a)
         /\ Ways' = Ways /\ Paths' = Paths /\ ShortestPaths' = ShortestPaths
         /\ Candidates' = Candidates /\ PoolSize' = PoolSize
<1>1. Rows' = Rows /\ Wanted' = Wanted /\ PoolSize' = PoolSize BY DEF Rows, Wanted, PoolSize
<1>2. Relationships' = Relationships BY DEF Relationships
<1>3. \A e : Fits(e)' <=> Fits(e) BY DEF Fits
<1>4. \A a : RowAt(a)' = RowAt(a) BY DEF RowAt
<1>5. Ways' = Ways BY <1>2 DEF Ways, Fits, Admitted
<1>6. Paths' = Paths
  BY <1>2 DEF Paths, IsPath, Joined, IsSimple, FitsBetween, Fits, Admitted, End, Touches, OtherEnd
<1>7. ShortestPaths' = ShortestPaths BY <1>6 DEF ShortestPaths
<1>8. Candidates' = Candidates BY DEF Candidates, OfType, Relationships, IsSimple
<1> QED BY <1>1, <1>2, <1>3, <1>4, <1>5, <1>6, <1>7, <1>8

\* Two sequences, one after the other.
LEMMA Joining ==
  ASSUME NEW s \in Seq(Walk), NEW t \in Seq(Walk)
  PROVE  /\ s \o t \in Seq(Walk) /\ Len(s \o t) = Len(s) + Len(t)
         /\ \A i \in 1..Len(s) : (s \o t)[i] = s[i]
         /\ \A i \in 1..Len(t) : (s \o t)[Len(s) + i] = t[i]
OBVIOUS

\* One more at the end of two sequences.
LEMMA JoiningOne ==
  ASSUME NEW s \in Seq(Walk), NEW t \in Seq(Walk), NEW x \in Walk
  PROVE  Append(s \o t, x) = s \o Append(t, x)
<1>1. <<x>> \in Seq(Walk) /\ s \o t \in Seq(Walk) OBVIOUS
<1>2. Append(s \o t, x) = (s \o t) \o <<x>> BY <1>1, AppendIsConcat
<1>3. Append(t, x) = t \o <<x>> BY AppendIsConcat
<1>4. (s \o t) \o <<x>> = s \o (t \o <<x>>) BY <1>1, ConcatAssociative
<1> QED BY <1>2, <1>3, <1>4

\* What is pending: the queue, then the next level.
LEMMA PendingIs ==
  ASSUME queue \in Seq(Walk), nextLevel \in Seq(Walk)
  PROVE  /\ Pending \in Seq(Walk) /\ Len(Pending) = Len(queue) + Len(nextLevel)
         /\ \A i \in 1..Len(queue) : Pending[i] = queue[i]
         /\ \A i \in 1..Len(nextLevel) : Pending[Len(queue) + i] = nextLevel[i]
BY Joining DEF Pending

\* Taking the next path shifts what is pending.
LEMMA TakeIs ==
  ASSUME PathsInv, TakeNext
  PROVE  /\ Pending \in Seq(Walk) /\ Len(Pending) \in Nat \ {0}
         /\ Pending' \in Seq(Walk) /\ Len(Pending') = Len(Pending) - 1
         /\ \A i \in 1..Len(Pending') : Pending'[i] = Pending[i + 1]
         /\ current' = Pending[1] /\ current' = queue[1]
         /\ Idle /\ at' = 1
         /\ queue' \in Seq(Walk) /\ Len(queue) \in Nat \ {0} /\ Len(queue') = Len(queue) - 1
         /\ \A i \in 1..Len(queue') : queue'[i] = queue[i + 1]
         /\ UNCHANGED <<question, search, nextLevel, level, seenAt, found, page>>
<1>1. queue \in Seq(Walk) /\ nextLevel \in Seq(Walk) /\ queue # <<>> BY DEF PathsInv, TakeNext
<1>2. /\ queue' = Tail(queue) /\ current' = Head(queue) /\ at' = 1 /\ Idle
      /\ UNCHANGED <<question, search, nextLevel, level, seenAt, found, page>>
  BY DEF TakeNext
<1>3. /\ queue' \in Seq(Walk) /\ Len(queue) \in Nat \ {0} /\ Len(queue') = Len(queue) - 1
      /\ \A i \in 1..Len(queue') : queue'[i] = queue[i + 1]
      /\ current' = queue[1]
  BY <1>1, <1>2
<1>4. /\ Pending \in Seq(Walk) /\ Len(Pending) = Len(queue) + Len(nextLevel)
      /\ \A i \in 1..Len(queue) : Pending[i] = queue[i]
      /\ \A i \in 1..Len(nextLevel) : Pending[Len(queue) + i] = nextLevel[i]
  BY <1>1, PendingIs
<1>5. nextLevel' = nextLevel /\ Len(nextLevel) \in Nat BY <1>1, <1>2
<1>6. /\ Pending' \in Seq(Walk) /\ Len(Pending') = Len(queue') + Len(nextLevel)
      /\ \A i \in 1..Len(queue') : Pending'[i] = queue'[i]
      /\ \A i \in 1..Len(nextLevel) : Pending'[Len(queue') + i] = nextLevel[i]
  <2>1. nextLevel' \in Seq(Walk) BY <1>1, <1>5
  <2>2. /\ queue' \o nextLevel' \in Seq(Walk) /\ Len(queue' \o nextLevel') = Len(queue') + Len(nextLevel')
        /\ \A i \in 1..Len(queue') : (queue' \o nextLevel')[i] = queue'[i]
        /\ \A i \in 1..Len(nextLevel') : (queue' \o nextLevel')[Len(queue') + i] = nextLevel'[i]
    BY <1>3, <2>1, Joining
  <2> QED BY <1>5, <2>2 DEF Pending
<1>7. ASSUME NEW i \in 1..Len(Pending') PROVE Pending'[i] = Pending[i + 1]
  <2>1. CASE i \in 1..Len(queue')
    <3>1. i + 1 \in 1..Len(queue) BY <2>1, <1>3
    <3> QED BY <2>1, <3>1, <1>3, <1>4, <1>6
  <2>2. CASE i \notin 1..Len(queue')
    <3> DEFINE k == i - Len(queue')
    <3>1. k \in 1..Len(nextLevel) /\ Len(queue') + k = i /\ Len(queue) + k = i + 1
      BY <2>2, <1>3, <1>5, <1>6
    <3> HIDE DEF k
    <3> QED BY <3>1, <1>4, <1>6
  <2> QED BY <2>1, <2>2
<1>8. Len(Pending) \in Nat \ {0} /\ Len(Pending') = Len(Pending) - 1 /\ Pending[1] = queue[1]
  BY <1>3, <1>4, <1>5, <1>6
<1> QED BY <1>2, <1>3, <1>4, <1>6, <1>7, <1>8

\* Going on to the next level leaves all that is pending.
LEMMA NextLevelIs ==
  ASSUME PathsInv, NextLevel
  PROVE  /\ Pending' = Pending /\ Idle
         /\ queue' = nextLevel /\ queue = <<>> /\ nextLevel' = <<>> /\ nextLevel # <<>>
         /\ level' = {End(nextLevel[i]) : i \in 1..Len(nextLevel)}
         /\ UNCHANGED <<question, search, current, at, seenAt, found, page>>
<1>1. nextLevel \in Seq(Walk) BY DEF PathsInv
<1>2. /\ queue = <<>> /\ queue' = nextLevel /\ nextLevel' = <<>> /\ Idle /\ nextLevel # <<>>
      /\ level' = {End(nextLevel[i]) : i \in DOMAIN nextLevel}
      /\ UNCHANGED <<question, search, current, at, seenAt, found, page>>
  BY DEF NextLevel, MoreLevels
<1>3. Pending = nextLevel /\ Pending' = nextLevel BY <1>1, <1>2 DEF Pending
<1>4. DOMAIN nextLevel = 1..Len(nextLevel) BY <1>1
<1> QED BY <1>2, <1>3, <1>4

\* Looking at a row.
LEMMA RowIs ==
  ASSUME PathsInv, LookAtRow, Usable
  PROVE  /\ Row \in Relationships /\ Row \in Relationship /\ Row = RowAt(at) /\ OfferedAt(at)
         /\ Admitted(Row) /\ Touches(Row, End(current))
         /\ NextEntity = OtherEnd(Row, End(current))
         /\ Extended = Extend(current, Row) /\ Extended \in Walk /\ current \in Walk
         /\ Partial(current)
         /\ Len(current.entities) \in Nat \ {0}
         /\ Len(current.entities) = Len(current.relationships) + 1
         /\ Len(Extended.entities) = Len(current.entities) + 1
         /\ NextEntity = End(Extended)
         /\ ~Visits(current, NextEntity)
<1>1. question \in Question /\ at \in Nat \ {0} /\ ~Idle /\ Partial(current)
  BY DEF PathsInv, LookAtRow, Searching
<1>2. Row \in Relationships /\ Row \in Relationship BY <1>1, RowIsStored
<1>3. Row = RowAt(at) /\ OfferedAt(at) /\ Admitted(Row) /\ Touches(Row, End(current))
  BY DEF Row, RowAt, Usable, Offered, OfferedAt
<1>4. /\ Extended \in Walk /\ Len(Extended.entities) = Len(current.entities) + 1
      /\ ~Visits(current, NextEntity)
  BY UsableRow
<1>5. /\ current \in Walk /\ Len(current.entities) \in Nat \ {0}
      /\ Len(current.entities) = Len(current.relationships) + 1
  BY <1>1 DEF Partial, Walk, Joined, Question
<1>6. End(Extend(current, Row)) = OtherEnd(Row, End(current))
  BY <1>2, <1>5, ExtendIs
<1> QED BY <1>1, <1>2, <1>3, <1>4, <1>5, <1>6 DEF Extended, NextEntity

\* Reaching the target adds one path to those found.
LEMMA ReachIsMade ==
  ASSUME PathsInv, ReachTarget
  PROVE  /\ found \in Seq(Walk) /\ found' \in Seq(Walk) /\ Len(found') = Len(found) + 1 /\ Len(found) \in Nat
         /\ \A i \in 1..Len(found) : found'[i] = found[i]
         /\ found'[Len(found) + 1] = Extended
         /\ LookAtRow /\ Usable /\ NextEntity = question.to
         /\ Pending' = Pending
         /\ UNCHANGED <<question, search, queue, nextLevel, current, level, seenAt, page>>
<1>1. /\ LookAtRow /\ Usable /\ NextEntity = question.to /\ found' = Append(found, Extended)
      /\ UNCHANGED <<question, search, queue, nextLevel, current, level, seenAt, page>>
  BY DEF ReachTarget
<1>2. Extended \in Walk BY <1>1, UsableRow
<1>3. found \in Seq(Walk) BY DEF PathsInv
<1>4. Pending' = Pending BY <1>1 DEF Pending
<1> QED BY <1>1, <1>2, <1>3, <1>4

\* Going on adds one path to what is pending, if its end fits.
LEMMA EnqueueIs ==
  ASSUME PathsInv, InLevels, Enqueue
  PROVE  /\ Pending \in Seq(Walk) /\ Len(Pending) \in Nat
         /\ Fits(NextEntity) =>
              /\ Pending' \in Seq(Walk) /\ Len(Pending') = Len(Pending) + 1
              /\ \A i \in 1..Len(Pending) : Pending'[i] = Pending[i]
              /\ Pending'[Len(Pending) + 1] = Extended
         /\ ~Fits(NextEntity) => Pending' = Pending
         /\ LookAtRow /\ Usable /\ NextEntity # question.to /\ Continues
         /\ seenAt' = [e \in DOMAIN seenAt \cup {NextEntity} |->
                         IF e = NextEntity THEN Len(current.entities) ELSE seenAt[e]]
         /\ NextEntity \in DOMAIN seenAt => seenAt[NextEntity] >= Len(current.entities)
         /\ UNCHANGED <<question, search, current, level, found, page>>
<1>1. /\ LookAtRow /\ Usable /\ NextEntity # question.to /\ Continues
      /\ UNCHANGED <<question, search, current, level, found, page>>
  BY DEF Enqueue
<1>2. /\ Extended \in Walk /\ Len(Extended.entities) = Len(current.entities) + 1
      /\ Len(current.entities) \in Nat
  BY <1>1, RowIs
<1>3. Len(Extended.entities) - 1 = Len(current.entities) BY <1>2
<1>4. seenAt' = [e \in DOMAIN seenAt \cup {NextEntity} |->
                   IF e = NextEntity THEN Len(current.entities) ELSE seenAt[e]]
  BY <1>3 DEF Enqueue
<1>5. NextEntity \in DOMAIN seenAt => seenAt[NextEntity] >= Len(current.entities)
  BY <1>1, <1>3 DEF Continues, NotPruned
<1>6. queue \in Seq(Walk) /\ nextLevel \in Seq(Walk) BY DEF PathsInv
<1>7. Pending \in Seq(Walk) /\ Len(Pending) \in Nat BY <1>6, PendingIs
<1>8. Pending' = IF Fits(NextEntity) THEN Append(Pending, Extended) ELSE Pending
  <2>1. CASE question.provider = "memory"
    <3>1. /\ queue' = Append(queue, Extended) /\ nextLevel' = nextLevel /\ nextLevel = <<>> /\ Fits(NextEntity)
      BY <1>1, <2>1 DEF Enqueue, InLevels, Usable
    <3>2. Pending = queue BY <1>6, <3>1 DEF Pending
    <3>3. Append(queue, Extended) \in Seq(Walk) BY <1>2, <1>6
    <3>4. Pending' = Append(queue, Extended) BY <3>1, <3>3 DEF Pending
    <3> QED BY <3>1, <3>2, <3>4
  <2>2. CASE question.provider = "sql"
    <3>1. queue' = queue /\ nextLevel' = IF Fits(NextEntity) THEN Append(nextLevel, Extended) ELSE nextLevel
      BY <2>2 DEF Enqueue
    <3>2. CASE Fits(NextEntity)
      <4>1. Append(queue \o nextLevel, Extended) = queue \o Append(nextLevel, Extended) BY <1>2, <1>6, JoiningOne
      <4> QED BY <3>1, <3>2, <4>1 DEF Pending
    <3>3. CASE ~Fits(NextEntity) BY <3>1, <3>3 DEF Pending
    <3> QED BY <3>2, <3>3
  <2> QED BY <2>1, <2>2 DEF Enqueue
<1>9. Fits(NextEntity) =>
        /\ Pending' \in Seq(Walk) /\ Len(Pending') = Len(Pending) + 1
        /\ \A i \in 1..Len(Pending) : Pending'[i] = Pending[i]
        /\ Pending'[Len(Pending) + 1] = Extended
  BY <1>2, <1>7, <1>8
<1> QED BY <1>1, <1>4, <1>5, <1>7, <1>8, <1>9

\* Passing over a row moves nothing else.
LEMMA PassIs ==
  ASSUME PassOver
  PROVE  Pending' = Pending /\ LookAtRow /\ at' = at + 1
         /\ UNCHANGED <<question, search, queue, nextLevel, current, level, seenAt, found, page>>
BY DEF PassOver, LookAtRow, Pending

\* The search ends between two paths, with nothing pending or enough found.
LEMMA EndIs ==
  ASSUME EndSearch
  PROVE  Pending' = Pending /\ Idle /\ (Len(found) >= Wanted \/ Pending = <<>>)
         /\ UNCHANGED <<question, queue, nextLevel, current, level, at, seenAt, found>>
BY DEF EndSearch, Pending

\* A row is looked at only while there is one, and the next is after it.
LEMMA LookIs ==
  ASSUME PathsInv, LookAtRow, question' = question
  PROVE  at \in Nat \ {0} /\ at <= Rows /\ Rows \in Nat /\ at' = at + 1 /\ ~Idle /\ Rows' = Rows
<1>1. question.stored \in Seq(Relationship) BY DEF PathsInv, Question
<1>2. Rows \in Nat BY <1>1 DEF Rows
<1> QED BY <1>2, SameSearch DEF PathsInv, LookAtRow, Idle

-----------------------------------------------------------------------------
(* Each part of that, step by step.                                          *)

\* A breadth-first search is asked for, between two entities.
Breadth == AsksFor("paths") /\ question.from # question.to /\ question.provider \in BreadthFirst

\* What is pending, in hand and found has lengths.
LEMMA Sizes ==
  ASSUME PathsInv, question.from # question.to
  PROVE  /\ Pending \in Seq(Walk) /\ Len(Pending) \in Nat
         /\ found \in Seq(Walk) /\ Len(found) \in Nat
         /\ current \in Walk /\ Len(current.entities) \in Nat \ {0} /\ Partial(current)
         /\ \A i \in 1..Len(Pending) :
              Pending[i] \in Walk /\ Partial(Pending[i]) /\ Len(Pending[i].entities) \in Nat \ {0}
         /\ \A i \in 1..Len(found) : found[i] \in Walk /\ Len(found[i].entities) \in Nat
<1>1. queue \in Seq(Walk) /\ nextLevel \in Seq(Walk) /\ found \in Seq(Walk) BY DEF PathsInv
<1>2. \A w : Partial(w) => w \in Walk /\ Len(w.entities) \in Nat \ {0} BY DEF Partial, Walk, Joined, PathsInv, Question
<1>3. Partial(current) /\ AllPartial(queue) /\ AllPartial(nextLevel) BY DEF PathsInv
<1>4. /\ Pending \in Seq(Walk) /\ Len(Pending) = Len(queue) + Len(nextLevel)
      /\ \A i \in 1..Len(queue) : Pending[i] = queue[i]
      /\ \A i \in 1..Len(nextLevel) : Pending[Len(queue) + i] = nextLevel[i]
  BY <1>1, PendingIs
<1>5. ASSUME NEW i \in 1..Len(Pending) PROVE Partial(Pending[i])
  <2>1. Len(queue) \in Nat /\ Len(nextLevel) \in Nat BY <1>1
  <2>2. CASE i \in 1..Len(queue) BY <1>3, <1>4, <2>2 DEF AllPartial
  <2>3. CASE i \notin 1..Len(queue)
    <3> DEFINE k == i - Len(queue)
    <3>1. k \in 1..Len(nextLevel) /\ Len(queue) + k = i BY <1>4, <2>1, <2>3
    <3> HIDE DEF k
    <3>2. Pending[i] = nextLevel[k] BY <1>4, <3>1
    <3>3. Partial(nextLevel[k]) BY <1>3, <3>1 DEF AllPartial
    <3> QED BY <3>2, <3>3
  <2> QED BY <2>2, <2>3
<1>6. ASSUME NEW i \in 1..Len(found) PROVE found[i] \in Walk /\ Len(found[i].entities) \in Nat
  <2>1. found[i] \in Walk BY <1>1
  <2>2. \A w \in Walk : Len(w.entities) \in Nat BY DEF Walk
  <2> QED BY <2>1, <2>2
<1> QED BY <1>1, <1>2, <1>3, <1>4, <1>5, <1>6

\* A path made of the one in hand is longer by one, so it goes last.
LEMMA InOrderStep ==
  ASSUME PathsInv, InLevels, InOrder, Breadth, PathNext
  PROVE  InOrder'
<1> DEFINE c == Len(current.entities)
           n == Len(Pending)
           P(i) == Len(Pending[i].entities)
           F(i) == Len(found[i].entities)
<1>1. question.from # question.to BY DEF Breadth
<1>2. /\ n \in Nat /\ c \in Nat \ {0} /\ Len(found) \in Nat
      /\ \A i \in 1..n : P(i) \in Nat
      /\ \A i \in 1..Len(found) : F(i) \in Nat
  BY <1>1, Sizes
<1>3. /\ \A i \in 1..n : P(i) >= c /\ P(i) <= c + 1
      /\ \A i, j \in 1..n : i < j => P(i) <= P(j)
      /\ \A i \in 1..Len(found) : F(i) <= c + 1
      /\ \A i, j \in 1..Len(found) : i < j => F(i) <= F(j)
  BY DEF InOrder
<1>4. CASE TakeNext
  <2>1. /\ n \in Nat \ {0} /\ Len(Pending') = n - 1
        /\ \A i \in 1..Len(Pending') : Pending'[i] = Pending[i + 1]
        /\ current' = Pending[1] /\ found' = found
    BY <1>4, TakeIs
  <2>2. 1 \in 1..n /\ P(1) >= c /\ P(1) <= c + 1 /\ P(1) \in Nat BY <2>1, <1>2, <1>3
  <2>3. \A i \in 1..Len(Pending') : i + 1 \in 1..n /\ 1 < i + 1 BY <2>1
  <2>4. \A i \in 1..Len(Pending') : P(1) <= P(i + 1) /\ P(i + 1) <= P(1) + 1 BY <1>2, <1>3, <2>2, <2>3
  <2>5. \A i, j \in 1..Len(Pending') : i < j => P(i + 1) <= P(j + 1) BY <1>3, <2>1, <2>3
  <2>6. \A i \in 1..Len(found) : F(i) <= P(1) + 1 BY <1>2, <1>3, <2>2
  <2> QED BY <1>3, <2>1, <2>4, <2>5, <2>6 DEF InOrder
<1>5. CASE ReachTarget
  <2>1. /\ Len(found') = Len(found) + 1 /\ \A i \in 1..Len(found) : found'[i] = found[i]
        /\ found'[Len(found) + 1] = Extended
        /\ Pending' = Pending /\ current' = current /\ LookAtRow /\ Usable
    BY <1>5, ReachIsMade
  <2>2. Len(Extended.entities) = c + 1 BY <2>1, RowIs
  <2>3. \A i \in 1..Len(found') : i \in 1..Len(found) \/ i = Len(found) + 1 BY <1>2, <2>1
  <2>4. \A i \in 1..Len(found') : Len(found'[i].entities) <= c + 1 BY <1>2, <1>3, <2>1, <2>2, <2>3
  <2>5. \A i, j \in 1..Len(found') : i < j => Len(found'[i].entities) <= Len(found'[j].entities)
    <3> SUFFICES ASSUME NEW i \in 1..Len(found'), NEW j \in 1..Len(found'), i < j
                 PROVE  Len(found'[i].entities) <= Len(found'[j].entities)
      OBVIOUS
    <3>1. i \in 1..Len(found) BY <1>2, <2>1
    <3>2. CASE j \in 1..Len(found) BY <3>1, <3>2, <1>3, <2>1
    <3>3. CASE j = Len(found) + 1 BY <3>1, <3>3, <1>3, <2>1, <2>2
    <3> QED BY <2>3, <3>2, <3>3
  <2> QED BY <1>3, <2>1, <2>4, <2>5 DEF InOrder
<1>6. CASE Enqueue
  <2>1. /\ Fits(NextEntity) =>
             /\ Len(Pending') = n + 1
             /\ \A i \in 1..n : Pending'[i] = Pending[i]
             /\ Pending'[n + 1] = Extended
        /\ ~Fits(NextEntity) => Pending' = Pending
        /\ LookAtRow /\ Usable /\ current' = current /\ found' = found
    BY <1>6, EnqueueIs
  <2>2. Len(Extended.entities) = c + 1 BY <2>1, RowIs
  <2>3. CASE Fits(NextEntity)
    <3>1. \A i \in 1..Len(Pending') : i \in 1..n \/ i = n + 1 BY <1>2, <2>1, <2>3
    <3>2. \A i \in 1..Len(Pending') : Len(Pending'[i].entities) >= c /\ Len(Pending'[i].entities) <= c + 1
      BY <1>2, <1>3, <2>1, <2>2, <2>3, <3>1
    <3>3. \A i, j \in 1..Len(Pending') : i < j => Len(Pending'[i].entities) <= Len(Pending'[j].entities)
      <4> SUFFICES ASSUME NEW i \in 1..Len(Pending'), NEW j \in 1..Len(Pending'), i < j
                   PROVE  Len(Pending'[i].entities) <= Len(Pending'[j].entities)
        OBVIOUS
      <4>1. i \in 1..n BY <1>2, <2>1, <2>3
      <4>2. CASE j \in 1..n BY <4>1, <4>2, <1>3, <2>1, <2>3
      <4>3. CASE j = n + 1 BY <4>1, <4>3, <1>3, <2>1, <2>2, <2>3
      <4> QED BY <3>1, <4>2, <4>3
    <3> QED BY <1>3, <2>1, <3>2, <3>3 DEF InOrder
  <2>4. CASE ~Fits(NextEntity) BY <2>1, <2>4 DEF InOrder
  <2> QED BY <2>3, <2>4
<1>7. CASE PassOver BY <1>7, PassIs DEF InOrder
<1>8. CASE NextLevel BY <1>8, NextLevelIs DEF InOrder
<1>9. CASE EndSearch BY <1>9, EndIs DEF InOrder
<1> QED BY <1>1, <1>4, <1>5, <1>6, <1>7, <1>8, <1>9 DEF PathNext, AnswerAtOnce

\* The SQL search keeps to its levels: what it adds ends outside the level.
LEMMA InLevelsStep ==
  ASSUME PathsInv, InLevels, Noticed, Breadth, PathNext, question' = question
  PROVE  InLevels'
<1>1. question.from # question.to BY DEF Breadth
<1>2. /\ queue \in Seq(Walk) /\ nextLevel \in Seq(Walk) /\ Rows' = Rows
      /\ Len(queue) \in Nat /\ Len(nextLevel) \in Nat
      /\ question.to' = question.to
  BY SameSearch DEF PathsInv
<1>3. question.provider = "memory" => nextLevel' = <<>>
  BY DEF InLevels, PathNext, AnswerAtOnce, TakeNext, ReachTarget, Enqueue, PassOver, NextLevel, EndSearch
<1> SUFFICES ASSUME question.provider = "sql" PROVE \E n \in Nat : LevelIs(n)'
  BY <1>3 DEF InLevels
<1>4. PICK n \in Nat : LevelIs(n) BY DEF InLevels
<1>5. CASE TakeNext
  <2>1. /\ current' = queue[1] /\ Len(queue) \in Nat \ {0} /\ Len(queue') = Len(queue) - 1
        /\ \A i \in 1..Len(queue') : queue'[i] = queue[i + 1]
        /\ UNCHANGED <<nextLevel, level, seenAt>>
    BY <1>5, TakeIs
  <2>2. 1 \in 1..Len(queue) /\ \A i \in 1..Len(queue') : i + 1 \in 1..Len(queue) BY <2>1
  <2>3. Len(current'.entities) = n /\ End(current') \in level' BY <2>1, <2>2, <1>4 DEF LevelIs
  <2>4. \A i \in 1..Len(queue') : Len(queue'[i].entities) = n /\ End(queue'[i]) \in level'
    BY <2>1, <2>2, <1>4 DEF LevelIs
  <2>5. LevelIs(n)' BY <1>2, <1>4, <2>1, <2>3, <2>4 DEF LevelIs
  <2> QED BY <2>5
<1>6. CASE ReachTarget \/ PassOver
  <2>1. LookAtRow /\ UNCHANGED <<queue, nextLevel, current, level, seenAt>> BY <1>6, PassIs, ReachIsMade
  <2>2. ~Idle BY <2>1 DEF LookAtRow
  <2>3. Len(current.entities) = n /\ End(current) \in level BY <1>4, <2>2 DEF LevelIs
  <2>4. LevelIs(n)' BY <1>2, <1>4, <2>1, <2>3 DEF LevelIs
  <2> QED BY <2>4
<1>7. CASE Enqueue
  <2>1. /\ LookAtRow /\ Usable /\ UNCHANGED <<current, level>>
        /\ seenAt' = [e \in DOMAIN seenAt \cup {NextEntity} |->
                         IF e = NextEntity THEN Len(current.entities) ELSE seenAt[e]]
        /\ NextEntity \in DOMAIN seenAt => seenAt[NextEntity] >= Len(current.entities)
    BY <1>7, EnqueueIs
  <2>2. ~Idle BY <2>1 DEF LookAtRow
  <2>3. Len(current.entities) = n /\ End(current) \in level BY <1>4, <2>2 DEF LevelIs
  <2>4. /\ Extended \in Walk /\ Len(Extended.entities) = n + 1 /\ End(Extended) = NextEntity
    BY <2>1, <2>3, RowIs
  <2>5. queue' = queue /\ nextLevel' = IF Fits(NextEntity) THEN Append(nextLevel, Extended) ELSE nextLevel
    BY <1>7 DEF Enqueue
  <2>6. \A e \in DOMAIN seenAt : e \in DOMAIN seenAt' /\ (e # NextEntity => seenAt'[e] = seenAt[e]) BY <2>1
  <2>7. NextEntity \in DOMAIN seenAt' /\ seenAt'[NextEntity] = n BY <2>1, <2>3
  <2>8. NextEntity \notin level
    <3> SUFFICES ASSUME NextEntity \in level PROVE FALSE OBVIOUS
    <3>1. NextEntity \in DOMAIN seenAt /\ seenAt[NextEntity] < n BY <1>4 DEF LevelIs
    <3>2. seenAt[NextEntity] >= n BY <2>1, <2>3, <3>1
    <3>3. seenAt[NextEntity] \in Int => FALSE BY <3>1, <3>2
    <3>4. seenAt[NextEntity] \in Int BY <3>1 DEF Noticed
    <3> QED BY <3>3, <3>4
  <2>9. \A e \in level' : e \in DOMAIN seenAt' /\ seenAt'[e] < n
    BY <1>4, <2>1, <2>6, <2>8 DEF LevelIs
  <2>10. ASSUME NEW i \in 1..Len(nextLevel')
         PROVE  /\ Len(nextLevel'[i].entities) = n + 1
                /\ End(nextLevel'[i]) \in DOMAIN seenAt' /\ seenAt'[End(nextLevel'[i])] <= n
    <3>1. CASE i \in 1..Len(nextLevel)
      <4>1. nextLevel'[i] = nextLevel[i] BY <1>2, <2>4, <2>5, <3>1
      <4>2. /\ Len(nextLevel[i].entities) = n + 1
            /\ End(nextLevel[i]) \in DOMAIN seenAt /\ seenAt[End(nextLevel[i])] <= n
        BY <1>4, <3>1 DEF LevelIs
      <4> QED BY <4>1, <4>2, <2>6, <2>7
    <3>2. CASE i \notin 1..Len(nextLevel)
      <4>1. nextLevel'[i] = Extended BY <1>2, <2>4, <2>5, <3>2
      <4> QED BY <4>1, <2>4, <2>7
    <3> QED BY <3>1, <3>2
  <2>11. LevelIs(n)' BY <1>2, <1>4, <2>1, <2>3, <2>5, <2>9, <2>10 DEF LevelIs
  <2> QED BY <2>11
<1>8. CASE NextLevel
  <2>1. /\ queue' = nextLevel /\ nextLevel' = <<>> /\ nextLevel # <<>> /\ Idle
        /\ level' = {End(nextLevel[i]) : i \in 1..Len(nextLevel)}
        /\ UNCHANGED <<current, at, seenAt>>
    BY <1>8, NextLevelIs
  <2>2. Idle' BY <1>2, <2>1 DEF Idle
  <2>3. Len(current.entities) = n BY <1>4, <2>1 DEF LevelIs
  <2>4. question.to \notin level'
    <3> SUFFICES ASSUME NEW i \in 1..Len(nextLevel) PROVE End(nextLevel[i]) # question.to BY <2>1
    <3>1. Partial(nextLevel[i]) BY <1>1 DEF PathsInv, AllPartial
    <3>2. Len(nextLevel[i].entities) \in DOMAIN nextLevel[i].entities BY <3>1 DEF Partial, Walk, PathsInv, Question
    <3> QED BY <3>1, <3>2 DEF Partial, Visits, End
  <2>5. \A e \in level' : e \in DOMAIN seenAt /\ seenAt[e] < n + 1
    <3> SUFFICES ASSUME NEW i \in 1..Len(nextLevel)
                 PROVE  End(nextLevel[i]) \in DOMAIN seenAt /\ seenAt[End(nextLevel[i])] < n + 1
      BY <2>1
    <3>1. End(nextLevel[i]) \in DOMAIN seenAt /\ seenAt[End(nextLevel[i])] <= n BY <1>4 DEF LevelIs
    <3>2. seenAt[End(nextLevel[i])] \in Int BY <3>1 DEF Noticed
    <3> QED BY <3>1, <3>2
  <2>6. \A i \in 1..Len(nextLevel) : Len(nextLevel[i].entities) = n + 1 BY <1>4 DEF LevelIs
  <2>7. LevelIs(n + 1)' BY <1>2, <2>1, <2>2, <2>3, <2>4, <2>5, <2>6 DEF LevelIs
  <2> QED BY <2>7
<1>9. CASE EndSearch
  <2>1. UNCHANGED <<queue, nextLevel, current, level, at, seenAt>> BY <1>9, EndIs
  <2>2. LevelIs(n)' BY <1>2, <1>4, <2>1 DEF LevelIs, Idle
  <2> QED BY <2>2
<1> QED BY <1>1, <1>5, <1>6, <1>7, <1>8, <1>9 DEF PathNext, AnswerAtOnce
\* The length an entity is noted with is one it can be reached by.
LEMMA NoticedStep ==
  ASSUME PathsInv, InLevels, Noticed, Breadth, PathNext, question' = question
  PROVE  Noticed'
<1>0. Ways' = Ways /\ question.from' = question.from /\ question \in Question
      /\ \A e : Fits(e)' <=> Fits(e)
  BY SameSearch DEF PathsInv
<1>1. CASE Enqueue
  <2> DEFINE f == NextEntity
             c == Len(current.entities)
             e == End(current)
  <2>1. /\ LookAtRow /\ Usable
        /\ seenAt' = [g \in DOMAIN seenAt \cup {f} |-> IF g = f THEN c ELSE seenAt[g]]
    BY <1>1, EnqueueIs
  <2>2. /\ Row \in Relationships /\ Admitted(Row) /\ Touches(Row, e) /\ f = OtherEnd(Row, e)
        /\ Partial(current) /\ c \in Nat \ {0} /\ current \in Walk
    BY <2>1, RowIs
  <2>3. c \in 1..c /\ e \in Entities /\ e # question.to
    <3>1. c \in 1..c /\ c \in DOMAIN current.entities /\ current.entities \in Seq(Entities) BY <2>2 DEF Walk
    <3> QED BY <2>2, <3>1 DEF Partial, Visits, End
  <2>4. e \in Reach(Ways, question.from)[c - 1]
    <3> HIDE DEF c, e
    <3>1. current.entities[c] \in Reach(Ways, question.from)[c - 1] BY <1>0, <2>2, <2>3, PartialReaches DEF c
    <3> QED BY <3>1 DEF c, e, End
  <2>5. Fits(f) => <<e, f>> \in Ways BY <1>0, <2>2, <2>3, WaysAre
  <2>6. Fits(f) => f \in Reach(Ways, question.from)[c]
    <3>1. Ways \in SUBSET (Entities \X Entities) BY <1>0, WaysAre
    <3> HIDE DEF c, e, f
    <3> QED BY <2>2, <2>4, <2>5, <3>1, ReachIs
  <2> HIDE DEF c, f
  <2>7. ASSUME NEW g \in DOMAIN seenAt'
        PROVE  seenAt'[g] \in Nat /\ (Fits(g) => g \in Reach(Ways, question.from)[seenAt'[g]])
    <3>1. CASE g = f BY <2>1, <2>2, <2>6, <3>1
    <3>2. CASE g # f
      <4>1. g \in DOMAIN seenAt /\ seenAt'[g] = seenAt[g] BY <2>1, <3>2
      <4> QED BY <4>1 DEF Noticed
    <3> QED BY <3>1, <3>2
  <2> QED BY <1>0, <2>7 DEF Noticed
<1>2. CASE UNCHANGED seenAt BY <1>0, <1>2 DEF Noticed
<1> QED BY <1>1, <1>2 DEF PathNext, AnswerAtOnce, TakeNext, ReachTarget, PassOver, NextLevel, EndSearch, Breadth

\* Only the end of the search ends it.
LEMMA EndedStep ==
  ASSUME PathsInv, Ended, Breadth, PathNext, question' = question
  PROVE  Ended'
<1>1. Rows' = Rows /\ Wanted' = Wanted BY SameSearch
<1>2. CASE EndSearch BY <1>1, <1>2, EndIs DEF Ended, Idle
<1>3. CASE ~EndSearch
  <2>1. search' = "searching"
    BY <1>3 DEF PathNext, AnswerAtOnce, TakeNext, ReachTarget, Enqueue, PassOver, NextLevel, LookAtRow, Searching, Breadth
  <2> QED BY <2>1 DEF Ended
<1> QED BY <1>2, <1>3

\* With a path in hand every row its last entity is in is offered.
LEMMA RowsOffer ==
  ASSUME question \in Question, question.provider \in BreadthFirst, NEW r \in Relationships,
         question.provider = "sql" => r.source \in level \/ r.target \in level
  PROVE  \E a \in 1..Rows : RowAt(a) = r /\ OfferedAt(a)
<1> DEFINE n == Len(question.stored)
<1>1. question.stored \in Seq(Relationship) /\ n \in Nat BY DEF Question
<1>2. PICK k \in 1..n : question.stored[k] = r BY <1>1 DEF Relationships
<1>3. RowAt(k) = r BY <1>2 DEF RowAt
<1>4. RowAt(k + n) = r
  <2>1. ~ (k + n <= n) /\ (k + n) - n = k BY <1>1
  <2> QED BY <1>2, <2>1 DEF RowAt
<1>5. CASE question.provider = "memory" \/ r.source \in level
  <2>1. k \in 1..Rows BY <1>1 DEF Rows
  <2>2. OfferedAt(k) BY <1>3, <1>5 DEF OfferedAt
  <2> QED BY <1>3, <2>1, <2>2
<1>6. CASE question.provider = "sql" /\ r.target \in level
  <2>1. k + n \in 1..Rows BY <1>1, <1>6 DEF Rows
  <2>2. ~ (k + n <= n) BY <1>1
  <2>3. OfferedAt(k + n) BY <1>4, <1>6, <2>2 DEF OfferedAt
  <2> QED BY <1>4, <2>1, <2>3
<1> QED BY <1>5, <1>6 DEF BreadthFirst

\* What a shortest path is, entity by entity.
LEMMA AlongPath ==
  ASSUME question \in Question, NEW p \in ShortestPaths
  PROVE  /\ p \in Walk /\ IsPath(p)
         /\ Len(p.relationships) \in Nat /\ Len(p.relationships) <= question.maxDepth
         /\ question.maxDepth \in Nat
         /\ Len(p.entities) = Len(p.relationships) + 1
         /\ p.entities[Len(p.relationships) + 1] = question.to
         /\ p.entities[1] = question.from
         /\ \A m \in 1..Len(p.relationships) :
              /\ p.relationships[m] \in Relationships /\ Admitted(p.relationships[m])
              /\ Touches(p.relationships[m], p.entities[m])
              /\ p.entities[m + 1] = OtherEnd(p.relationships[m], p.entities[m])
         /\ \A i, j \in 1..(Len(p.relationships) + 1) : p.entities[i] = p.entities[j] => i = j
         /\ \A i \in 2..Len(p.relationships) : Fits(p.entities[i])
<1> DEFINE n == Len(p.relationships)
<1>1. p \in Walk /\ IsPath(p) BY ShortestIs
<1>2. n \in Nat /\ Len(p.entities) = n + 1 /\ n <= question.maxDepth /\ question.maxDepth \in Nat
      /\ DOMAIN p.entities = 1..(n + 1) /\ DOMAIN p.relationships = 1..n
  BY <1>1 DEF IsPath, Joined, Walk, Question
<1>3. p.entities[n + 1] = question.to /\ p.entities[1] = question.from BY <1>1, <1>2 DEF IsPath, End
<1>4. \A m \in 1..n :
        /\ p.relationships[m] \in Relationships /\ Admitted(p.relationships[m])
        /\ Touches(p.relationships[m], p.entities[m])
        /\ p.entities[m + 1] = OtherEnd(p.relationships[m], p.entities[m])
  BY <1>1, <1>2 DEF IsPath, Joined
<1>5. \A i, j \in 1..(n + 1) : p.entities[i] = p.entities[j] => i = j
  BY <1>1, <1>2 DEF IsPath, IsSimple
<1>6. \A i \in 2..n : Fits(p.entities[i])
  <2>1. Len(p.entities) - 1 = n BY <1>2
  <2> QED BY <1>1, <2>1 DEF IsPath, FitsBetween
<1> QED BY <1>1, <1>2, <1>3, <1>4, <1>5, <1>6

\* The row a shortest path goes on by is not passed over.
LEMMA RowTaken ==
  ASSUME PathsInv, Noticed, Breadth, LookAtRow, NEW p \in ShortestPaths, NEW m \in 1..Len(p.relationships),
         current = Prefix(p, m), RowAt(at) = p.relationships[m], OfferedAt(at)
  PROVE  /\ Extended = Prefix(p, m + 1) /\ Usable
         /\ NextEntity = question.to <=> m = Len(p.relationships)
         /\ NextEntity # question.to => Fits(NextEntity) /\ Continues
<1> DEFINE n == Len(p.relationships)
           es == p.entities
<1>1. question \in Question BY DEF PathsInv
<1>2. /\ p \in Walk /\ n \in Nat /\ n <= question.maxDepth /\ question.maxDepth \in Nat
      /\ Len(es) = n + 1 /\ es[n + 1] = question.to
      /\ Admitted(p.relationships[m]) /\ Touches(p.relationships[m], es[m])
      /\ es[m + 1] = OtherEnd(p.relationships[m], es[m])
      /\ \A i, j \in 1..(n + 1) : es[i] = es[j] => i = j
      /\ \A i \in 2..n : Fits(es[i])
  BY <1>1, AlongPath
<1>3. m \in Nat /\ m >= 1 /\ m <= n /\ m \in 1..(n + 1) /\ m + 1 \in 1..(n + 1) /\ n + 1 \in 1..(n + 1)
      /\ m \in 1..Len(es) /\ m + 1 \in 1..Len(es)
  BY <1>2
<1> HIDE DEF n
<1>4. /\ current \in Walk /\ Len(current.entities) = m /\ End(current) = es[m]
      /\ \A i \in 1..m : current.entities[i] = es[i]
  BY <1>2, <1>3, PrefixIs DEF n
<1>5. Row = p.relationships[m] /\ Offered BY DEF Row, RowAt, Offered, OfferedAt
<1>6. Extended = Prefix(p, m + 1) BY <1>2, <1>5, PrefixExtends DEF Extended, n
<1>7. Len(Extended.entities) = m + 1 /\ NextEntity = es[m + 1]
  BY <1>2, <1>3, <1>6, PrefixIs DEF NextEntity, n
<1>8. NextEntity = question.to <=> m = n BY <1>2, <1>3, <1>7
<1>9. ~Visits(current, NextEntity)
  <2> SUFFICES ASSUME Visits(current, NextEntity) PROVE FALSE OBVIOUS
  <2>1. DOMAIN current.entities = 1..m BY <1>4 DEF Walk
  <2>2. PICK i \in 1..m : es[i] = es[m + 1] BY <1>4, <1>7, <2>1 DEF Visits
  <2>3. i \in 1..(n + 1) /\ i # m + 1 BY <1>3
  <2> QED BY <1>2, <1>3, <2>2, <2>3
<1>10. NextEntity # question.to => Fits(NextEntity)
  <2> SUFFICES ASSUME NextEntity # question.to PROVE Fits(NextEntity) OBVIOUS
  <2>1. m + 1 \in 2..n BY <1>2, <1>3, <1>8
  <2> QED BY <1>2, <1>7, <2>1
<1>11. Usable BY <1>2, <1>4, <1>5, <1>9, <1>10 DEF Usable
<1>12. NextEntity # question.to => Continues
  <2> SUFFICES ASSUME NextEntity # question.to PROVE Continues OBVIOUS
  <2>1. Len(Extended.entities) <= question.maxDepth BY <1>2, <1>3, <1>7, <1>8
  <2>2. NotPruned
    <3> SUFFICES ASSUME NextEntity \in DOMAIN seenAt PROVE seenAt[NextEntity] >= m
      BY <1>3, <1>7 DEF NotPruned
    <3> DEFINE k == seenAt[NextEntity]
    <3>1. k \in Nat /\ es[m + 1] \in Reach(Ways, question.from)[k] BY <1>7, <1>10 DEF Noticed
    <3> HIDE DEF k
    <3>2. (m + 1) - 1 <= k BY <1>1, <1>3, <3>1, ShortestIs
    <3> QED BY <1>3, <3>1, <3>2 DEF k
  <2> QED BY <2>1, <2>2 DEF Continues
<1> QED BY <1>6, <1>8, <1>10, <1>11, <1>12 DEF n

\* A shortest path stays pending until it is found.
LEMMA NoneLostStep ==
  ASSUME PathsInv, InLevels, Noticed, NoneLost, Breadth, PathNext, question' = question
  PROVE  NoneLost'
<1>1. /\ Rows' = Rows /\ ShortestPaths' = ShortestPaths /\ \A a : RowAt(a)' = RowAt(a)
      /\ question \in Question /\ question.provider \in BreadthFirst
      /\ question.from # question.to
  BY SameSearch DEF PathsInv, Breadth
<1>2. level' = level => \A a : OfferedAt(a)' <=> OfferedAt(a) BY <1>1 DEF OfferedAt
<1>3. Rows \in Nat /\ at \in Nat
  <2>1. question.stored \in Seq(Relationship) BY <1>1 DEF Question
  <2> QED BY <2>1 DEF PathsInv, Rows
<1> SUFFICES ASSUME NEW p \in ShortestPaths PROVE Kept(p)' BY <1>1 DEF NoneLost
<1> DEFINE n == Len(p.relationships)
<1>4. Kept(p) BY DEF NoneLost
<1>5. Len(found) \in Nat /\ Len(Pending) \in Nat BY <1>1, Sizes
<1>6. CASE Idle /\ UNCHANGED found /\ Pending' = Pending
  <2>1. \A r : ~Awaits(r) BY <1>3, <1>6 DEF Awaits, Idle
  <2> QED BY <1>4, <1>6, <2>1 DEF Kept
<1>7. CASE TakeNext
  <2>1. /\ Len(Pending) \in Nat \ {0} /\ Len(Pending') = Len(Pending) - 1
        /\ \A i \in 1..Len(Pending') : Pending'[i] = Pending[i + 1]
        /\ current' = Pending[1] /\ current' = queue[1] /\ Idle /\ at' = 1
        /\ Len(queue) \in Nat \ {0}
        /\ UNCHANGED <<level, found>>
    BY <1>7, TakeIs
  <2>2. \A r : ~Awaits(r) BY <1>3, <2>1 DEF Awaits, Idle
  <2>3. CASE \E i \in 1..Len(found) : found[i] = p BY <2>1, <2>3 DEF Kept
  <2>4. CASE \E m \in 1..n : \E i \in 1..Len(Pending) : Pending[i] = Prefix(p, m)
    <3>1. PICK m \in 1..n : \E i \in 1..Len(Pending) : Pending[i] = Prefix(p, m) BY <2>4
    <3>2. PICK i \in 1..Len(Pending) : Pending[i] = Prefix(p, m) BY <3>1
    <3>3. CASE i # 1
      <4>1. i - 1 \in 1..Len(Pending') /\ (i - 1) + 1 = i BY <2>1, <3>3
      <4>2. Pending'[i - 1] = Prefix(p, m) BY <2>1, <3>2, <4>1
      <4> QED BY <4>1, <4>2 DEF Kept
    <3>4. CASE i = 1
      <4> DEFINE r == p.relationships[m]
      <4>1. current' = Prefix(p, m) /\ queue[1] = Prefix(p, m) BY <2>1, <3>2, <3>4
      <4>2. r \in Relationships /\ Touches(r, p.entities[m]) /\ p \in Walk
            /\ Len(p.entities) = n + 1 /\ n \in Nat
        BY <1>1, AlongPath
      <4>3. End(queue[1]) = p.entities[m]
        <5>1. m \in 1..Len(p.entities) BY <4>2
        <5> HIDE DEF r
        <5> QED BY <4>1, <4>2, <5>1, PrefixIs
      <4>4. question.provider = "sql" => p.entities[m] \in level
        <5>1. 1 \in 1..Len(queue) BY <2>1
        <5> QED BY <4>3, <5>1 DEF InLevels, LevelIs
      <4>5. question.provider = "sql" => r.source \in level \/ r.target \in level BY <4>2, <4>4 DEF Touches
      <4>6. \E a \in 1..Rows : RowAt(a) = r /\ OfferedAt(a)
        <5> HIDE DEF r
        <5> QED BY <1>1, <4>2, <4>5, RowsOffer
      <4>7. Awaits(r)' BY <1>1, <1>2, <2>1, <4>6 DEF Awaits
      <4> QED BY <4>1, <4>7 DEF Kept
    <3> QED BY <3>3, <3>4
  <2> QED BY <1>4, <2>2, <2>3, <2>4 DEF Kept
<1>8. CASE ReachTarget \/ Enqueue \/ PassOver
  <2>1. /\ LookAtRow /\ UNCHANGED <<current, level>> /\ at' = at + 1
    BY <1>8 DEF ReachTarget, Enqueue, PassOver, LookAtRow
  <2>2. /\ Len(found') >= Len(found) /\ Len(found') \in Nat
        /\ \A i \in 1..Len(found) : found'[i] = found[i]
        /\ Len(Pending') >= Len(Pending) /\ Len(Pending') \in Nat
        /\ \A i \in 1..Len(Pending) : Pending'[i] = Pending[i]
    <3>1. CASE ReachTarget BY <1>5, <3>1, ReachIsMade
    <3>2. CASE Enqueue
      <4>1. CASE Fits(NextEntity) BY <1>5, <3>2, <4>1, EnqueueIs
      <4>2. CASE ~Fits(NextEntity) BY <1>5, <3>2, <4>2, EnqueueIs
      <4> QED BY <4>1, <4>2
    <3>3. CASE PassOver BY <1>5, <3>3, PassIs
    <3> QED BY <1>8, <3>1, <3>2, <3>3
  <2>3. \A i \in 1..Len(found) : i \in 1..Len(found') BY <1>5, <2>2
  <2>4. \A i \in 1..Len(Pending) : i \in 1..Len(Pending') BY <1>5, <2>2
  <2>5. CASE \E i \in 1..Len(found) : found[i] = p BY <2>2, <2>3, <2>5 DEF Kept
  <2>6. CASE \E m \in 1..n : \E i \in 1..Len(Pending) : Pending[i] = Prefix(p, m)
    BY <2>2, <2>4, <2>6 DEF Kept
  <2>7. CASE \E m \in 1..n : current = Prefix(p, m) /\ Awaits(p.relationships[m])
    <3>1. PICK m \in 1..n : current = Prefix(p, m) /\ Awaits(p.relationships[m]) BY <2>7
    <3>2. PICK a \in at..Rows : RowAt(a) = p.relationships[m] /\ OfferedAt(a) BY <3>1 DEF Awaits
    <3>3. CASE a # at
      <4>1. a \in at'..Rows' BY <1>1, <1>3, <2>1, <3>3
      <4>2. Awaits(p.relationships[m])' BY <1>1, <1>2, <2>1, <3>2, <4>1 DEF Awaits
      <4> QED BY <2>1, <3>1, <4>2 DEF Kept
    <3>4. CASE a = at
      <4>1. /\ Extended = Prefix(p, m + 1) /\ Usable
            /\ NextEntity = question.to <=> m = Len(p.relationships)
            /\ NextEntity # question.to => Fits(NextEntity) /\ Continues
        BY <2>1, <3>1, <3>2, <3>4, RowTaken
      <4>2. n \in Nat /\ m \in Nat /\ p \in Walk /\ Len(p.entities) = n + 1 BY <1>1, AlongPath
      <4>3. CASE m = n
        <5>1. ReachTarget BY <1>8, <4>1, <4>3 DEF Enqueue, PassOver
        <5>2. found'[Len(found) + 1] = Extended /\ Len(found') = Len(found) + 1 BY <5>1, ReachIsMade
        <5>3. Prefix(p, m + 1) = p
          <6>1. m + 1 \in 1..Len(p.entities) /\ m + 1 = Len(p.entities) BY <4>2, <4>3
          <6> QED BY <4>2, <6>1, PrefixIs
        <5>4. Len(found) + 1 \in 1..Len(found') BY <1>5, <5>2
        <5>5. found'[Len(found) + 1] = p BY <4>1, <5>2, <5>3
        <5> QED BY <5>4, <5>5 DEF Kept
      <4>4. CASE m # n
        <5>1. Enqueue /\ Fits(NextEntity) BY <1>8, <4>1, <4>4 DEF ReachTarget, PassOver
        <5>2. Pending'[Len(Pending) + 1] = Extended /\ Len(Pending') = Len(Pending) + 1 BY <5>1, EnqueueIs
        <5>3. m + 1 \in 1..n /\ Len(Pending) + 1 \in 1..Len(Pending') BY <1>5, <4>2, <4>4, <5>2
        <5>4. Pending'[Len(Pending) + 1] = Prefix(p, m + 1) BY <4>1, <5>2
        <5> QED BY <5>3, <5>4 DEF Kept
      <4> QED BY <4>3, <4>4
    <3> QED BY <3>3, <3>4
  <2> QED BY <1>4, <2>5, <2>6, <2>7 DEF Kept
<1>9. CASE NextLevel BY <1>6, <1>9, NextLevelIs
<1>10. CASE EndSearch BY <1>6, <1>10, EndIs
<1> QED BY <1>1, <1>7, <1>8, <1>9, <1>10 DEF PathNext, AnswerAtOnce
\* No two rows of the store are the same relationship.
RowsDiffer ==
  \A i, j \in DOMAIN question.stored : question.stored[i] = question.stored[j] => i = j

\* A path is made of one path and one relationship.
LEMMA ExtendOnce ==
  ASSUME NEW v \in Walk, NEW w \in Walk, Len(v.entities) # 0, Len(w.entities) # 0,
         NEW r \in Relationship, NEW q \in Relationship, Extend(v, r) = Extend(w, q)
  PROVE  v = w /\ r = q
<1> DEFINE x == Extend(v, r)
<1>1. /\ v.entities \in Seq(Entities) /\ w.entities \in Seq(Entities)
      /\ v.relationships \in Seq(Relationship) /\ w.relationships \in Seq(Relationship)
      /\ v = [entities |-> v.entities, relationships |-> v.relationships]
      /\ w = [entities |-> w.entities, relationships |-> w.relationships]
  BY DEF Walk
<1>2. /\ Len(x.entities) = Len(v.entities) + 1 /\ Len(x.relationships) = Len(v.relationships) + 1
      /\ \A i \in 1..Len(v.entities) : x.entities[i] = v.entities[i]
      /\ \A i \in 1..Len(v.relationships) : x.relationships[i] = v.relationships[i]
      /\ x.relationships[Len(v.relationships) + 1] = r
  BY ExtendIs
<1>3. /\ Len(x.entities) = Len(w.entities) + 1 /\ Len(x.relationships) = Len(w.relationships) + 1
      /\ \A i \in 1..Len(w.entities) : x.entities[i] = w.entities[i]
      /\ \A i \in 1..Len(w.relationships) : x.relationships[i] = w.relationships[i]
      /\ x.relationships[Len(w.relationships) + 1] = q
  <2>1. x = Extend(w, q) OBVIOUS
  <2> HIDE DEF x
  <2> QED BY <2>1, ExtendIs
<1> HIDE DEF x
<1>4. Len(v.entities) = Len(w.entities) /\ Len(v.relationships) = Len(w.relationships)
      /\ Len(v.entities) \in Nat /\ Len(v.relationships) \in Nat
  BY <1>1, <1>2, <1>3
<1>5. v.entities = w.entities
  <2>1. \A i \in 1..Len(v.entities) : v.entities[i] = w.entities[i] BY <1>2, <1>3, <1>4
  <2> QED BY <1>1, <1>4, <2>1
<1>6. v.relationships = w.relationships
  <2>1. \A i \in 1..Len(v.relationships) : v.relationships[i] = w.relationships[i] BY <1>2, <1>3, <1>4
  <2> QED BY <1>1, <1>4, <2>1
<1>7. v = w BY <1>1, <1>5, <1>6
<1> QED BY <1>2, <1>3, <1>4, <1>7

\* Made again, a path would be made of the second row of a relationship of the SQL
\* search, one within the level.
LEMMA MadeAnew ==
  ASSUME PathsInv, RowsDiffer, InLevels, Noticed, OnceEach, Breadth, ReachTarget \/ Enqueue, question' = question
  PROVE  Extended \notin Made
<1> SUFFICES ASSUME Extended \in Made PROVE FALSE OBVIOUS
<1> DEFINE n == Len(question.stored)
<1>1. LookAtRow /\ Usable BY ReachIsMade, EnqueueIs
<1>2. /\ Row \in Relationships /\ Row = RowAt(at) /\ OfferedAt(at) /\ Extended = Extend(current, Row)
      /\ NextEntity = OtherEnd(Row, End(current))
      /\ Len(current.entities) \in Nat
  BY <1>1, RowIs
<1>3. at \in Nat \ {0} /\ at <= Rows /\ Rows \in Nat /\ ~Idle BY <1>1, LookIs
<1>4. PICK a \in 1..(at - 1) : RowAt(a) = Row /\ OfferedAt(a) BY <1>2, <1>3 DEF OnceEach
<1>5. question.stored \in Seq(Relationship) /\ n \in Nat /\ DOMAIN question.stored = 1..n
  BY DEF PathsInv, Question
<1>6. Rows = IF question.provider = "sql" THEN 2 * n ELSE n BY DEF Rows
<1> DEFINE i == IF a <= n THEN a ELSE a - n
           j == IF at <= n THEN at ELSE at - n
<1>7. i \in 1..n /\ j \in 1..n BY <1>3, <1>5, <1>6
<1>8. RowAt(a) = question.stored[i] /\ RowAt(at) = question.stored[j] BY DEF RowAt
<1>9. i = j
  <2> HIDE DEF i, j, n
  <2> QED BY <1>2, <1>4, <1>5, <1>7, <1>8 DEF RowsDiffer
<1>10. a <= n /\ ~ (at <= n) /\ question.provider = "sql" BY <1>3, <1>5, <1>6, <1>9
<1>11. Row.source \in level /\ Row.target \in level BY <1>2, <1>4, <1>10 DEF OfferedAt
<1>12. NextEntity \in level BY <1>2, <1>11 DEF OtherEnd
<1>13. PICK m \in Nat : LevelIs(m) BY <1>10 DEF InLevels
<1>14. /\ NextEntity # question.to
       /\ NextEntity \in DOMAIN seenAt /\ seenAt[NextEntity] < Len(current.entities)
  BY <1>3, <1>12, <1>13 DEF LevelIs
<1>15. Enqueue BY <1>14, ReachIsMade
<1>16. seenAt[NextEntity] >= Len(current.entities) BY <1>14, <1>15, EnqueueIs
<1>17. seenAt[NextEntity] \in Nat BY <1>14 DEF Noticed
<1> QED BY <1>2, <1>14, <1>16, <1>17

\* What a step adds has not been made before.
LEMMA OnceEachStep ==
  ASSUME PathsInv, RowsDiffer, InLevels, InOrder, Noticed, OnceEach, Breadth, PathNext, question' = question
  PROVE  OnceEach'
<1> DEFINE n == Len(Pending)
           c == Len(current.entities)
           x == Extended
<1>1. /\ Relationships' = Relationships /\ Rows' = Rows /\ \A a : RowAt(a)' = RowAt(a)
      /\ Relationships \in SUBSET Relationship
      /\ question.from # question.to
  BY SameSearch, QuestionIs DEF PathsInv, Breadth
<1>2. /\ Pending \in Seq(Walk) /\ n \in Nat /\ found \in Seq(Walk) /\ Len(found) \in Nat
      /\ current \in Walk /\ c \in Nat \ {0}
      /\ \A i \in 1..n : Pending[i] \in Walk /\ Len(Pending[i].entities) \in Nat \ {0}
      /\ \A i \in 1..Len(found) : found[i] \in Walk /\ Len(found[i].entities) \in Nat
  BY <1>1, Sizes
<1>3. level' = level => \A a : OfferedAt(a)' <=> OfferedAt(a) BY <1>1 DEF OfferedAt
<1>4. ASSUME Pending' = Pending, found' = found, Idle, at' = at PROVE OnceEach'
  <2>1. Idle' /\ Made' = Made BY <1>1, <1>4 DEF Idle, Made
  <2> QED BY <1>1, <1>4, <2>1 DEF OnceEach
<1>5. CASE TakeNext
  <2>1. /\ n \in Nat \ {0} /\ Len(Pending') = n - 1
        /\ \A i \in 1..Len(Pending') : Pending'[i] = Pending[i + 1]
        /\ current' = Pending[1] /\ found' = found
    BY <1>5, TakeIs
  <2>2. 1 \in 1..n /\ \A i \in 1..Len(Pending') : i + 1 \in 1..n /\ i + 1 # 1 BY <2>1
  <2>3. Made' \subseteq Made BY <2>1, <2>2 DEF Made
  <2>4. \A i, j \in 1..Len(Pending') : Pending'[i] = Pending'[j] => i = j
    <3> SUFFICES ASSUME NEW i \in 1..Len(Pending'), NEW j \in 1..Len(Pending'), Pending'[i] = Pending'[j]
                 PROVE  i = j
      OBVIOUS
    <3>1. i + 1 = j + 1 BY <2>1, <2>2 DEF OnceEach
    <3> QED BY <2>1, <3>1
  <2>5. \A i \in 1..Len(Pending'), r \in Relationships : Extend(Pending'[i], r) \notin Made'
    BY <2>1, <2>2, <2>3 DEF OnceEach
  <2>6. \A i \in 1..Len(Pending') : Pending'[i] # current' BY <2>1, <2>2 DEF OnceEach
  <2>7. \A r \in Relationships : Extend(current', r) \notin Made' BY <2>1, <2>2, <2>3 DEF OnceEach
  <2>8. \A i, j \in 1..Len(found') : found'[i] = found'[j] => i = j BY <2>1 DEF OnceEach
  <2> HIDE DEF n, c, x
  <2> QED BY <1>1, <2>4, <2>5, <2>6, <2>7, <2>8 DEF OnceEach
<1>6. CASE LookAtRow /\ UNCHANGED <<current, level>> /\ Pending' = Pending /\ UNCHANGED found
  <2>1. at \in Nat \ {0} /\ at' = at + 1 /\ ~Idle BY <1>6, LookIs
  <2>2. Made' = Made BY <1>6 DEF Made
  <2>3. \A a \in 1..(at - 1) : a \in 1..(at' - 1) BY <2>1
  <2> QED BY <1>1, <1>3, <1>6, <2>1, <2>2, <2>3 DEF OnceEach
<1>7. ASSUME ReachTarget \/ Enqueue, Made' = Made \cup {x}
      PROVE  /\ x \notin Made
             /\ \A i \in 1..n, r \in Relationships : Extend(Pending[i], r) \notin Made'
             /\ \A i \in 1..n : Pending[i] # current'
             /\ \A r \in Relationships :
                  Extend(current', r) \in Made' => \E a \in 1..(at' - 1) : RowAt(a)' = r /\ OfferedAt(a)'
  <2>1. LookAtRow /\ Usable /\ UNCHANGED <<current, level>> BY <1>7, ReachIsMade, EnqueueIs
  <2>2. at \in Nat \ {0} /\ at' = at + 1 /\ ~Idle BY <2>1, LookIs
  <2>3. /\ Row \in Relationships /\ Row \in Relationship /\ Row = RowAt(at) /\ OfferedAt(at)
        /\ x = Extend(current, Row)
    BY <2>1, RowIs
  <2>4. x \notin Made BY <1>7, MadeAnew
  <2>5. ASSUME NEW i \in 1..n, NEW r \in Relationships PROVE Extend(Pending[i], r) \notin Made'
    <3>1. Extend(Pending[i], r) \notin Made BY DEF OnceEach
    <3>2. Pending[i] # current BY <2>2 DEF OnceEach
    <3>3. /\ Pending[i] \in Walk /\ Len(Pending[i].entities) # 0 /\ r \in Relationship
          /\ current \in Walk /\ Len(current.entities) # 0
      BY <1>1, <1>2
    <3>4. Extend(Pending[i], r) # Extend(current, Row)
      <4> HIDE DEF n, c, x
      <4> QED BY <2>3, <3>2, <3>3, ExtendOnce
    <3> QED BY <1>7, <2>3, <3>1, <3>4
  <2>6. \A i \in 1..n : Pending[i] # current' BY <2>1, <2>2 DEF OnceEach
  <2>7. ASSUME NEW r \in Relationships, Extend(current', r) \in Made'
        PROVE  \E a \in 1..(at' - 1) : RowAt(a)' = r /\ OfferedAt(a)'
    <3>1. CASE Extend(current, r) \in Made
      <4>1. PICK a \in 1..(at - 1) : RowAt(a) = r /\ OfferedAt(a) BY <2>2, <3>1 DEF OnceEach
      <4>2. a \in 1..(at' - 1) BY <2>2
      <4> QED BY <1>1, <1>3, <2>1, <4>1, <4>2
    <3>2. CASE Extend(current, r) = x
      <4>1. r \in Relationship /\ current \in Walk /\ Len(current.entities) # 0 BY <1>1, <1>2
      <4>2. r = Row
        <5> HIDE DEF n, c, x
        <5> QED BY <2>3, <3>2, <4>1, ExtendOnce
      <4>3. at \in 1..(at' - 1) BY <2>2
      <4> QED BY <1>1, <1>3, <2>1, <2>3, <4>2, <4>3
    <3> QED BY <1>7, <2>1, <2>7, <3>1, <3>2
  <2> QED BY <2>4, <2>5, <2>6, <2>7
<1>8. CASE ReachTarget
  <2>1. /\ Len(found') = Len(found) + 1
        /\ \A i \in 1..Len(found) : found'[i] = found[i]
        /\ found'[Len(found) + 1] = x
        /\ Pending' = Pending
    BY <1>8, ReachIsMade
  <2>2. /\ \A i \in 1..Len(found') : i \in 1..Len(found) \/ i = Len(found) + 1
        /\ \A i \in 1..Len(found) : i \in 1..Len(found')
        /\ Len(found) + 1 \in 1..Len(found')
    BY <1>2, <2>1
  <2> HIDE DEF n, c, x
  <2>3. Made' = Made \cup {x}
    <3>1. {found'[i] : i \in 1..Len(found')} = {found[i] : i \in 1..Len(found)} \cup {x} BY <2>1, <2>2
    <3> QED BY <2>1, <3>1 DEF Made
  <2>4. /\ x \notin Made
        /\ \A i \in 1..n, r \in Relationships : Extend(Pending[i], r) \notin Made'
        /\ \A i \in 1..n : Pending[i] # current'
        /\ \A r \in Relationships :
             Extend(current', r) \in Made' => \E a \in 1..(at' - 1) : RowAt(a)' = r /\ OfferedAt(a)'
    BY <1>7, <1>8, <2>3
  <2>5. \A i \in 1..Len(found) : found[i] # x BY <2>4 DEF Made
  <2>6. \A i, j \in 1..Len(found') : found'[i] = found'[j] => i = j
    BY <2>1, <2>2, <2>5 DEF OnceEach
  <2> QED BY <1>1, <2>1, <2>4, <2>6 DEF OnceEach, n
<1>9. CASE Enqueue /\ Fits(NextEntity)
  <2>1. /\ Len(Pending') = n + 1
        /\ \A i \in 1..n : Pending'[i] = Pending[i]
        /\ Pending'[n + 1] = x
        /\ LookAtRow /\ Usable
        /\ UNCHANGED <<current, found>>
    BY <1>9, EnqueueIs
  <2>2. /\ \A i \in 1..Len(Pending') : i \in 1..n \/ i = n + 1
        /\ \A i \in 1..n : i \in 1..Len(Pending')
        /\ n + 1 \in 1..Len(Pending')
    BY <1>2, <2>1
  <2>3. x \in Walk /\ Len(x.entities) = c + 1 BY <2>1, RowIs
  <2>4. \A w \in Made : Len(w.entities) <= c + 1 BY DEF Made, InOrder
  <2> HIDE DEF n, c, x
  <2>5. Made' = Made \cup {x}
    <3>1. {Pending'[i] : i \in 1..Len(Pending')} = {Pending[i] : i \in 1..n} \cup {x} BY <2>1, <2>2
    <3> QED BY <2>1, <3>1 DEF Made, n
  <2>6. /\ x \notin Made
        /\ \A i \in 1..n, r \in Relationships : Extend(Pending[i], r) \notin Made'
        /\ \A i \in 1..n : Pending[i] # current'
        /\ \A r \in Relationships :
             Extend(current', r) \in Made' => \E a \in 1..(at' - 1) : RowAt(a)' = r /\ OfferedAt(a)'
    BY <1>7, <1>9, <2>5
  <2>7. ASSUME NEW r \in Relationships PROVE Extend(x, r) \notin Made'
    <3>1. r \in Relationship /\ Len(x.entities) # 0 BY <1>1, <1>2, <2>3
    <3>2. Len(Extend(x, r).entities) = c + 2
      <4>1. Len(Extend(x, r).entities) = Len(x.entities) + 1 BY <2>3, <3>1, ExtendIs
      <4> QED BY <1>2, <2>3, <4>1
    <3>3. \A w \in Made' : Len(w.entities) <= c + 1 BY <1>2, <2>3, <2>4, <2>5
    <3> QED BY <1>2, <3>2, <3>3
  <2>8. \A i \in 1..n : Pending[i] # x BY <2>6 DEF Made, n
  <2>9. \A i, j \in 1..Len(Pending') : Pending'[i] = Pending'[j] => i = j
    BY <2>1, <2>2, <2>8 DEF OnceEach, n
  <2>10. \A i \in 1..Len(Pending'), r \in Relationships : Extend(Pending'[i], r) \notin Made'
    BY <2>1, <2>2, <2>6, <2>7
  <2>11. x # current' BY <1>2, <2>1, <2>3 DEF c
  <2>12. \A i \in 1..Len(Pending') : Pending'[i] # current' BY <2>1, <2>2, <2>6, <2>11
  <2> QED BY <1>1, <2>1, <2>6, <2>9, <2>10, <2>12 DEF OnceEach
<1>10. CASE Enqueue /\ ~Fits(NextEntity) BY <1>6, <1>10, EnqueueIs
<1>11. CASE PassOver BY <1>6, <1>11, PassIs
<1>12. CASE NextLevel BY <1>4, <1>12, NextLevelIs
<1>13. CASE EndSearch BY <1>4, <1>13, EndIs
<1> QED BY <1>1, <1>5, <1>8, <1>9, <1>10, <1>11, <1>12, <1>13 DEF PathNext, AnswerAtOnce
\* What the search keeps while it runs, and what it leaves when it has ended.
SearchInv ==
  /\ PathsInv
  /\ RowsDiffer
  /\ Breadth => InLevels /\ InOrder /\ Noticed /\ OnceEach /\ NoneLost /\ Ended
  /\ AsksFor("paths") /\ search = "searched" =>
       /\ question.from = question.to => found = <<Start(question.from)>>
       /\ question.from # question.to /\ question.provider \in Compiled =>
            IsInjective(found)
              /\ (FoundPaths = Matching(Candidates) \/ Cardinality(Candidates) > PoolSize)

\* A search begins with all of it.
LEMMA SearchBegins == Init => SearchInv
<1> SUFFICES ASSUME Init PROVE SearchInv OBVIOUS
<1> DEFINE from == question.from
           w == Start(from)
<1>1. PathsInv /\ question \in Question /\ question \in Questions BY PathsInit DEF PathsInv, Init
<1>2. RowsDiffer BY <1>1, QuestionAssumption DEF RowsDiffer
<1>3. /\ search = "searching" /\ queue = <<w>> /\ nextLevel = <<>> /\ current = w
      /\ level = {from} /\ at = Rows + 1 /\ seenAt = [e \in {from} |-> 0] /\ found = <<>>
  BY DEF Init, SearchInit
<1>4. ASSUME Breadth PROVE InLevels /\ InOrder /\ Noticed /\ OnceEach /\ NoneLost /\ Ended
  <2>1. from # question.to BY <1>4 DEF Breadth
  <2>2. w \in Walk BY <1>1, StartIsPartial
  <2>3. Len(w.entities) = 1 /\ End(w) = from BY DEF Start, End
  <2>4. question.stored \in Seq(Relationship) BY <1>1 DEF Question
  <2>5. Rows \in Nat BY <2>4 DEF Rows
  <2>6. Idle BY <1>3, <2>5 DEF Idle
  <2>7. Relationships \in SUBSET Relationship BY <1>1, QuestionIs
  <2> HIDE DEF w
  <2>8. /\ Len(queue) = 1 /\ queue[1] = w /\ Len(nextLevel) = 0
        /\ Pending = <<w>> /\ Len(Pending) = 1 /\ Pending[1] = w /\ Len(found) = 0
    BY <1>3, <2>2 DEF Pending
  <2>9. InLevels
    <3>1. LevelIs(1) BY <1>3, <2>1, <2>3, <2>6, <2>8 DEF LevelIs
    <3> QED BY <1>3, <3>1 DEF InLevels
  <2>10. InOrder
    <3>1. \A i \in 1..Len(Pending) : Len(Pending[i].entities) = 1 BY <2>3, <2>8
    <3>2. \A i \in 1..Len(found) : FALSE BY <2>8
    <3>3. Len(current.entities) = 1 BY <1>3, <2>3
    <3> HIDE DEF from
    <3>4. /\ \A i \in 1..Len(Pending) :
               /\ Len(Pending[i].entities) >= Len(current.entities)
               /\ Len(Pending[i].entities) <= Len(current.entities) + 1
          /\ \A i, j \in 1..Len(Pending) : i < j => Len(Pending[i].entities) <= Len(Pending[j].entities)
      <4>1. ASSUME NEW i \in 1..Len(Pending)
            PROVE  /\ Len(Pending[i].entities) >= Len(current.entities)
                   /\ Len(Pending[i].entities) <= Len(current.entities) + 1
        <5>1. Len(Pending[i].entities) = 1 BY <3>1
        <5> QED BY <3>3, <5>1
      <4>2. ASSUME NEW i \in 1..Len(Pending), NEW j \in 1..Len(Pending)
            PROVE  Len(Pending[i].entities) <= Len(Pending[j].entities)
        <5>1. Len(Pending[i].entities) = 1 /\ Len(Pending[j].entities) = 1 BY <3>1
        <5> QED BY <5>1
      <4> QED BY <4>1, <4>2
    <3>5. /\ \A i \in 1..Len(found) : Len(found[i].entities) <= Len(current.entities) + 1
          /\ \A i, j \in 1..Len(found) : i < j => Len(found[i].entities) <= Len(found[j].entities)
      BY <3>2
    <3> QED BY <3>4, <3>5 DEF InOrder
  <2>11. Noticed
    <3>1. Ways \in SUBSET (Entities \X Entities) BY <1>1, WaysAre
    <3>2. Reach(Ways, from)[0] = {from}
      <4> HIDE DEF from
      <4> QED BY <3>1, ReachIs
    <3>3. DOMAIN seenAt = {from} /\ seenAt[from] = 0 BY <1>3
    <3> QED BY <3>2, <3>3 DEF Noticed
  <2>12. OnceEach
    <3>1. Made = {w} BY <2>8 DEF Made
    <3>2. ASSUME NEW r \in Relationships PROVE Extend(w, r) # w
      <4>1. r \in Relationship /\ Len(w.entities) # 0 BY <2>3, <2>7
      <4>2. Len(Extend(w, r).entities) = Len(w.entities) + 1
        <5> HIDE DEF from
        <5> QED BY <2>2, <4>1, ExtendIs
      <4> QED BY <2>3, <4>2
    <3> QED BY <2>6, <2>8, <3>1, <3>2 DEF OnceEach
  <2>13. ASSUME NEW p \in ShortestPaths PROVE Kept(p)
    <3> DEFINE n == Len(p.relationships)
    <3>1. /\ p \in Walk /\ n \in Nat /\ Len(p.entities) = n + 1
          /\ p.entities[n + 1] = question.to /\ p.entities[1] = from
      BY <1>1, AlongPath
    <3>2. 1 \in 1..n /\ 1 \in 1..Len(p.entities) BY <2>1, <3>1
    <3>3. Prefix(p, 1) = w BY <3>1, <3>2, PrefixIs DEF w
    <3> QED BY <2>8, <3>2, <3>3 DEF Kept
  <2>14. NoneLost BY <2>13 DEF NoneLost
  <2>15. Ended BY <1>3 DEF Ended
  <2> QED BY <2>9, <2>10, <2>11, <2>12, <2>14, <2>15
<1> QED BY <1>1, <1>2, <1>3, <1>4 DEF SearchInv

\* Every step of every request keeps all of it.
LEMMA SearchStep == SearchInv /\ [Next]_vars => SearchInv'
<1> SUFFICES ASSUME SearchInv, [Next]_vars PROVE SearchInv' OBVIOUS
<1>1. question' = question BY SameGraph
<1>2. PathsInv /\ PathsInv' /\ RowsDiffer /\ question \in Question BY PathsStep DEF SearchInv, PathsInv
<1>3. RowsDiffer' BY <1>1, <1>2 DEF RowsDiffer
<1>4. Breadth' <=> Breadth BY <1>1 DEF Breadth, AsksFor
<1>5. CASE PathNext
  <2>1. search = "searching" BY <1>5 DEF PathNext, AnswerAtOnce, TakeNext, ReachTarget, Enqueue, PassOver, NextLevel, EndSearch, LookAtRow, Searching
  <2>2. ASSUME Breadth PROVE InLevels' /\ InOrder' /\ Noticed' /\ OnceEach' /\ NoneLost' /\ Ended'
    <3>1. InLevels /\ InOrder /\ Noticed /\ OnceEach /\ NoneLost /\ Ended BY <2>2 DEF SearchInv
    <3>2. InLevels' BY <1>1, <1>2, <1>5, <2>2, <3>1, InLevelsStep
    <3>3. InOrder' BY <1>1, <1>2, <1>5, <2>2, <3>1, InOrderStep
    <3>4. Noticed' BY <1>1, <1>2, <1>5, <2>2, <3>1, NoticedStep
    <3>5. OnceEach' BY <1>1, <1>2, <1>5, <2>2, <3>1, OnceEachStep
    <3>6. NoneLost' BY <1>1, <1>2, <1>5, <2>2, <3>1, NoneLostStep
    <3>7. Ended' BY <1>1, <1>2, <1>5, <2>2, <3>1, EndedStep
    <3> QED BY <3>2, <3>3, <3>4, <3>5, <3>6, <3>7
  <2>3. question.from = question.to /\ search' = "searched" => found' = <<Start(question.from)>>'
    BY <1>1, <1>5, <2>1 DEF PathNext, AnswerAtOnce, TakeNext, ReachTarget, Enqueue, PassOver, NextLevel, EndSearch, LookAtRow, Searching, Start
  <2>4. question.from # question.to /\ question.provider \in Compiled => search' = "searching"
    BY <1>5, <2>1 DEF PathNext, AnswerAtOnce, TakeNext, ReachTarget, Enqueue, PassOver, NextLevel, EndSearch, Compiled, BreadthFirst
  <2>5. (AsksFor("paths") /\ search = "searched" =>
          /\ question.from = question.to => found = <<Start(question.from)>>
          /\ question.from # question.to /\ question.provider \in Compiled =>
               IsInjective(found)
                 /\ (FoundPaths = Matching(Candidates) \/ Cardinality(Candidates) > PoolSize))'
    BY <1>1, <2>3, <2>4
  <2> QED BY <1>2, <1>3, <1>4, <2>2, <2>5 DEF SearchInv
<1>6. CASE ReadPool
  <2>1. question.from # question.to /\ question.provider \in Compiled BY <1>6 DEF ReadPool, Searching
  <2>2. ~Breadth BY <2>1 DEF Breadth, Compiled, BreadthFirst
  <2>3. Matching(Candidates)' = Matching(Candidates) /\ Candidates' = Candidates /\ PoolSize' = PoolSize
    <3>1. Candidates' = Candidates /\ PoolSize' = PoolSize BY <1>1, SameSearch
    <3> QED BY <1>1, <3>1 DEF Matching, IsSimple, FitsBetween, Fits, End
  <2>4. IsInjective(found') /\ (FoundPaths' = Matching(Candidates) \/ Cardinality(Candidates) > PoolSize)
    BY <1>2, <1>6, PoolIsRead DEF FoundPaths
  <2> QED BY <1>1, <1>2, <1>3, <1>4, <2>1, <2>2, <2>3, <2>4 DEF SearchInv, IsInjective
<1>7. CASE UNCHANGED searchVars
  <2>1. UNCHANGED <<search, queue, nextLevel, current, level, at, seenAt, found>> BY <1>7 DEF searchVars
  <2>2. /\ Rows' = Rows /\ Wanted' = Wanted /\ Relationships' = Relationships
        /\ \A e : Fits(e)' <=> Fits(e)
        /\ \A a : RowAt(a)' = RowAt(a)
        /\ Ways' = Ways /\ ShortestPaths' = ShortestPaths
        /\ Candidates' = Candidates /\ PoolSize' = PoolSize
    BY <1>1, SameSearch
  <2>3. /\ Pending' = Pending /\ (Idle' <=> Idle) /\ Made' = Made BY <2>1, <2>2 DEF Pending, Idle, Made
  <2>4. \A a : OfferedAt(a)' <=> OfferedAt(a) BY <1>1, <2>1, <2>2 DEF OfferedAt
  <2>5. \A r : Awaits(r)' <=> Awaits(r) BY <2>1, <2>2, <2>4 DEF Awaits
  <2>6. InLevels => InLevels'
    <3>1. \A n : LevelIs(n)' <=> LevelIs(n) BY <1>1, <2>1, <2>3 DEF LevelIs
    <3> QED BY <1>1, <2>1, <3>1 DEF InLevels
  <2>7. InOrder => InOrder' BY <2>1, <2>3 DEF InOrder
  <2>8. Noticed => Noticed' BY <1>1, <2>1, <2>2 DEF Noticed
  <2>9. OnceEach => OnceEach' BY <2>1, <2>2, <2>3, <2>4 DEF OnceEach
  <2>10. NoneLost => NoneLost'
    <3>1. \A p : Kept(p)' <=> Kept(p) BY <2>1, <2>3, <2>5 DEF Kept
    <3> QED BY <2>2, <3>1 DEF NoneLost
  <2>11. Ended => Ended' BY <2>1, <2>2, <2>3 DEF Ended
  <2>12. Matching(Candidates)' = Matching(Candidates)
    BY <1>1, <2>2 DEF Matching, IsSimple, FitsBetween, Fits, End
  <2>13. (AsksFor("paths") /\ search = "searched" =>
          /\ question.from = question.to => found = <<Start(question.from)>>
          /\ question.from # question.to /\ question.provider \in Compiled =>
               IsInjective(found)
                 /\ (FoundPaths = Matching(Candidates) \/ Cardinality(Candidates) > PoolSize))'
    BY <1>1, <2>1, <2>2, <2>12 DEF SearchInv, AsksFor, FoundPaths, IsInjective, Start
  <2> QED BY <1>2, <1>3, <1>4, <2>6, <2>7, <2>8, <2>9, <2>10, <2>11, <2>13 DEF SearchInv
<1> QED BY <1>5, <1>6, <1>7 DEF Next, Answer, Finished, vars

\* The path from an entity to itself.
LEMMA OnlyPath ==
  ASSUME question \in Question, question.from = question.to
  PROVE  Paths = {Start(question.from)}
<1>1. Start(question.from) \in Paths BY StartIsPartial, PathsAre
<1>2. ASSUME NEW w \in Paths PROVE w = Start(question.from)
  <2> DEFINE n == Len(w.entities)
  <2>1. w \in Walk /\ IsPath(w) BY PathsAre
  <2>2. n \in Nat \ {0} /\ n = Len(w.relationships) + 1 /\ DOMAIN w.entities = 1..n
    BY <2>1 DEF IsPath, Joined, Walk
  <2>3. w.entities[1] = question.from /\ w.entities[n] = question.to BY <2>1 DEF IsPath, End
  <2>4. 1 \in 1..n /\ n \in 1..n BY <2>2
  <2>5. n = 1
    <3>1. IsSimple(w) BY <2>1 DEF IsPath
    <3> QED BY <2>2, <2>3, <2>4, <3>1 DEF IsSimple
  <2>6. Prefix(w, 1) = Start(w.entities[1]) /\ Prefix(w, 1) = w
    <3>1. 1 \in 1..Len(w.entities) /\ 1 = Len(w.entities) /\ Len(w.entities) = Len(w.relationships) + 1
      BY <2>2, <2>4, <2>5
    <3> HIDE DEF n
    <3> QED BY <2>1, <3>1, PrefixIs
  <2> QED BY <2>3, <2>6
<1> QED BY <1>1, <1>2

\* The rows that match are the paths.
LEMMA MatchingAre ==
  ASSUME question \in Question, question.from # question.to
  PROVE  Matching(Candidates) = Paths
<1>1. ASSUME NEW w \in Matching(Candidates) PROVE w \in Paths
  BY <1>1, MatchingArePaths, PathsAre
<1>2. ASSUME NEW w \in Paths PROVE w \in Matching(Candidates)
  <2> DEFINE n == Len(w.relationships)
  <2>1. w \in Walk /\ IsPath(w) BY PathsAre
  <2>2. /\ IsTrail(w, Passing, question.from, n) /\ Passing \in SUBSET Relationship
        /\ question.from \in Entities
    BY <2>1, PathIsTrail, CandidatesAre DEF Question
  <2>3. n \in Nat /\ Len(w.entities) = n + 1 /\ n <= question.maxDepth /\ question.maxDepth \in Nat
    BY <2>1 DEF IsPath, Joined, Walk, Question
  <2>4. n # 0 BY <2>1, <2>3 DEF IsPath, End
  <2>5. w \in Trails(Passing, question.from, n)
    <3> HIDE DEF n
    <3> QED BY <2>2, <2>3, WalkIsTrail
  <2>6. n \in (IF question.provider = "cosmos" THEN 0 ELSE 1)..question.maxDepth BY <2>3, <2>4
  <2>7. w \in Candidates BY <2>1, <2>5, <2>6, CandidatesAre DEF IsPath
  <2> QED BY <2>1, <2>7 DEF Matching, IsPath
<1> QED BY <1>1, <1>2

\* Whatever the graph, the options and the provider, a findPaths that has ended has found
\* no path twice and the right ones: all the shortest or, with the page full, none but
\* shortest ones, shorter ones first, by breadth-first search; all of them by a compiled
\* traversal whose pool holds all its rows.
THEOREM FindPathsIsComplete == Spec => []SearchIsComplete
<1>1. SearchInv => SearchIsComplete
  <2> SUFFICES ASSUME SearchInv, AsksFor("paths"), search = "searched"
               PROVE  /\ IsInjective(found)
                      /\ question.provider \in BreadthFirst =>
                           /\ \A i, j \in DOMAIN found : i < j => Len(found[i].entities) <= Len(found[j].entities)
                           /\ \/ ShortestPaths \subseteq FoundPaths
                              \/ Len(found) >= Wanted /\ FoundPaths \subseteq ShortestPaths
                      /\ question.provider \in Compiled =>
                           \/ FoundPaths = Paths
                           \/ Cardinality(Candidates) > PoolSize
    BY DEF SearchIsComplete
  <2>1. PathsInv /\ question \in Question /\ found \in Seq(Walk) /\ DOMAIN found = 1..Len(found)
    BY DEF SearchInv, PathsInv
  <2>2. CASE question.from = question.to
    <3>1. found = <<Start(question.from)>> BY <2>2 DEF SearchInv
    <3>2. DOMAIN found = {1} /\ found[1] = Start(question.from) BY <3>1
    <3>3. FoundPaths = Paths BY <2>1, <2>2, <3>2, OnlyPath DEF FoundPaths
    <3>4. IsInjective(found) BY <3>2 DEF IsInjective
    <3>5. \A i, j \in DOMAIN found : ~ (i < j) BY <3>2
    <3>6. ShortestPaths \subseteq FoundPaths BY <3>3 DEF ShortestPaths
    <3> QED BY <3>3, <3>4, <3>5, <3>6
  <2>3. CASE question.from # question.to /\ question.provider \in Compiled
    BY <2>1, <2>3, MatchingAre DEF SearchInv, Compiled, BreadthFirst
  <2>4. CASE question.from # question.to /\ question.provider \in BreadthFirst
    <3>1. InOrder /\ OnceEach /\ NoneLost /\ Ended BY <2>4 DEF SearchInv, Breadth
    <3>2. IsInjective(found) BY <2>1, <3>1 DEF OnceEach, IsInjective
    <3>3. \A i, j \in DOMAIN found : i < j => Len(found[i].entities) <= Len(found[j].entities)
      BY <2>1, <3>1 DEF InOrder
    <3>4. Idle /\ (Len(found) >= Wanted \/ Pending = <<>>) BY <3>1 DEF Ended
    <3>5. ASSUME NEW p \in ShortestPaths, p \notin FoundPaths
          PROVE  Len(found) >= Wanted /\ FoundPaths \subseteq ShortestPaths
      <4> DEFINE n == Len(p.relationships)
      <4>1. /\ p \in Walk /\ n \in Nat /\ Len(p.entities) = n + 1
        BY <2>1, AlongPath
      <4>2. Kept(p) /\ ~ \E i \in 1..Len(found) : found[i] = p
        BY <2>1, <3>1, <3>5 DEF NoneLost, FoundPaths
      <4>3. \A r : ~Awaits(r)
        <5>1. question.stored \in Seq(Relationship) BY <2>1 DEF Question
        <5>2. Rows \in Nat /\ at \in Nat BY <2>1, <5>1 DEF Rows, PathsInv
        <5> QED BY <3>4, <5>2 DEF Awaits, Idle
      <4>4. PICK m \in 1..n : \E i \in 1..Len(Pending) : Pending[i] = Prefix(p, m) BY <4>2, <4>3 DEF Kept
      <4>5. PICK i \in 1..Len(Pending) : Pending[i] = Prefix(p, m) BY <4>4
      <4>6. Len(Pending[i].entities) = m
        <5>1. m \in 1..Len(p.entities) BY <4>1
        <5> HIDE DEF n
        <5> QED BY <4>1, <4>5, <5>1, PrefixIs DEF n
      <4>7. Len(found) >= Wanted
        <5>1. Pending # <<>> BY <4>5
        <5> QED BY <3>4, <5>1
      <4>8. ASSUME NEW q \in FoundPaths PROVE q \in ShortestPaths
        <5>1. PICK j \in 1..Len(found) : q = found[j] BY <2>1 DEF FoundPaths
        <5>2. q \in Walk /\ IsPath(q) BY <2>1, <5>1 DEF PathsInv, AllPaths
        <5>3. q \in Paths BY <2>1, <5>2, PathsAre
        <5>4. /\ Len(q.relationships) \in Nat /\ Len(q.entities) = Len(q.relationships) + 1
          BY <5>2 DEF IsPath, Joined, Walk
        <5>5. Len(current.entities) \in Nat /\ Len(Pending[i].entities) \in Nat BY <2>1, <2>4, Sizes
        <5>6. Len(q.entities) <= Len(current.entities) + 1 /\ Len(Pending[i].entities) >= Len(current.entities)
          BY <3>1, <5>1 DEF InOrder
        <5>7. Len(q.relationships) <= n BY <4>1, <4>6, <5>4, <5>5, <5>6
        <5>8. \A w \in Paths : Len(w.relationships) \in Nat /\ n <= Len(w.relationships)
          <6>1. \A w \in Paths : n <= Len(w.relationships) BY DEF ShortestPaths
          <6>2. \A w \in Paths : w \in Walk BY <2>1, PathsAre
          <6>3. \A w \in Walk : Len(w.relationships) \in Nat BY DEF Walk
          <6> QED BY <6>1, <6>2, <6>3
        <5>9. \A w \in Paths : Len(q.relationships) <= Len(w.relationships) BY <4>1, <5>4, <5>7, <5>8
        <5> QED BY <5>3, <5>9 DEF ShortestPaths
      <4> QED BY <4>7, <4>8
    <3> QED BY <2>4, <3>2, <3>3, <3>5 DEF Compiled, BreadthFirst
  <2>5. question.provider \in BreadthFirst \/ question.provider \in Compiled BY <2>1 DEF Question
  <2> QED BY <2>2, <2>3, <2>4, <2>5
<1> QED BY <1>1, SearchBegins, SearchStep, PTL DEF Spec
=============================================================================
