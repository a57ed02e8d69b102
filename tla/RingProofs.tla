----------------------------- MODULE RingProofs -----------------------------
(***************************************************************************)
(* The ring for any peers, number of points, hashes, key and replica       *)
(* factor: the owners of a key are the peers whose points are nearest to   *)
(* it clockwise, nearest first, as many as are wanted or all.              *)
(***************************************************************************)
EXTENDS MCQueue, QueueProofs, SequenceTheorems, WellFoundedInduction

\* A set of numbers has a least one.
LEMMA LeastOne ==
  ASSUME NEW T, T \subseteq Nat, T # {}
  PROVE  \E j \in T : \A i \in T : j <= i
PROOF
<1>1. PICK j \in T : \A i \in T : <<i, j>> \notin OpToRel(<, Nat)
  BY NatLessThanWellFounded, WFMin
<1>2. \A i \in T : i \in Nat /\ j \in Nat /\ ~(i < j)
  BY <1>1 DEF OpToRel
<1>3. \A i \in T : j <= i
  BY <1>2
<1> QED
  BY <1>3

\* Induction from 0 to n.
LEMMA ByTurns ==
  ASSUME NEW n \in Nat, NEW S, 0 \in S,
         \A i \in 0 .. n : i + 1 <= n /\ i \in S => i + 1 \in S
  PROVE  \A i \in 0 .. n : i \in S
PROOF
<1>1. SUFFICES ASSUME NEW k \in 0 .. n, k \notin S PROVE FALSE
  OBVIOUS
<1> DEFINE T == {i \in 0 .. n : i \notin S}
<1>2. PICK j \in T : \A i \in T : j <= i
  <2>1. T \subseteq Nat /\ T # {}
    BY <1>1
  <2> HIDE DEF T
  <2> QED
    BY <2>1, LeastOne
<1>3. j # 0 /\ j - 1 \in 0 .. n /\ j - 1 \in S
  BY <1>2
<1> QED
  BY <1>2, <1>3

-----------------------------------------------------------------------------
(***************************************************************************)
(* The binary search.                                                      *)
(***************************************************************************)

\* The points are in the order of their hashes, and no two hashes are equal.
Sorted(points) ==
  /\ Len(points) \in Nat
  /\ \A i \in 1 .. Len(points) : points[i].hash \in Nat
  /\ \A i, j \in 1 .. Len(points) : i < j => points[i].hash < points[j].hash

\* The loop of the search: its recursive function exists.
LEMMA SearchTurns ==
  ASSUME NEW points, Len(points) \in Nat, NEW h
  PROVE  \E f : /\ f[0] = [lo |-> 1, hi |-> Len(points)]
                /\ \A i \in 1 .. Len(points) : f[i] = Halve(points, h, f[i - 1])
                /\ Search(points, h) = f[Len(points)].lo
PROOF
<1> DEFINE n == Len(points)
           first == [lo |-> 1, hi |-> n]
           Is(f, k) ==
             f = [i \in 0 .. k |-> IF i = 0 THEN first ELSE Halve(points, h, f[i - 1])]
           S == {k \in 0 .. n : \E f : Is(f, k)}
<1>1. 0 \in S
  <2> DEFINE f == [i \in 0 .. 0 |-> first]
             g == [i \in 0 .. 0 |-> IF i = 0 THEN first ELSE Halve(points, h, f[i - 1])]
  <2>1. \A i \in 0 .. 0 : f[i] = g[i]
    OBVIOUS
  <2>2. f = g
    BY <2>1
  <2>3. Is(f, 0)
    BY <2>2, Zenon
  <2> HIDE DEF Is, f
  <2> QED
    BY <2>3
<1>2. ASSUME NEW k \in 0 .. n, k + 1 <= n, k \in S
      PROVE  k + 1 \in S
  <2>1. PICK f : Is(f, k)
    BY <1>2
  <2> DEFINE g == [i \in 0 .. k + 1 |-> IF i = 0 THEN first ELSE Halve(points, h, f[i - 1])]
             e == [i \in 0 .. k + 1 |-> IF i = 0 THEN first ELSE Halve(points, h, g[i - 1])]
  <2>2. \A i \in 0 .. k : g[i] = f[i]
    <3>1. \A i \in 0 .. k : f[i] = IF i = 0 THEN first ELSE Halve(points, h, f[i - 1])
      BY <2>1
    <3>2. \A i \in 0 .. k : i \in 0 .. k + 1
      OBVIOUS
    <3> QED
      BY <3>1, <3>2
  <2>3. \A i \in 0 .. k + 1 : i # 0 => g[i - 1] = f[i - 1]
    <3>1. \A i \in 0 .. k + 1 : i # 0 => i - 1 \in 0 .. k
      OBVIOUS
    <3> QED
      BY <2>2, <3>1
  <2>4. \A i \in 0 .. k + 1 : g[i] = e[i]
    BY <2>3
  <2>5. g = e
    BY <2>4
  <2>6. Is(g, k + 1)
    BY <2>5, Zenon
  <2>7. k + 1 \in 0 .. n
    BY <1>2
  <2> HIDE DEF Is, g
  <2> QED
    BY <2>6, <2>7
<1>3. \E f : Is(f, n)
  <2>1. \A k \in 0 .. n : k \in S
    <3> HIDE DEF S
    <3> QED
      BY <1>1, <1>2, ByTurns
  <2> QED
    BY <2>1
<1>4. PICK f : f = CHOOSE x : Is(x, n)
  OBVIOUS
<1>5. Is(f, n)
  BY <1>3, <1>4
<1>6. Search(points, h) = f[n].lo
  BY <1>4 DEF Search
<1>7. f[0] = first /\ \A i \in 1 .. n : f[i] = Halve(points, h, f[i - 1])
  BY <1>5
<1> QED
  BY <1>6, <1>7

\* What is known while the search runs, after i turns.
Narrow(points, h, s, i) ==
  /\ s.lo \in 1 .. Len(points) + 1 /\ s.hi \in 0 .. Len(points)
  /\ s.lo <= s.hi + 1
  /\ s.hi - s.lo + 1 <= Len(points) - i
  /\ \A j \in 1 .. Len(points) :
       /\ j < s.lo => points[j].hash < h
       /\ j > s.hi => ~(points[j].hash < h)

\* A turn of the loop narrows the search.
LEMMA HalveNarrows ==
  ASSUME NEW points, Sorted(points), NEW h \in Nat, NEW i \in Nat, i + 1 <= Len(points),
         NEW s, Narrow(points, h, s, i), NEW t, t = Halve(points, h, s)
  PROVE  Narrow(points, h, t, i + 1)
PROOF
<1> DEFINE mid == (s.lo + s.hi) \div 2
<1>0. Len(points) \in Nat
  BY DEF Sorted
<1>1. CASE s.lo > s.hi
  <2>1. t = s
    BY <1>1 DEF Halve, Narrow
  <2>2. s.hi - s.lo + 1 <= Len(points) - (i + 1)
    BY <1>0, <1>1 DEF Narrow
  <2> QED
    BY <2>1, <2>2 DEF Narrow
<1>2. CASE s.lo <= s.hi
  <2>1. mid \in 1 .. Len(points) /\ s.lo <= mid /\ mid <= s.hi
    BY <1>0, <1>2 DEF Narrow
  <2>2. CASE Before(points[mid].hash, h)
    <3>1. t = [lo |-> mid + 1, hi |-> s.hi]
      BY <1>2, <2>2 DEF Halve, Narrow
    <3>2. t.lo = mid + 1 /\ t.hi = s.hi
      BY <3>1
    <3> HIDE DEF mid
    <3>3. \A j \in 1 .. Len(points) : j < mid + 1 => points[j].hash < h
      <4>1. PICK k \in 1 .. Len(points) : k = mid
        BY <2>1
      <4>2. points[k].hash < h
        BY <2>2, <4>1 DEF Before
      <4> TAKE j \in 1 .. Len(points)
      <4>3. j < k => points[j].hash < points[k].hash
        BY DEF Sorted
      <4>4. points[j].hash \in Nat /\ points[k].hash \in Nat
        BY DEF Sorted
      <4>5. j < mid + 1 => j = k \/ j < k
        BY <1>0, <4>1
      <4> QED
        BY <4>2, <4>3, <4>4, <4>5
    <3> QED
      BY <1>0, <1>2, <2>1, <3>2, <3>3 DEF Narrow
  <2>3. CASE ~Before(points[mid].hash, h)
    <3>1. t = [lo |-> s.lo, hi |-> mid - 1]
      BY <1>2, <2>3 DEF Halve, Narrow
    <3>2. t.lo = s.lo /\ t.hi = mid - 1
      BY <3>1
    <3> HIDE DEF mid
    <3>3. \A j \in 1 .. Len(points) : j > mid - 1 => ~(points[j].hash < h)
      <4>1. PICK k \in 1 .. Len(points) : k = mid
        BY <2>1
      <4>2. ~(points[k].hash < h)
        BY <2>3, <4>1 DEF Before
      <4> TAKE j \in 1 .. Len(points)
      <4>3. k < j => points[k].hash < points[j].hash
        BY DEF Sorted
      <4>4. points[j].hash \in Nat /\ points[k].hash \in Nat
        BY DEF Sorted
      <4>5. j > mid - 1 => j = k \/ k < j
        BY <1>0, <4>1
      <4> QED
        BY <4>2, <4>3, <4>4, <4>5
    <3> QED
      BY <1>0, <1>2, <2>1, <3>2, <3>3 DEF Narrow
  <2> QED
    BY <2>2, <2>3
<1> QED
  BY <1>0, <1>1, <1>2 DEF Narrow

\* The search finds the first point that is not before the key
\* (queue_service.py:37-43).
LEMMA SearchFinds ==
  ASSUME NEW points, Sorted(points), NEW h \in Nat, NEW lo, lo = Search(points, h)
  PROVE  /\ lo \in 1 .. Len(points) + 1
         /\ \A j \in 1 .. Len(points) : j < lo <=> points[j].hash < h
PROOF
<1> DEFINE n == Len(points)
<1>1. n \in Nat
  BY DEF Sorted
<1>2. PICK f : /\ f[0] = [lo |-> 1, hi |-> n]
               /\ \A i \in 1 .. n : f[i] = Halve(points, h, f[i - 1])
               /\ lo = f[n].lo
  BY <1>1, SearchTurns
<1> DEFINE S == {i \in 0 .. n : Narrow(points, h, f[i], i)}
<1>3. 0 \in S
  BY <1>1, <1>2 DEF Narrow
<1>4. ASSUME NEW i \in 0 .. n, i + 1 <= n, i \in S
      PROVE  i + 1 \in S
  <2>1. f[i + 1] = Halve(points, h, f[i])
    <3>1. i + 1 \in 1 .. n /\ (i + 1) - 1 = i
      BY <1>1, <1>4
    <3> QED
      BY <1>2, <3>1
  <2>2. Narrow(points, h, f[i], i) /\ i \in Nat
    BY <1>4
  <2>3. Narrow(points, h, f[i + 1], i + 1)
    BY <1>4, <2>1, <2>2, HalveNarrows
  <2> QED
    BY <1>1, <1>4, <2>3
<1>5. n \in S
  <2>1. n \in 0 .. n
    BY <1>1
  <2> HIDE DEF S
  <2> QED
    BY <1>1, <1>3, <1>4, <2>1, ByTurns
<1>6. Narrow(points, h, f[n], n)
  BY <1>5
<1>7. f[n].lo = f[n].hi + 1
  BY <1>1, <1>6 DEF Narrow
<1> QED
  BY <1>1, <1>2, <1>6, <1>7 DEF Narrow

-----------------------------------------------------------------------------
(***************************************************************************)
(* The points and the way round.                                           *)
(***************************************************************************)

Less(S, x) == {y \in S : y.hash < x.hash}

Ranked(S) ==
  [k \in 1 .. Cardinality(S) |-> CHOOSE x \in S : Cardinality({y \in S : y.hash < x.hash}) = k - 1]

\* A sort: the element with k - 1 smaller ones comes at the k-th place.
LEMMA SortedByRank ==
  ASSUME NEW S, IsFiniteSet(S), \A x \in S : x.hash \in Nat,
         \A x, y \in S : x.hash = y.hash => x = y,
         NEW points, points = Ranked(S)
  PROVE  /\ Sorted(points) /\ Len(points) = Cardinality(S)
         /\ \A k \in 1 .. Cardinality(S) : points[k] \in S
         /\ \A x \in S : \E k \in 1 .. Cardinality(S) : points[k] = x
PROOF
<1> DEFINE n == Cardinality(S)
           rank == [x \in S |-> Cardinality(Less(S, x))]
<1>1. n \in Nat
  BY FS_CardinalityType
<1>2. \A x \in S : IsFiniteSet(Less(S, x)) /\ Cardinality(Less(S, x)) \in 0 .. n - 1
  <2> TAKE x \in S
  <2>1. Less(S, x) \subseteq S /\ x \notin Less(S, x)
    BY DEF Less
  <2>2. IsFiniteSet(Less(S, x)) /\ Cardinality(Less(S, x)) <= n /\ Cardinality(Less(S, x)) # n
    <3>1. Less(S, x) \in SUBSET S /\ Less(S, x) # S
      BY <2>1
    <3> QED
      BY <3>1, FS_Subset
  <2> QED
    BY <1>1, <2>2, FS_CardinalityType
<1>3. \A x, y \in S : x.hash < y.hash => rank[x] < rank[y]
  <2> TAKE x, y \in S
  <2> HAVE x.hash < y.hash
  <2>1. Less(S, x) \subseteq Less(S, y) /\ x \in Less(S, y) /\ x \notin Less(S, x)
    BY DEF Less
  <2>2. /\ Cardinality(Less(S, x)) <= Cardinality(Less(S, y))
        /\ Cardinality(Less(S, x)) # Cardinality(Less(S, y))
    <3>1. Less(S, x) \in SUBSET Less(S, y) /\ Less(S, x) # Less(S, y)
      BY <2>1
    <3> QED
      BY <1>2, <3>1, FS_Subset
  <2> QED
    BY <1>1, <1>2, <2>2
<1>4. rank \in Injection(S, 0 .. n - 1)
  <2>1. \A x, y \in S : rank[x] = rank[y] => x = y
    <3> TAKE x, y \in S
    <3> HAVE rank[x] = rank[y]
    <3>1. rank[x] \in Nat /\ rank[y] \in Nat
      BY <1>1, <1>2
    <3>2. ~(x.hash < y.hash) /\ ~(y.hash < x.hash)
      BY <1>3, <3>1
    <3>3. x.hash = y.hash
      BY <3>2
    <3> QED
      BY <3>3
  <2>2. rank \in [S -> 0 .. n - 1]
    BY <1>2
  <2> QED
    BY <2>1, <2>2 DEF Injection, IsInjective
<1>5. rank \in Surjection(S, 0 .. n - 1)
  <2>1. IsFiniteSet(0 .. n - 1) /\ Cardinality(0 .. n - 1) = n
    BY <1>1, FS_Interval
  <2> HIDE DEF rank
  <2> QED
    BY <1>4, <2>1, FS_Injection
<1>6. \A k \in 1 .. n : points[k] \in S /\ rank[points[k]] = k - 1
  <2> TAKE k \in 1 .. n
  <2>1. k - 1 \in 0 .. n - 1
    BY <1>1
  <2>2. \E x \in S : rank[x] = k - 1
    <3> HIDE DEF rank
    <3> QED
      BY <1>5, <2>1 DEF Surjection
  <2>3. \E x \in S : Cardinality({y \in S : y.hash < x.hash}) = k - 1
    BY <2>2 DEF Less
  <2>4. points[k] = CHOOSE x \in S : Cardinality({y \in S : y.hash < x.hash}) = k - 1
    BY DEF Ranked
  <2>5. points[k] \in S /\ Cardinality({y \in S : y.hash < points[k].hash}) = k - 1
    BY <2>3, <2>4
  <2> QED
    BY <2>5 DEF Less
<1> HIDE DEF rank
<1>7. Len(points) = n
  <2>1. points \in [1 .. n -> S]
    <3> DEFINE Elem(k) == CHOOSE x \in S : Cardinality({y \in S : y.hash < x.hash}) = k - 1
    <3>1. points = [k \in 1 .. n |-> Elem(k)]
      BY DEF Ranked
    <3> HIDE DEF Elem, n
    <3>2. \A k \in 1 .. n : Elem(k) \in S
      BY <1>6, <3>1
    <3> QED
      BY <3>1, <3>2
  <2>2. points \in Seq(S)
    BY <1>1, <2>1, SeqDef
  <2>3. Len(points) \in Nat /\ 1 .. Len(points) = 1 .. n
    BY <2>1, <2>2, LenProperties
  <2> QED
    BY <1>1, <2>3
<1>8. \A i, j \in 1 .. n : i < j => points[i].hash < points[j].hash
  <2> TAKE i, j \in 1 .. n
  <2> HAVE i < j
  <2>1. PICK x \in S : x = points[i] /\ rank[x] = i - 1
    BY <1>6
  <2>2. PICK y \in S : y = points[j] /\ rank[y] = j - 1
    BY <1>6
  <2>3. ~(y.hash < x.hash)
    BY <1>3, <2>1, <2>2
  <2>4. y.hash # x.hash
    BY <2>1, <2>2
  <2> QED
    BY <2>1, <2>2, <2>3, <2>4
<1>9. \A x \in S : \E k \in 1 .. n : points[k] = x
  <2> TAKE x \in S
  <2>1. rank[x] \in 0 .. n - 1
    BY <1>4 DEF Injection
  <2> PICK k : k = rank[x] + 1
    OBVIOUS
  <2>2. k \in 1 .. n /\ k - 1 = rank[x]
    BY <1>1, <2>1
  <2>3. points[k] \in S /\ rank[points[k]] = rank[x]
    BY <1>6, <2>2
  <2>4. points[k] = x
    BY <1>4, <2>3 DEF Injection, IsInjective
  <2> QED
    BY <2>2, <2>4
<1> QED
  BY <1>1, <1>6, <1>7, <1>8, <1>9 DEF Sorted

\* Hashes are places on a circle, and no two points have the same.
Hashed(peers, place, vnodes, circle) ==
  /\ circle \in Nat
  /\ place \in [ToSet(peers) \X vnodes -> 0 .. circle - 1]
  /\ \A x, y \in ToSet(peers) \X vnodes : place[x] = place[y] => x = y

\* The points are those of the peers.
HasPoints(points, peers, place, vnodes) ==
  /\ \A k \in 1 .. Len(points) :
       \E p \in ToSet(peers), v \in vnodes :
         points[k].peer = p /\ points[k].hash = place[<<p, v>>]
  /\ \A p \in ToSet(peers), v \in vnodes :
       \E k \in 1 .. Len(points) : points[k].peer = p /\ points[k].hash = place[<<p, v>>]

\* The ring has the points of all peers, in the order of their hashes
\* (queue_service.py:25-31).
LEMMA PointsSorted ==
  ASSUME NEW peers, NEW place, NEW vnodes, NEW circle, Hashed(peers, place, vnodes, circle),
         NEW points, points = Points(peers, place, vnodes)
  PROVE  Sorted(points) /\ HasPoints(points, peers, place, vnodes)
PROOF
<1> DEFINE At == ToSet(peers) \X vnodes
           S  == {[hash |-> place[x], peer |-> x[1]] : x \in At}
<1>1. \A y \in S : \E x \in At : y = [hash |-> place[x], peer |-> x[1]]
  OBVIOUS
<1>2. \A x \in At : place[x] \in 0 .. circle - 1
  BY DEF Hashed
<1>3. \A x \in S : x.hash \in 0 .. circle - 1
  BY <1>1, <1>2
<1>4. \A x, y \in S : x.hash = y.hash => x = y
  <2> TAKE x, y \in S
  <2> HAVE x.hash = y.hash
  <2>1. PICK a \in At : x = [hash |-> place[a], peer |-> a[1]]
    BY <1>1
  <2>2. PICK b \in At : y = [hash |-> place[b], peer |-> b[1]]
    BY <1>1
  <2>3. a = b
    BY <2>1, <2>2 DEF Hashed
  <2> QED
    BY <2>1, <2>2, <2>3
<1>5. \A x \in At : [hash |-> place[x], peer |-> x[1]] \in S
  OBVIOUS
<1>6. points = Ranked(S)
  BY DEF Points, Ranked
<1> HIDE DEF S
<1>7. IsFiniteSet(S)
  <2> DEFINE f == [x \in S |-> x.hash]
  <2>1. IsFiniteSet(0 .. circle - 1)
    BY FS_Interval DEF Hashed
  <2>2. f \in Injection(S, 0 .. circle - 1)
    BY <1>3, <1>4 DEF Injection, IsInjective
  <2> HIDE DEF f
  <2> QED
    BY <2>1, <2>2, FS_Injection
<1>8. \A x \in S : x.hash \in Nat
  BY <1>3 DEF Hashed
<1>9. /\ Sorted(points) /\ Len(points) = Cardinality(S)
      /\ \A k \in 1 .. Cardinality(S) : points[k] \in S
      /\ \A x \in S : \E k \in 1 .. Cardinality(S) : points[k] = x
  BY <1>4, <1>6, <1>7, <1>8, SortedByRank
<1>10. ASSUME NEW k \in 1 .. Len(points)
       PROVE  \E p \in ToSet(peers), v \in vnodes :
                points[k].peer = p /\ points[k].hash = place[<<p, v>>]
  <2>1. PICK x \in At : points[k] = [hash |-> place[x], peer |-> x[1]]
    BY <1>1, <1>9, <1>10
  <2>2. PICK p \in ToSet(peers), v \in vnodes : x = <<p, v>> /\ x[1] = p
    OBVIOUS
  <2>3. points[k].peer = p /\ points[k].hash = place[<<p, v>>]
    BY <2>1, <2>2
  <2> QED
    BY <2>3
<1>11. ASSUME NEW p \in ToSet(peers), NEW v \in vnodes
       PROVE  \E k \in 1 .. Len(points) : points[k].peer = p /\ points[k].hash = place[<<p, v>>]
  <2> PICK x : x = <<p, v>>
    OBVIOUS
  <2>1. x \in At /\ x[1] = p
    OBVIOUS
  <2>2. PICK k \in 1 .. Len(points) : points[k] = [hash |-> place[x], peer |-> x[1]]
    <3>1. [hash |-> place[x], peer |-> x[1]] \in S
      BY <1>5, <2>1
    <3> QED
      BY <1>9, <3>1
  <2> QED
    BY <2>1, <2>2
<1> QED
  BY <1>9, <1>10, <1>11 DEF HasPoints

\* The k-th point of the way round is the one at position at[k]: every point
\* comes once, and each is further from the key than the one before.
GoesRound(points, h, circle, at) ==
  /\ \A k \in 1 .. Len(points) :
       at[k] \in 1 .. Len(points) /\ RoundFrom(points, h)[k] = points[at[k]].peer
  /\ \A i \in 1 .. Len(points) : \E k \in 1 .. Len(points) : at[k] = i
  /\ \A j, k \in 1 .. Len(points) :
       j < k => Clockwise(points[at[j]].hash, h, circle)
                  < Clockwise(points[at[k]].hash, h, circle)

\* The walk starts at the first point that is not before the key, or at the
\* first of all, and comes round to it (queue_service.py:44-52).
LEMMA RoundIsClockwise ==
  ASSUME NEW points, Sorted(points), NEW circle \in Nat, NEW h \in 0 .. circle - 1,
         \A k \in 1 .. Len(points) : points[k].hash \in 0 .. circle - 1
  PROVE  \E at : GoesRound(points, h, circle, at)
PROOF
<1>1. PICK n \in Nat : n = Len(points)
  BY DEF Sorted
<1>2. PICK lo : lo = Search(points, h)
  OBVIOUS
<1>3. lo \in 1 .. n + 1 /\ \A j \in 1 .. n : j < lo <=> points[j].hash < h
  <2>1. h \in Nat
    OBVIOUS
  <2> QED
    BY <1>1, <1>2, <2>1, SearchFinds
<1>4. PICK idx : idx = IF lo <= n THEN lo ELSE 1
  OBVIOUS
<1>5. PICK at : at = [k \in 1 .. n |-> IF idx + k - 1 <= n THEN idx + k - 1 ELSE idx + k - 1 - n]
  OBVIOUS
<1>6. \A k \in 1 .. n : idx \in 1 .. n
  BY <1>3, <1>4
<1>7. \A k \in 1 .. n :
        /\ at[k] = IF idx + k - 1 <= n THEN idx + k - 1 ELSE idx + k - 1 - n
        /\ at[k] \in 1 .. n
  <2> TAKE k \in 1 .. n
  <2>1. at[k] = IF idx + k - 1 <= n THEN idx + k - 1 ELSE idx + k - 1 - n
    BY <1>5
  <2>2. CASE idx + k - 1 <= n
    BY <1>6, <2>1, <2>2
  <2>3. CASE ~(idx + k - 1 <= n)
    BY <1>6, <2>1, <2>3
  <2> QED
    BY <2>1, <2>2, <2>3
<1>8. \A k \in 1 .. n : RoundFrom(points, h)[k] = points[at[k]].peer
  BY <1>1, <1>2, <1>4, <1>7 DEF RoundFrom
<1>9. ASSUME NEW i \in 1 .. n
      PROVE  \E k \in 1 .. n : at[k] = i
  <2>1. PICK k : k = IF idx <= i THEN i - idx + 1 ELSE i - idx + 1 + n
    OBVIOUS
  <2>2. idx \in 1 .. n
    BY <1>6
  <2>3. CASE idx <= i
    <3>1. k = i - idx + 1 /\ k \in 1 .. n /\ idx + k - 1 = i
      BY <2>1, <2>2, <2>3
    <3> QED
      BY <1>7, <3>1
  <2>4. CASE ~(idx <= i)
    <3>1. k = i - idx + 1 + n /\ k \in 1 .. n
      BY <2>1, <2>2, <2>4
    <3>2. ~(idx + k - 1 <= n) /\ idx + k - 1 - n = i
      BY <2>2, <3>1
    <3>3. at[k] = i
      BY <1>7, <3>1, <3>2
    <3> QED
      BY <3>1, <3>3
  <2> QED
    BY <2>3, <2>4
<1>10. ASSUME NEW j \in 1 .. n, NEW k \in 1 .. n, j < k
       PROVE  Clockwise(points[at[j]].hash, h, circle) < Clockwise(points[at[k]].hash, h, circle)
  <2>1. PICK a \in 1 .. n : a = at[j]
    BY <1>7
  <2>2. PICK b \in 1 .. n : b = at[k]
    BY <1>7
  <2>3. PICK x \in 0 .. circle - 1 : x = points[a].hash
    BY <1>1
  <2>4. PICK y \in 0 .. circle - 1 : y = points[b].hash
    BY <1>1
  <2>5. /\ a < b => x < y
        /\ a < lo <=> x < h
        /\ b < lo <=> y < h
    BY <1>1, <1>3, <2>3, <2>4 DEF Sorted
  <2>6. \/ a < b /\ (a < lo <=> b < lo)
        \/ a >= lo /\ b < lo
    BY <1>3, <1>4, <1>6, <1>7, <1>10, <2>1, <2>2
  <2>7. Clockwise(x, h, circle) < Clockwise(y, h, circle)
    BY <2>5, <2>6, <1>3 DEF Clockwise
  <2> QED
    BY <2>1, <2>2, <2>3, <2>4, <2>7
<1>11. GoesRound(points, h, circle, at)
  BY <1>1, <1>7, <1>8, <1>9, <1>10 DEF GoesRound
<1> QED
  BY <1>11

-----------------------------------------------------------------------------
(***************************************************************************)
(* The walk collects peers.                                                *)
(***************************************************************************)

\* The loop of the walk: its recursive function exists.
LEMMA WalkTurns ==
  ASSUME NEW points, Len(points) \in Nat, NEW h, NEW r
  PROVE  \E f : /\ f[0] = << >>
                /\ \A k \in 1 .. Len(points) :
                     f[k] = Meet(f[k - 1], RoundFrom(points, h)[k], r)
                /\ RingOwners(points, h, r) = f[Len(points)]
PROOF
<1> DEFINE n == Len(points)
           round == RoundFrom(points, h)
           Is(f, k) ==
             f = [i \in 0 .. k |-> IF i = 0 THEN << >> ELSE Meet(f[i - 1], round[i], r)]
           S == {k \in 0 .. n : \E f : Is(f, k)}
<1>1. 0 \in S
  <2> DEFINE f == [i \in 0 .. 0 |-> << >>]
             g == [i \in 0 .. 0 |-> IF i = 0 THEN << >> ELSE Meet(f[i - 1], round[i], r)]
  <2>1. \A i \in 0 .. 0 : f[i] = g[i]
    OBVIOUS
  <2>2. f = g
    BY <2>1
  <2>3. Is(f, 0)
    BY <2>2, Zenon
  <2> HIDE DEF Is, f
  <2> QED
    BY <2>3
<1>2. ASSUME NEW k \in 0 .. n, k + 1 <= n, k \in S
      PROVE  k + 1 \in S
  <2>1. PICK f : Is(f, k)
    BY <1>2
  <2> DEFINE g == [i \in 0 .. k + 1 |-> IF i = 0 THEN << >> ELSE Meet(f[i - 1], round[i], r)]
             e == [i \in 0 .. k + 1 |-> IF i = 0 THEN << >> ELSE Meet(g[i - 1], round[i], r)]
  <2>2. \A i \in 0 .. k : g[i] = f[i]
    <3>1. \A i \in 0 .. k : f[i] = IF i = 0 THEN << >> ELSE Meet(f[i - 1], round[i], r)
      BY <2>1
    <3>2. \A i \in 0 .. k : i \in 0 .. k + 1
      OBVIOUS
    <3> QED
      BY <3>1, <3>2
  <2>3. \A i \in 0 .. k + 1 : i # 0 => g[i - 1] = f[i - 1]
    <3>1. \A i \in 0 .. k + 1 : i # 0 => i - 1 \in 0 .. k
      OBVIOUS
    <3> QED
      BY <2>2, <3>1
  <2>4. \A i \in 0 .. k + 1 : g[i] = e[i]
    BY <2>3
  <2>5. g = e
    BY <2>4
  <2>6. Is(g, k + 1)
    BY <2>5, Zenon
  <2>7. k + 1 \in 0 .. n
    BY <1>2
  <2> HIDE DEF Is, g
  <2> QED
    BY <2>6, <2>7
<1>3. \E f : Is(f, n)
  <2>1. \A k \in 0 .. n : k \in S
    <3> HIDE DEF S
    <3> QED
      BY <1>1, <1>2, ByTurns
  <2> QED
    BY <2>1
<1>4. PICK f : f = CHOOSE x : Is(x, n)
  OBVIOUS
<1>5. Is(f, n)
  BY <1>3, <1>4
<1>6. RingOwners(points, h, r) = f[n]
  BY <1>4 DEF RingOwners
<1>7. f[0] = << >> /\ \A i \in 1 .. n : f[i] = Meet(f[i - 1], round[i], r)
  BY <1>5
<1> QED
  BY <1>6, <1>7

\* What the walk has found after k points: different peers, each of which was
\* first met when only those before it had been.
Found(out, round, k, r) ==
  /\ Len(out) \in 0 .. Wanted(r)
  /\ \A i, j \in 1 .. Len(out) : out[i] = out[j] => i = j
  /\ \A i \in 1 .. Len(out) : \E f \in 1 .. k :
       round[f] = out[i] /\ \A g \in 1 .. f - 1 : \E j \in 1 .. i - 1 : round[g] = out[j]
  /\ Len(out) < Wanted(r) => \A g \in 1 .. k : \E j \in 1 .. Len(out) : round[g] = out[j]

\* One more point.
LEMMA MeetFinds ==
  ASSUME NEW Peer, NEW out \in Seq(Peer), NEW round, NEW k \in Nat, NEW r \in Int,
         Found(out, round, k, r), round[k + 1] \in Peer,
         NEW new, new = Meet(out, round[k + 1], r)
  PROVE  new \in Seq(Peer) /\ Found(new, round, k + 1, r)
PROOF
<1>1. Wanted(r) \in Nat
  BY DEF Wanted
<1>2. CASE Len(out) < Wanted(r) /\ ~Contains(out, round[k + 1])
  <2>1. new = Append(out, round[k + 1])
    BY <1>2 DEF Meet
  <2>2. PICK m \in Nat : m = Len(out)
    OBVIOUS
  <2>3. /\ new \in Seq(Peer) /\ Len(new) = m + 1
        /\ \A i \in 1 .. m : new[i] = out[i]
        /\ new[m + 1] = round[k + 1]
    BY <2>1, <2>2
  <2>4. \A i \in 1 .. m : out[i] # round[k + 1]
    BY <1>2, <2>2 DEF Contains
  <2>5. \A g \in 1 .. k : \E j \in 1 .. m : round[g] = out[j]
    BY <1>2, <2>2 DEF Found
  <2>6. \A i \in 1 .. m + 1 : i \in 1 .. m \/ i = m + 1
    OBVIOUS
  <2>7. \A i, j \in 1 .. m + 1 : new[i] = new[j] => i = j
    <3>1. \A i, j \in 1 .. m : out[i] = out[j] => i = j
      BY <2>2 DEF Found
    <3> QED
      BY <2>3, <2>4, <2>6, <3>1
  <2>8. ASSUME NEW i \in 1 .. m + 1
        PROVE  \E f \in 1 .. k + 1 :
                 round[f] = new[i]
                 /\ \A g \in 1 .. f - 1 : \E j \in 1 .. i - 1 : round[g] = new[j]
    <3>1. CASE i = m + 1
      <4>1. \A g \in 1 .. k : \E j \in 1 .. m : round[g] = new[j]
        BY <2>3, <2>5
      <4>2. k + 1 \in 1 .. k + 1 /\ (k + 1) - 1 = k /\ i - 1 = m
        BY <3>1
      <4>3. round[k + 1] = new[i]
        BY <2>3, <3>1
      <4>4. \A g \in 1 .. (k + 1) - 1 : \E j \in 1 .. i - 1 : round[g] = new[j]
        BY <4>1, <4>2
      <4> QED
        BY <4>2, <4>3, <4>4
    <3>2. CASE i \in 1 .. m
      <4>1. PICK f \in 1 .. k : /\ round[f] = out[i]
                                /\ \A g \in 1 .. f - 1 : \E j \in 1 .. i - 1 : round[g] = out[j]
        BY <2>2, <3>2 DEF Found
      <4>2. \A j \in 1 .. i - 1 : j \in 1 .. m
        BY <3>2
      <4>3. \A g \in 1 .. f - 1 : \E j \in 1 .. i - 1 : round[g] = new[j]
        BY <2>3, <4>1, <4>2
      <4>4. f \in 1 .. k + 1 /\ round[f] = new[i]
        BY <2>3, <3>2, <4>1
      <4> QED
        BY <4>3, <4>4
    <3> QED
      BY <2>6, <3>1, <3>2
  <2>9. \A g \in 1 .. k + 1 : \E j \in 1 .. m + 1 : round[g] = new[j]
    <3>1. \A g \in 1 .. k + 1 : g \in 1 .. k \/ g = k + 1
      OBVIOUS
    <3>2. \A g \in 1 .. k : \E j \in 1 .. m : round[g] = new[j]
      BY <2>3, <2>5
    <3>3. m + 1 \in 1 .. m + 1 /\ \A j \in 1 .. m : j \in 1 .. m + 1
      OBVIOUS
    <3> QED
      BY <2>3, <3>1, <3>2, <3>3
  <2> QED
    BY <1>1, <1>2, <2>2, <2>3, <2>7, <2>8, <2>9 DEF Found
<1>3. CASE ~(Len(out) < Wanted(r) /\ ~Contains(out, round[k + 1]))
  <2>1. new = out
    BY <1>3 DEF Meet
  <2>2. \A f \in 1 .. k : f \in 1 .. k + 1
    OBVIOUS
  <2>3. Len(out) < Wanted(r) => \A g \in 1 .. k + 1 : \E j \in 1 .. Len(out) : round[g] = out[j]
    <3>1. \A g \in 1 .. k + 1 : g \in 1 .. k \/ g = k + 1
      OBVIOUS
    <3> QED
      BY <1>3, <3>1 DEF Found, Contains
  <2> QED
    BY <2>1, <2>2, <2>3 DEF Found
<1> QED
  BY <1>2, <1>3

\* What the walk returns (queue_service.py:45-53).
LEMMA WalkFinds ==
  ASSUME NEW Peer, NEW points, Len(points) \in Nat, NEW h, NEW r \in Int,
         NEW round, round = RoundFrom(points, h),
         \A k \in 1 .. Len(points) : round[k] \in Peer
  PROVE  /\ RingOwners(points, h, r) \in Seq(Peer)
         /\ Found(RingOwners(points, h, r), round, Len(points), r)
PROOF
<1>1. PICK n \in Nat : n = Len(points)
  OBVIOUS
<1>2. PICK f : /\ f[0] = << >>
               /\ \A k \in 1 .. n : f[k] = Meet(f[k - 1], round[k], r)
               /\ RingOwners(points, h, r) = f[n]
  BY <1>1, WalkTurns
<1> DEFINE S == {k \in 0 .. n : f[k] \in Seq(Peer) /\ Found(f[k], round, k, r)}
<1>3. 0 \in S
  <2> PICK e : e = << >>
    OBVIOUS
  <2>1. e \in Seq(Peer) /\ Len(e) = 0
    OBVIOUS
  <2>2. Wanted(r) \in Nat
    BY DEF Wanted
  <2>3. 1 .. Len(e) = {} /\ 1 .. 0 = {}
    BY <2>1
  <2>4. Len(e) \in 0 .. Wanted(r)
    BY <2>1, <2>2
  <2>5. Found(e, round, 0, r)
    <3>1. \A i, j \in 1 .. Len(e) : e[i] = e[j] => i = j
      BY <2>3
    <3>2. \A i \in 1 .. Len(e) : \E g \in 1 .. 0 :
            round[g] = e[i] /\ \A x \in 1 .. g - 1 : \E j \in 1 .. i - 1 : round[x] = e[j]
      BY <2>3
    <3>3. \A g \in 1 .. 0 : \E j \in 1 .. Len(e) : round[g] = e[j]
      BY <2>3
    <3> QED
      BY <2>4, <3>1, <3>2, <3>3 DEF Found
  <2>6. f[0] = e
    BY <1>2
  <2>7. 0 \in 0 .. n
    OBVIOUS
  <2> QED
    BY <2>1, <2>5, <2>6, <2>7
<1>4. ASSUME NEW k \in 0 .. n, k + 1 <= n, k \in S
      PROVE  k + 1 \in S
  <2>1. f[k + 1] = Meet(f[k], round[k + 1], r) /\ round[k + 1] \in Peer
    <3>1. k + 1 \in 1 .. n /\ (k + 1) - 1 = k
      BY <1>4
    <3> QED
      BY <1>1, <1>2, <3>1
  <2>2. f[k] \in Seq(Peer) /\ Found(f[k], round, k, r) /\ k \in Nat
    BY <1>4
  <2>3. f[k + 1] \in Seq(Peer) /\ Found(f[k + 1], round, k + 1, r)
    BY <2>1, <2>2, MeetFinds
  <2> QED
    BY <1>4, <2>3
<1>5. n \in S
  <2>1. n \in 0 .. n
    OBVIOUS
  <2> HIDE DEF S
  <2> QED
    BY <1>3, <1>4, <2>1, ByTurns
<1> QED
  BY <1>1, <1>2, <1>5

-----------------------------------------------------------------------------
(***************************************************************************)
(* The owners are the nearest peers.                                       *)
(***************************************************************************)

\* The walk comes to p at its f-th point, and not before.
FirstAt(round, f, p) == round[f] = p /\ \A g \in 1 .. f - 1 : round[g] # p

\* The first point of a peer on the way round is its nearest one.
LEMMA FirstIsNearest ==
  ASSUME NEW peers, NEW place, NEW vnodes, NEW circle, Hashed(peers, place, vnodes, circle),
         NEW h \in 0 .. circle - 1,
         NEW points, points = Points(peers, place, vnodes),
         NEW at, GoesRound(points, h, circle, at),
         NEW p \in ToSet(peers), NEW f \in 1 .. Len(points),
         FirstAt(RoundFrom(points, h), f, p)
  PROVE  Distance(p, place, vnodes, h, circle) = Clockwise(points[at[f]].hash, h, circle)
PROOF
<1> DEFINE CW(x) == Clockwise(x, h, circle)
<1>1. PICK n \in Nat : n = Len(points)
  BY PointsSorted DEF Sorted
<1>2. PICK round : round = RoundFrom(points, h)
  OBVIOUS
<1>3. at[f] \in 1 .. n /\ points[at[f]].peer = p
  BY <1>1 DEF GoesRound, FirstAt
<1>4. PICK v \in vnodes : points[at[f]].hash = place[<<p, v>>]
  <2>1. \A k \in 1 .. n : \E q \in ToSet(peers), v \in vnodes :
          points[k].peer = q /\ points[k].hash = place[<<q, v>>]
    <3>1. HasPoints(points, peers, place, vnodes)
      BY PointsSorted
    <3> QED
      BY <1>1, <3>1 DEF HasPoints
  <2>2. PICK k \in 1 .. n : k = at[f]
    BY <1>3
  <2>3. PICK q \in ToSet(peers), v \in vnodes :
          points[k].peer = q /\ points[k].hash = place[<<q, v>>]
    BY <2>1
  <2> QED
    BY <1>3, <2>2, <2>3
<1>5. \A w \in vnodes : place[<<p, w>>] \in 0 .. circle - 1
  <2> TAKE w \in vnodes
  <2> PICK x : x = <<p, w>>
    OBVIOUS
  <2>1. x \in ToSet(peers) \X vnodes
    OBVIOUS
  <2> QED
    BY <2>1 DEF Hashed
<1>6. circle \in Nat
  BY DEF Hashed
<1>7. \A w \in vnodes : CW(place[<<p, w>>]) \in 0 .. circle - 1
  <2> TAKE w \in vnodes
  <2> PICK x \in 0 .. circle - 1 : x = place[<<p, w>>]
    BY <1>5
  <2>1. Clockwise(x, h, circle) \in 0 .. circle - 1
    BY <1>6 DEF Clockwise
  <2> QED
    BY <2>1
<1>8. ASSUME NEW w \in vnodes
      PROVE  CW(place[<<p, w>>]) >= CW(place[<<p, v>>])
  <2>1. PICK k \in 1 .. n : points[k].peer = p /\ points[k].hash = place[<<p, w>>]
    <3>1. HasPoints(points, peers, place, vnodes)
      BY PointsSorted
    <3> QED
      BY <1>1, <3>1 DEF HasPoints
  <2>2. PICK g \in 1 .. n : at[g] = k
    BY <1>1 DEF GoesRound
  <2>3. round[g] = p
    BY <1>1, <1>2, <2>1, <2>2 DEF GoesRound
  <2>4. g >= f
    <3>1. SUFFICES ASSUME g < f PROVE FALSE
      BY <1>1
    <3>2. g \in 1 .. f - 1
      BY <1>1, <3>1
    <3> QED
      BY <1>2, <2>3, <3>2 DEF FirstAt
  <2>5. CASE g = f
    BY <1>4, <1>7, <2>1, <2>2, <2>5
  <2>6. CASE f < g
    <3>1. CW(points[at[f]].hash) < CW(points[at[g]].hash)
      BY <1>1, <2>6 DEF GoesRound
    <3>2. CW(place[<<p, v>>]) < CW(place[<<p, w>>])
      BY <1>4, <2>1, <2>2, <3>1
    <3> HIDE DEF CW
    <3> QED
      BY <1>7, <3>2
  <2> QED
    BY <1>1, <2>4, <2>5, <2>6
<1> DEFINE Far(d) == /\ \E w \in vnodes : CW(place[<<p, w>>]) = d
                     /\ \A w \in vnodes : CW(place[<<p, w>>]) >= d
<1>9. PICK d : d = CW(place[<<p, v>>])
  OBVIOUS
<1>10. Distance(p, place, vnodes, h, circle) = CHOOSE x \in 0 .. circle - 1 : Far(x)
  BY DEF Distance
<1>11. d \in 0 .. circle - 1 /\ Far(d)
  BY <1>7, <1>8, <1>9
<1>12. ASSUME NEW x \in 0 .. circle - 1, Far(x)
       PROVE  x = d
  <2>1. d >= x
    BY <1>9, <1>12
  <2>2. x >= d
    <3>1. PICK w \in vnodes : CW(place[<<p, w>>]) = x
      BY <1>12
    <3> QED
      BY <1>8, <1>9, <3>1
  <2> QED
    BY <1>6, <1>11, <2>1, <2>2
<1> HIDE DEF Far
<1>13. (CHOOSE x \in 0 .. circle - 1 : Far(x)) = d
  BY <1>11, <1>12
<1> QED
  BY <1>4, <1>9, <1>10, <1>13

\* No owner comes at the same point as another, nor further on than a later one.
LEMMA OwnersInOrder ==
  ASSUME NEW out, NEW round, NEW n \in Nat, NEW r, Wanted(r) \in Nat, Found(out, round, n, r)
  PROVE  \E at : \A i \in 1 .. Len(out) :
           /\ at[i] \in 1 .. n /\ FirstAt(round, at[i], out[i])
           /\ \A g \in 1 .. at[i] - 1 : \E j \in 1 .. i - 1 : round[g] = out[j]
           /\ \A j \in 1 .. i - 1 : at[j] < at[i]
PROOF
<1>1. PICK m \in Nat : m = Len(out)
  BY DEF Found
<1> DEFINE First(i, f) ==
             /\ f \in 1 .. n /\ round[f] = out[i]
             /\ \A g \in 1 .. f - 1 : \E j \in 1 .. i - 1 : round[g] = out[j]
<1>2. PICK at : at = [i \in 1 .. m |-> CHOOSE f : First(i, f)]
  OBVIOUS
<1>3. \A i \in 1 .. m : First(i, at[i])
  <2> TAKE i \in 1 .. m
  <2>1. \E f : First(i, f)
    BY <1>1 DEF Found
  <2> HIDE DEF First
  <2> QED
    BY <1>2, <2>1
<1>4. \A i, j \in 1 .. m : out[i] = out[j] => i = j
  BY <1>1 DEF Found
<1>5. \A i \in 1 .. m : at[i] \in 1 .. n /\ round[at[i]] = out[i]
  BY <1>3
<1>6. \A i \in 1 .. m : \A g \in 1 .. at[i] - 1 : \E j \in 1 .. i - 1 : round[g] = out[j]
  BY <1>3
<1>7. ASSUME NEW i \in 1 .. m
      PROVE  FirstAt(round, at[i], out[i])
  <2>1. ASSUME NEW g \in 1 .. at[i] - 1, round[g] = out[i] PROVE FALSE
    <3>1. PICK j \in 1 .. i - 1 : round[g] = out[j]
      BY <1>6
    <3>2. j \in 1 .. m /\ j # i
      OBVIOUS
    <3> QED
      BY <1>4, <2>1, <3>1, <3>2
  <2> QED
    BY <1>5, <2>1 DEF FirstAt
<1>8. ASSUME NEW i \in 1 .. m, NEW j \in 1 .. i - 1
      PROVE  at[j] < at[i]
  <2>1. j \in 1 .. m /\ j # i
    OBVIOUS
  <2>2. PICK a \in 1 .. n : a = at[i]
    BY <1>5
  <2>3. PICK b \in 1 .. n : b = at[j]
    BY <1>5, <2>1
  <2>4. a # b
    BY <1>4, <1>5, <2>1, <2>2, <2>3
  <2>5. ASSUME a < b PROVE FALSE
    <3>1. a \in 1 .. at[j] - 1
      BY <2>3, <2>5
    <3>2. PICK l \in 1 .. j - 1 : round[a] = out[l]
      BY <1>6, <2>1, <3>1
    <3>3. l \in 1 .. m /\ l # i
      BY <2>1
    <3> QED
      BY <1>4, <1>5, <2>2, <3>2, <3>3
  <2> QED
    BY <2>2, <2>3, <2>4, <2>5
<1> QED
  BY <1>1, <1>5, <1>6, <1>7, <1>8

\* For any peers, points, key and replica factor, the owners of a key are the
\* nearest peers clockwise, nearest first: as many as are wanted, or all of them
\* (queue_service.py:25-53).
THEOREM OwnersAreNearest ==
  ASSUME NEW X, NEW peers \in Seq(X), NEW place, NEW vnodes, vnodes # {},
         NEW circle, Hashed(peers, place, vnodes, circle),
         NEW h \in 0 .. circle - 1, NEW r \in Int
  PROVE  AreNearest(RingOwners(Points(peers, place, vnodes), h, r),
                    peers, place, vnodes, h, r, circle)
PROOF
<1> DEFINE all == ToSet(peers)
           Dist(p) == Distance(p, place, vnodes, h, circle)
<1>1. PICK points : points = Points(peers, place, vnodes)
  OBVIOUS
<1>2. Sorted(points) /\ HasPoints(points, peers, place, vnodes)
  BY <1>1, PointsSorted
<1>3. PICK n \in Nat : n = Len(points)
  BY <1>2 DEF Sorted
<1>4. PICK round : round = RoundFrom(points, h)
  OBVIOUS
<1>5. PICK out : out = RingOwners(points, h, r)
  OBVIOUS
<1>6. circle \in Nat
  BY DEF Hashed
<1>7. \A k \in 1 .. n : points[k].hash \in 0 .. circle - 1 /\ points[k].peer \in all
  <2> TAKE k \in 1 .. n
  <2>1. PICK p \in all, v \in vnodes : points[k].peer = p /\ points[k].hash = place[<<p, v>>]
    BY <1>2, <1>3 DEF HasPoints
  <2> PICK x : x = <<p, v>>
    OBVIOUS
  <2>2. x \in all \X vnodes
    OBVIOUS
  <2> QED
    BY <2>1, <2>2 DEF Hashed
<1>8. PICK at : GoesRound(points, h, circle, at)
  BY <1>2, <1>3, <1>6, <1>7, RoundIsClockwise
<1>9. \A k \in 1 .. n : round[k] \in all
  BY <1>3, <1>4, <1>7, <1>8 DEF GoesRound
<1>10. out \in Seq(all) /\ Found(out, round, n, r)
  BY <1>3, <1>4, <1>5, <1>9, WalkFinds
<1>11. PICK m \in Nat : m = Len(out)
  BY <1>10
<1>12. Wanted(r) \in Nat
  BY DEF Wanted
<1>13. PICK of : \A i \in 1 .. m :
         /\ of[i] \in 1 .. n /\ FirstAt(round, of[i], out[i])
         /\ \A g \in 1 .. of[i] - 1 : \E j \in 1 .. i - 1 : round[g] = out[j]
         /\ \A j \in 1 .. i - 1 : of[j] < of[i]
  BY <1>10, <1>11, <1>12, OwnersInOrder
<1>14. \A p \in all : \E f \in 1 .. n : FirstAt(round, f, p)
  <2> TAKE p \in all
  <2> DEFINE T == {f \in 1 .. n : round[f] = p}
  <2>1. T # {}
    <3>1. PICK v \in vnodes : TRUE
      OBVIOUS
    <3>2. PICK k \in 1 .. n : points[k].peer = p
      BY <1>2, <1>3 DEF HasPoints
    <3>3. PICK f \in 1 .. n : at[f] = k
      BY <1>3, <1>8 DEF GoesRound
    <3>4. round[f] = p
      BY <1>3, <1>4, <1>8, <3>2, <3>3 DEF GoesRound
    <3> QED
      BY <3>4
  <2>2. T \subseteq Nat
    OBVIOUS
  <2>3. PICK f \in T : \A g \in T : f <= g
    <3> HIDE DEF T
    <3> QED
      BY <2>1, <2>2, LeastOne
  <2>4. \A g \in 1 .. f - 1 : g \in 1 .. n /\ ~(f <= g)
    OBVIOUS
  <2>5. FirstAt(round, f, p)
    BY <2>3, <2>4 DEF FirstAt
  <2> QED
    BY <2>5
<1>15. ASSUME NEW p \in all, NEW f \in 1 .. n, FirstAt(round, f, p)
       PROVE  Dist(p) = Clockwise(points[at[f]].hash, h, circle)
  BY <1>1, <1>3, <1>4, <1>8, <1>15, FirstIsNearest
<1>16. ASSUME NEW p \in all, NEW f \in 1 .. n, FirstAt(round, f, p),
              NEW q \in all, NEW g \in 1 .. n, FirstAt(round, g, q)
       PROVE  Dist(p) < Dist(q) <=> f < g
  <2> DEFINE CW(k) == Clockwise(points[at[k]].hash, h, circle)
  <2>1. Dist(p) = CW(f) /\ Dist(q) = CW(g)
    BY <1>15, <1>16
  <2>2. /\ f < g => CW(f) < CW(g)
        /\ g < f => CW(g) < CW(f)
    BY <1>3, <1>8 DEF GoesRound
  <2>3. \A k \in 1 .. n : CW(k) \in Nat
    <3> TAKE k \in 1 .. n
    <3>1. at[k] \in 1 .. n
      BY <1>3, <1>8 DEF GoesRound
    <3>2. PICK x \in 0 .. circle - 1 : x = points[at[k]].hash
      BY <1>7, <3>1
    <3>3. Clockwise(x, h, circle) \in Nat
      BY <1>6 DEF Clockwise
    <3> QED
      BY <3>2, <3>3
  <2> HIDE DEF CW
  <2>4. CW(f) \in Nat /\ CW(g) \in Nat
    BY <2>3
  <2>5. f = g \/ f < g \/ g < f
    OBVIOUS
  <2> HIDE DEF Dist
  <2> QED
    BY <2>1, <2>2, <2>4, <2>5
<1>17. \A i \in 1 .. m : out[i] \in all
  BY <1>10, <1>11
<1>18. ASSUME NEW i \in 1 .. m, NEW p \in all
       PROVE  Dist(p) < Dist(out[i]) <=> \E j \in 1 .. i - 1 : out[j] = p
  <2>1. PICK g \in 1 .. n : g = of[i] /\ FirstAt(round, g, out[i])
    BY <1>13
  <2>2. PICK f \in 1 .. n : FirstAt(round, f, p)
    BY <1>14
  <2>3. Dist(p) < Dist(out[i]) <=> f < g
    BY <1>16, <1>17, <2>1, <2>2
  <2>4. ASSUME f < g PROVE \E j \in 1 .. i - 1 : out[j] = p
    <3>1. f \in 1 .. of[i] - 1
      BY <2>1, <2>4
    <3> QED
      BY <1>13, <2>2, <3>1 DEF FirstAt
  <2>5. ASSUME NEW j \in 1 .. i - 1, out[j] = p PROVE f < g
    <3>1. j \in 1 .. m
      OBVIOUS
    <3>2. PICK e \in 1 .. n : e = of[j] /\ FirstAt(round, e, p) /\ e < g
      BY <1>13, <2>1, <2>5, <3>1
    <3>3. f <= e
      <4>1. SUFFICES ASSUME e < f PROVE FALSE
        OBVIOUS
      <4>2. e \in 1 .. f - 1
        BY <4>1
      <4> QED
        BY <2>2, <3>2, <4>2 DEF FirstAt
    <3> QED
      BY <3>2, <3>3
  <2> QED
    BY <2>3, <2>4, <2>5
<1>19. PICK c \in Nat : IsFiniteSet(all) /\ c = Cardinality(all)
  <2>1. PICK l \in Nat : l = Len(peers) /\ DOMAIN peers = 1 .. l
    OBVIOUS
  <2>2. all = {peers[i] : i \in 1 .. l}
    BY <2>1 DEF ToSet
  <2>3. IsFiniteSet(1 .. l)
    BY FS_Interval
  <2>4. peers \in Surjection(1 .. l, all)
    BY <2>1, <2>2 DEF Surjection
  <2> QED
    BY <2>3, <2>4, FS_Surjection, FS_CardinalityType
<1>20. IsFiniteSet(1 .. m) /\ Cardinality(1 .. m) = m
  BY FS_Interval
<1>21. m <= Wanted(r) /\ m <= c
  <2>1. out \in Injection(1 .. m, all)
    BY <1>10, <1>11, <1>17 DEF Found, Injection, IsInjective
  <2> HIDE DEF all
  <2> QED
    BY <1>10, <1>11, <1>12, <1>19, <1>20, <2>1, FS_Injection DEF Found
<1>22. m < Wanted(r) => m = c
  <2> HAVE m < Wanted(r)
  <2>1. ASSUME NEW p \in all PROVE \E j \in 1 .. m : p = out[j]
    <3>1. \A g \in 1 .. n : \E j \in 1 .. m : round[g] = out[j]
      BY <1>10, <1>11 DEF Found
    <3>2. PICK f \in 1 .. n : round[f] = p
      BY <1>14 DEF FirstAt
    <3> QED
      BY <3>1, <3>2
  <2>2. out \in Surjection(1 .. m, all)
    BY <1>10, <1>11, <1>17, <2>1 DEF Surjection
  <2> HIDE DEF all
  <2> QED
    BY <1>19, <1>20, <1>21, <2>2, FS_Surjection
<1>23. Len(out) = IF Wanted(r) <= Cardinality(all) THEN Wanted(r) ELSE Cardinality(all)
  BY <1>11, <1>12, <1>19, <1>21, <1>22
<1> QED
  BY <1>1, <1>5, <1>11, <1>17, <1>18, <1>23 DEF AreNearest

-----------------------------------------------------------------------------
(***************************************************************************)
(* The nodes of the queue.                                                 *)
(***************************************************************************)

\* A node is among its peers, whether or not its configuration names it
\* (queue_service.py:138-142).
LEMMA SamePeers ==
  ASSUME NEW n \in MCNode
  PROVE  /\ PeersOf(n, Configured(n)) \in Seq(ToSet(Peers))
         /\ ToSet(PeersOf(n, Configured(n))) = ToSet(Peers)
PROOF
<1>1. PICK P : P = {queue_a, queue_b, queue_c}
  OBVIOUS
<1>2. Peers \in Seq(P) /\ ToSet(Peers) = P
  BY <1>1 DEF Peers, ToSet
<1>3. n \in P
  BY <1>1 DEF MCNode
<1>4. Configured(n) \in Seq(P) /\ ToSet(Configured(n)) \cup {n} = P
  <2>1. CASE n = queue_a
    BY <1>2, <1>3, <2>1 DEF Configured
  <2>2. CASE n # queue_a
    <3>1. PICK s : s = <<queue_a, queue_c>>
      OBVIOUS
    <3>2. s \in Seq(P) /\ s[1] = queue_a /\ s[2] = queue_c /\ DOMAIN s = {1, 2}
      BY <1>1, <3>1
    <3>3. ToSet(s) = {queue_a, queue_c}
      BY <3>2 DEF ToSet
    <3>4. n = queue_b /\ Configured(n) = s
      BY <2>2, <3>1 DEF Configured, MCNode
    <3> QED
      BY <1>1, <3>2, <3>3, <3>4
  <2> QED
    BY <2>1, <2>2
<1>5. CASE Contains(Configured(n), n)
  <2>1. n \in ToSet(Configured(n))
    BY <1>5 DEF Contains, ToSet
  <2> QED
    BY <1>2, <1>4, <1>5, <2>1 DEF PeersOf
<1>6. CASE ~Contains(Configured(n), n)
  <2>1. PICK s \in Seq(P) : s = Configured(n)
    BY <1>4
  <2>2. PICK t : t = Append(s, n)
    OBVIOUS
  <2>3. /\ t \in Seq(P) /\ DOMAIN t = DOMAIN s \cup {Len(s) + 1}
        /\ \A i \in DOMAIN s : t[i] = s[i]
        /\ t[Len(s) + 1] = n
    BY <1>3, <2>2
  <2>4. ToSet(t) = ToSet(s) \cup {n}
    BY <2>3 DEF ToSet
  <2>5. PeersOf(n, Configured(n)) = t
    BY <1>6, <2>1, <2>2 DEF PeersOf
  <2> QED
    BY <1>2, <1>4, <2>1, <2>3, <2>4, <2>5
<1> QED
  BY <1>5, <1>6

\* Every node serves the owners that are nearest to the key, whether its
\* configuration names the node itself or not (queue_service.py:138-142, 174).
THEOREM OwnersAreExact ==
  ASSUME Node = MCNode
  PROVE  Spec => []OwnersExact
PROOF
<1>1. ASSUME NEW n \in MCNode PROVE RingIsExact[n]
  <2>1. PICK peers : peers = PeersOf(n, Configured(n))
    OBVIOUS
  <2>2. peers \in Seq(ToSet(Peers)) /\ ToSet(peers) = ToSet(Peers)
    BY <2>1, SamePeers
  <2>3. ASSUME NEW place \in Places2, NEW h \in 1 .. 7, NEW r \in {0, 2, 4}
        PROVE  AreNearest(RingOwners(Points(peers, place, {1, 2}), h, r),
                          Peers, place, {1, 2}, h, r, 8)
    <3>1. Hashed(peers, place, {1, 2}, 8)
      <4>1. place \in [ToSet(Peers) \X {1, 2} -> 1 .. 6] /\ IsInjective(place)
        BY DEF Places2
      <4>2. place \in [ToSet(peers) \X {1, 2} -> 0 .. 8 - 1]
        BY <2>2, <4>1
      <4> QED
        BY <2>2, <4>1, <4>2 DEF Hashed, IsInjective
    <3>2. h \in 0 .. 8 - 1 /\ r \in Int /\ 8 \in Nat /\ {1, 2} # {}
      OBVIOUS
    <3>3. AreNearest(RingOwners(Points(peers, place, {1, 2}), h, r),
                     peers, place, {1, 2}, h, r, 8)
      BY <2>2, <3>1, <3>2, OwnersAreNearest
    <3> QED
      BY <2>2, <3>3 DEF AreNearest
  <2> QED
    BY <2>1, <2>3 DEF RingIsExact
<1>2. TypeOK => OwnersExact
  BY <1>1 DEF TypeOK, OwnersExact
<1> QED
  BY <1>2, TypeCorrect, PTL
=============================================================================
