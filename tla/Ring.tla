-------------------------------- MODULE Ring --------------------------------
(***************************************************************************)
(* The consistent hashing ring of src/dist_queue/queue_service.py, class   *)
(* Ring, as operators.  SHA-1 is a function: place gives the hash of the   *)
(* v-th point of a peer, h is the hash of topic and key.  Two hashes are   *)
(* taken to differ; the source breaks ties by the order of the peers.      *)
(*                                                                         *)
(* Positions count from 1, in the source from 0.  A loop is a function of  *)
(* the number of its turns.                                                *)
(***************************************************************************)
EXTENDS Naturals, Sequences, SequencesExt, FiniteSets

\* Ring(peers): the points of every peer, in the order of their hashes.
Points(peers, place, vnodes) ==
  LET S == {[hash |-> place[x], peer |-> x[1]] : x \in ToSet(peers) \X vnodes}
  IN  [k \in 1 .. Cardinality(S) |->
         CHOOSE x \in S : Cardinality({y \in S : y.hash < x.hash}) = k - 1]

\* A queue node's list of peers: the configured ones, and itself.
PeersOf(self, configured) ==
  IF Contains(configured, self) THEN configured ELSE Append(configured, self)

\* Mutant: a point at the very hash of the key is passed over.
NotAfter(x, h) == x <= h

Before(x, h) == x < h

\* One turn of the binary search between s.lo and s.hi.
Halve(points, h, s) ==
  LET mid == (s.lo + s.hi) \div 2
  IN  CASE s.lo > s.hi                                    -> s
        [] s.lo <= s.hi /\ Before(points[mid].hash, h)  -> [lo |-> mid + 1, hi |-> s.hi]
        [] s.lo <= s.hi /\ ~Before(points[mid].hash, h) -> [lo |-> s.lo, hi |-> mid - 1]

\* The binary search for the first point that is not before h.
Search(points, h) ==
  LET n == Len(points)
      turn[i \in 0 .. n] ==
        IF i = 0 THEN [lo |-> 1, hi |-> n] ELSE Halve(points, h, turn[i - 1])
  IN  turn[n].lo

\* The peers of all points, walking round from the key.
RoundFrom(points, h) ==
  LET n   == Len(points)
      lo  == Search(points, h)
      idx == IF lo <= n THEN lo ELSE 1
  IN  [k \in 1 .. n |->
         points[IF idx + k - 1 <= n THEN idx + k - 1 ELSE idx + k - 1 - n].peer]

Wanted(r) == IF r <= 0 THEN 1 ELSE r

Meet(out, p, r) == IF Len(out) < Wanted(r) /\ ~Contains(out, p) THEN Append(out, p) ELSE out

\* owners(topic, key, r): the first r peers met on the way round; an r of zero
\* or less is one.
RingOwners(points, h, r) ==
  LET n     == Len(points)
      round == RoundFrom(points, h)
      out[k \in 0 .. n] == IF k = 0 THEN << >> ELSE Meet(out[k - 1], round[k], r)
  IN  out[n]

-----------------------------------------------------------------------------
(***************************************************************************)
(* The reference: hashes are on a circle of so many places.                *)
(***************************************************************************)

\* How far clockwise of h the place x is.
Clockwise(x, h, circle) == IF h <= x THEN x - h ELSE x + circle - h

\* How far clockwise of h the nearest point of p is.
Distance(p, place, vnodes, h, circle) ==
  CHOOSE d \in 0 .. circle - 1 :
    /\ \E v \in vnodes : Clockwise(place[<<p, v>>], h, circle) = d
    /\ \A v \in vnodes : Clockwise(place[<<p, v>>], h, circle) >= d

\* As many peers as are wanted, or all, nearest first.
AreNearest(owners, peers, place, vnodes, h, r, circle) ==
  LET all        == ToSet(peers)
      Dist(p)    == Distance(p, place, vnodes, h, circle)
      Fewer(a,b) == IF a <= b THEN a ELSE b
  IN  /\ Len(owners) = Fewer(Wanted(r), Cardinality(all))
      /\ \A i \in 1 .. Len(owners) :
           /\ owners[i] \in all
           /\ \A p \in all : Dist(p) < Dist(owners[i]) <=> \E j \in 1 .. i - 1 : owners[j] = p
=============================================================================
