------------------------------ MODULE MCQueue ------------------------------
(***************************************************************************)
(* Model checking of the queue: two owners as with QUEUE_REPLICA_FACTOR=2. *)
(***************************************************************************)
EXTENDS Queue, Ring, TLC

CONSTANTS queue_a, queue_b, queue_c

\* The three peers of docker/docker-compose.yml.  queue_c owns nothing here.
Peers  == <<queue_a, queue_b, queue_c>>
MCNode == {queue_a, queue_b}

\* The key lies before the points of queue_b, queue_a and queue_c.
MCPlace  == [x \in ToSet(Peers) \X {1} |->
               CASE x[1] = queue_a -> 7 [] x[1] = queue_b -> 5 [] x[1] = queue_c -> 9]
MCOwners == RingOwners(Points(Peers, MCPlace, {1}), 2, 2)

\* Messages and requests differ in name only.
Symmetry == Permutations(Msg) \cup Permutations(Consumer) \cup Permutations(Acker)

-----------------------------------------------------------------------------
\* Small rings: two points of each peer in every order, a key before each of
\* them and one behind all, replica factors from 0 to more than the peers.
Places2 == {f \in [ToSet(Peers) \X {1, 2} -> 1 .. 6] : IsInjective(f)}

\* queue_a finds all three peers in its configuration, queue_b only the others.
Configured(n) == IF n = queue_a THEN Peers ELSE <<queue_a, queue_c>>

RingIsExact ==
  [n \in MCNode |->
     \A place \in Places2 :
       LET points == Points(PeersOf(n, Configured(n)), place, {1, 2})
       IN  \A h \in 1 .. 7, r \in {0, 2, 4} :
             AreNearest(RingOwners(points, h, r), Peers, place, {1, 2}, h, r, 8)]

\* Whichever node a message is published at, and whether or not its list of
\* peers names the node itself, the owners it serves are the r different peers
\* next to the key on the circle (lines 36-53, 138-142, 174).
OwnersExact == \A m \in Msg : publish[m].node # None => RingIsExact[publish[m].node]

\* docs/architecture.md:89 "At-least-once delivery": a message that publish has
\* confirmed and nobody has received is still somewhere.
AtLeastOnce ==
  \A m \in Msg :
    publish[m].at = "done" /\ m \notin delivered =>
      \E o \in Owner : m \in inflight[o] \/ Places(o, m) # {}
=============================================================================
