------------------------------ MODULE MCCache ------------------------------
(***************************************************************************)
(* Model checking of the cache: one trouble at a time, and healthy nodes   *)
(* whose puts come one after the other.                                    *)
(***************************************************************************)
EXTENDS Cache, TLC

CONSTANTS cache_a, cache_b, x, y, p1, p2   \* the members of Node, Key and Proc

-----------------------------------------------------------------------------
(***************************************************************************)
(* Two keys for one place, two requests at a time, a fault: a behaviour    *)
(* has one of the three troubles.                                          *)
(***************************************************************************)

Idle == \A p \in Proc : op[p] = IdleOp

OneKey ==
  /\ redis[y] = Absent
  /\ \A p \in Proc : op[p] # IdleOp => op[p].key # y
  /\ \A n \in Node : CopiesOf(cache[n], y) = {}

OneRequest == op[p2] = IdleOp

Healthy == faults = 0

OneTrouble ==
  \/ OneKey /\ Healthy
  \/ OneKey /\ OneRequest
  \/ Healthy /\ OneRequest

\* Nodes and requests differ in name only: p2 is used while p1 is under way, and
\* the first request of all goes to cache_a.  The key y, there to push x out of
\* its place and to be pushed out, is put without a TTL.
Named ==
  /\ op[p2] = IdleOp /\ op'[p2] # IdleOp => op[p1] # IdleOp
  /\ Idle /\ Healthy /\ writes = 0 /\ op' # op => op'[p1].node = cache_a
  /\ ~redis'[y].ttl

\* A node that has its own message to read reads it next: this changes nothing
\* but the channel.
OwnFirst ==
  LET own(n) == channel[n] # << >> /\ Head(channel[n]).from = n
  IN  (\E n \in Node : own(n)) => \E n \in Node : own(n) /\ Deliver(n)

MCSpec ==
  /\ Init /\ [][Next /\ OneTrouble' /\ Named /\ OwnFirst]_vars
  /\ \A p \in Proc : WF_vars(Step(p))
  /\ \A n \in Node : WF_vars(Deliver(n))

-----------------------------------------------------------------------------

\* Nodes and requests differ in name only.
Symmetry == Permutations(Node) \cup Permutations(Proc)

\* Puts come one after the other, as in the test below; gets come any time.
OnePut ==
  \A p, q \in Proc :
    op[p].at \in {"store", "publish"} /\ op[q].at \in {"store", "publish"} => p = q

OnePutSpec == Init /\ [][Next /\ OnePut']_vars

Quiet == Idle /\ (\A n \in Node : channel[n] = << >>)

\* tests/integration/test_cache_coherence.py:83 polls a second node until it
\* answers with the value put last: once every request has ended and every
\* invalidation has been read, no node holds an older value.
Coherent == Quiet => \A n \in Node, k \in Key : ~Stale(n, k)
=============================================================================
