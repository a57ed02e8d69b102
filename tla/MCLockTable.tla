---------------------------- MODULE MCLockTable ----------------------------
(***************************************************************************)
(* Model checking of the lock table: the deadlock verdict in every         *)
(* reachable table, and clients that behave as a blocking caller does.     *)
(***************************************************************************)
EXTENDS LockTable, DeadlockDfs

ASSUME ClientIsFinite == IsFiniteSet(Client)

\* All the orders in which Python may walk a set of clients.
Orders == SetToSeqs(Client)

\* deadlock_check with the keys in one order and all their sets in another.
Check(roots, order) == DeadlockCheck(table.waits, roots, [c \in Client |-> order])

\* The search of deadlock_check answers True exactly when the recorded
\* wait-for graph has a cycle, in whatever order it walks the edges
\* (lines 96-112, with visited shared between the roots).
DfsExact == \A roots, order \in Orders : Check(roots, order) <=> HasCycle(table.waits)

(***************************************************************************)
(* A client whose request is queued does nothing until it is served, and   *)
(* clients release only what they hold.                                    *)
(***************************************************************************)
Blocked(c) == \E r \in Resource : Queued(table, c, r)

BlockingNext ==
  \/ \E c \in Client, r \in Resource, m \in LockMode :
       ~Blocked(c) /\ AcquireCmd(c, r, m)
  \/ \E r \in Resource : \E h \in table.holders[r] :
       ~Blocked(h.client) /\ ReleaseCmd(r, h.token)

BlockingSpec == Init /\ [][BlockingNext]_table

\* Who really waits for whom now: a queued client for the present holders.
WaitsFor == [c \in Client |->
  UNION {HolderClients(table, r) : r \in {x \in Resource : Queued(table, c, x)}}]

\* docs/api_spec.yaml:92 "Detect deadlock in wait-for graph.": clients that
\* wait for one another in a circle are reported.
DeadlockDetected ==
  HasCycle(WaitsFor) => \A order \in Orders : Check(order, order)
=============================================================================
