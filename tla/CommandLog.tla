----------------------------- MODULE CommandLog -----------------------------
(***************************************************************************)
(* What the replication core (src/consensus/raft.py) is for: a leader      *)
(* keeps one sequence of commands, the other nodes hold prefixes of it,    *)
(* and every node applies a prefix of what it holds.  This is the          *)
(* behaviour of RaftCore as long as one leader stays, whatever messages    *)
(* are lost or late and however many submits overlap; RaftLog.tla relates  *)
(* the two, and LockService.tla is built on this one.                      *)
(***************************************************************************)
EXTENDS Naturals, Sequences, FiniteSets

CONSTANTS Node,  \* the lock nodes
          Cmd,   \* commands, each submitted at most once
          None   \* no leader yet

ASSUME NoneLeadsNot == None \notin Node

VARIABLES leader,   \* the node that leads, or None
          order,    \* the leader's log
          have,     \* how much of it each node has
          applied,  \* how much of it each node has applied
          result    \* what submit answered, per command

logState == <<leader, order, have, applied, result>>

LogInit ==
  /\ leader  = None
  /\ order   = << >>
  /\ have    = [n \in Node |-> 0]
  /\ applied = [n \in Node |-> 0]
  /\ result  = [c \in Cmd |-> "none"]

Position(c) == CHOOSE i \in 1 .. Len(order) : order[i] = c

Submitted == {order[i] : i \in 1 .. Len(order)}

Majorities == {Q \in SUBSET Node : Cardinality(Q) * 2 > Cardinality(Node)}

\* The campaign of line 91 succeeds, before anything was submitted.
Elect(n) ==
  /\ leader = None
  /\ leader' = n
  /\ UNCHANGED <<order, have, applied, result>>

\* submit appends to the leader's log and starts its broadcast.
Submit(c) ==
  /\ leader # None
  /\ c \notin Submitted
  /\ order' = Append(order, c)
  /\ have'  = [have EXCEPT ![leader] = Len(order) + 1]
  /\ UNCHANGED <<leader, applied, result>>

(***************************************************************************)
(* A node accepts an append request of the leader: the next entry, if the  *)
(* request carries one, and what the leader had applied when it sent it.   *)
(***************************************************************************)
Receive(n) ==
  /\ leader \notin {None, n}
  /\ \E len \in {have[n], have[n] + 1}, done \in applied[n] .. applied[leader] :
       /\ len <= Len(order) /\ done <= len
       /\ have'    = [have EXCEPT ![n] = len]
       /\ applied' = [applied EXCEPT ![n] = done]
  /\ UNCHANGED <<leader, order, result>>

Pending(c) == c \in Submitted /\ result[c] = "none"

\* A majority took the entry: the leader applies all it has by now.
Succeed(c) ==
  /\ Pending(c)
  /\ \E Q \in Majorities : \A n \in Q : Position(c) <= have[n]
  /\ applied' = [applied EXCEPT ![leader] = Len(order)]
  /\ result'  = [result EXCEPT ![c] = "ok"]
  /\ UNCHANGED <<leader, order, have>>

\* Too few answers came in; the entry stays where it is.
Fail(c) ==
  /\ Pending(c)
  /\ result' = [result EXCEPT ![c] = "failed"]
  /\ UNCHANGED <<leader, order, have, applied>>

LogNext ==
  \/ \E n \in Node : Elect(n) \/ Receive(n)
  \/ \E c \in Cmd : Submit(c) \/ Succeed(c) \/ Fail(c)

LogSpec == LogInit /\ [][LogNext]_logState
=============================================================================
