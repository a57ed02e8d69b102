------------------------------- MODULE RWLock -------------------------------
(***************************************************************************)
(* What the lock table promises its clients, without queues and waits: a   *)
(* readers-writer lock per resource, whose holders are told apart by       *)
(* numbers that are never given twice.                                     *)
(***************************************************************************)
EXTENDS Integers

CONSTANTS Client, Resource

VARIABLES held,    \* the locks held at each resource
          issued   \* the tokens handed out so far

Mode == {"shared", "exclusive"}

Init ==
  /\ held   = [r \in Resource |-> {}]
  /\ issued = 0

Lock(c, tok, m) == [client |-> c, token |-> tok, mode |-> m]

\* Readers share; a writer is alone.
Compatible(locks) ==
  \A l1, l2 \in locks : l1 # l2 => l1.mode = "shared" /\ l2.mode = "shared"

\* One client takes a free or a shared resource.
Take(r) ==
  /\ issued' = issued + 1
  /\ \E c \in Client, m \in Mode :
       LET l == Lock(c, issued + 1, m)
       IN  /\ Compatible(held[r] \cup {l})
           /\ held' = [held EXCEPT ![r] = @ \cup {l}]

\* One client leaves.
Give(r) ==
  /\ \E l \in held[r] : held' = [held EXCEPT ![r] = @ \ {l}]
  /\ UNCHANGED issued

\* The last holder leaves and hands the resource to one writer or to any
\* number of readers.
PassOn(r) ==
  /\ \E l \in held[r] : held[r] = {l}
  /\ issued' > issued
  /\ \E next \in [1 .. (issued' - issued) -> Client], m \in Mode :
       LET locks == {Lock(next[i], issued + i, m) : i \in 1 .. (issued' - issued)}
       IN  /\ Compatible(locks)
           /\ held' = [held EXCEPT ![r] = locks]

Next == \E r \in Resource : Take(r) \/ Give(r) \/ PassOn(r)

Spec == Init /\ [][Next]_<<held, issued>>
=============================================================================
