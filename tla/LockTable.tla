----------------------------- MODULE LockTable -----------------------------
(***************************************************************************)
(* The lock table as a state machine: any client may ask for any resource  *)
(* in any mode, any token may be released at any resource.  Commands reach *)
(* the table one at a time (RaftCore._apply_commits), so every call of     *)
(* LockTable.apply is one step.  deadlock_check changes nothing; it is the *)
(* operator DeadlockCheck of DeadlockDfs.tla.                              *)
(***************************************************************************)
EXTENDS LockOps, FiniteSetsExt, SequencesExt

CONSTANT MaxRequests   \* bound: acquire commands in one behaviour

ASSUME MaxRequestsIsNat == MaxRequests \in Nat

VARIABLE table

Init == table = EmptyTable

\* Every acquire either took a token or is still queued.
Requests == table.counter + MapThenSumSet(LAMBDA r : Len(table.queue[r]), Resource)

AcquireCmd(c, r, m) ==
  /\ Requests < MaxRequests
  /\ table' = Acquire(table, c, r, m)

\* Tokens are handed to clients, so any token given out so far may come back,
\* late, twice, or for another resource.
ReleaseCmd(r, tok) ==
  /\ tok \in 1 .. table.counter
  /\ table' = Release(table, r, tok)

Next ==
  \/ \E c \in Client, r \in Resource, m \in LockMode : AcquireCmd(c, r, m)
  \/ \E r \in Resource, tok \in 1 .. MaxRequests : ReleaseCmd(r, tok)

Spec == Init /\ [][Next]_table

\* The table as a readers-writer lock.
Abstract == INSTANCE RWLock WITH held <- Held(table), issued <- table.counter

(***************************************************************************)
(* Fairness is an assumption on the clients, not on the code: whoever      *)
(* holds a lock releases it in the end.  The table has no lease that would *)
(* do it for them.                                                         *)
(***************************************************************************)
HolderReleases(r, tok) ==
  /\ \E h \in table.holders[r] : h.token = tok
  /\ ReleaseCmd(r, tok)

FairSpec ==
  Spec /\ \A r \in Resource, tok \in 1 .. MaxRequests :
             WF_table(HolderReleases(r, tok))

-----------------------------------------------------------------------------

\* Type invariant of the table; tokens in use were handed out by the counter.
TypeOK == WellTyped(table)

\* Readers-writer exclusion: a resource held in exclusive mode has one holder,
\* and a resource has a mode exactly while it is held (lines 45-54 against
\* 68-94: the two ways in and the two ways a lock changes hands).
Exclusion == Excludes(table)

\* No wake-up is lost: somebody queues only behind a holder that the head of
\* the queue conflicts with, so the release of the last holder serves it
\* (lines 45-57 decide who queues, 70-94 who is woken).
HeadBlocked == HeadBlocks(table)

\* A token names one grant for ever: releasing it can never free somebody
\* else's lock, at this resource or another (lines 23-25, 68).
TokensUnique == UniqueTokens(table)

\* The wait-for graph has edges only for clients that queue somewhere: edges
\* never outlive the last queued request of their client (lines 31-35, 85, 93).
WaitersQueued == EdgesFromQueues(table)

\* A request leaves the queue only from its front and only by becoming a
\* holder with a token not used before; nothing overtakes inside the queue and
\* no request is dropped (lines 77-94).
ServedFromFront ==
  [][\A r \in Resource :
       LET q == table.queue[r]
       IN  \E n \in 0 .. Len(q) :
             /\ IsPrefix(SubSeq(q, n + 1, Len(q)), table'.queue[r])
             /\ \A i \in 1 .. n :
                  \E h \in table'.holders[r] :
                    h.client = q[i].client /\ h.token > table.counter]_table

\* The table is a readers-writer lock (RWLock): whatever is queued, every
\* command lets one client in, lets one holder go, or hands the resource from
\* its last holder to the next ones, always with new tokens (lines 37-94).
ImplementsRWLock == Abstract!Spec

\* Every queued request is served once no new request arrives, if holders
\* release what they hold (the bound on requests is what stops the arrivals:
\* shared requests that keep joining would hold off an exclusive one for ever).
WaitersServed ==
  \A c \in Client, r \in Resource : Queued(table, c, r) ~> ~Queued(table, c, r)
=============================================================================
