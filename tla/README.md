# A TLA+ model of the distributed synchronization system

These modules model the coordination code under `src/src` of the repository: the lock
manager with its Raft replication and its HTTP handlers, the distributed queue with its
hash ring, the distributed cache and the PBFT agreement. TLC checks them on small
instances, and TLAPS proves theorems about all of them for every instance. Line numbers below
refer to files under `src/src`.

## 1. The system

Every container runs `app.py` in one role: three lock nodes, three queue nodes, three
cache nodes, three PBFT nodes and a gateway, plus one Redis. Every process is a single
asyncio event loop, so code between two `await`s is atomic in its process, and everything
that goes wrong goes wrong across an `await`.

| Component | State | Operations | Talks to |
|---|---|---|---|
| Lock table (`lock/lock_service.py` 17-114) | per resource mode, holders with tokens, queue; wait-for edges; token counter | acquire, release, deadlock_check | called by Raft's apply |
| Lock service (117-251) | futures by request id | acquire/release/deadlock handlers, search for the leader, relayed calls | Raft submit, other nodes over HTTP |
| Raft (`consensus/raft.py`) | term, vote, log, commit and applied index, role, all in memory | election loop, heartbeat loop, submit, two RPC handlers | peers over HTTP with timeouts, lock table |
| Queue (`dist_queue/queue_service.py` 56-249) | in Redis: payloads, owners sets, per owner a ready and an inflight set | publish, consume, ack, reaper | Redis, owners over HTTP |
| Ring (`dist_queue/queue_service.py` 19-53) | the sorted points of the peers | owners | called by the queue's handlers |
| Cache (`cache/cache_service.py`) | per node an LRU of copies; values and TTLs in Redis | put, get, invalidation listener | Redis, Redis pub/sub |
| PBFT (`consensus/pbft.py`) | prepared, committed, decided per digest | request, prepare, commit | peers over HTTP |
| Geo router, balancer, audit log, config, crypto, metrics | small, or a file | minima, moving averages, counters, appends | |

What is hard, and what makes each component correct:

* **Lock table.** Three ways to become a holder and a queue that only a release looks at.
  Correct: it is a readers-writer lock with numbered holders; no lost wake-up, order of the
  queue, edges that belong to waiting clients, an exact cycle search.
* **Lock service.** A call crosses one or two handlers, a submit and a future that a later
  call may replace; each of them may fail or end late. Correct: what a client is told about
  a lock is true of the replicated table, every call is answered, and no lock goes to
  somebody who did not ask.
* **Raft.** Votes and acknowledgements are counted over several awaits while the handlers
  of the same node change term, role, log and commit index; requests may be late, replies
  lost, callers time out, processes restart with nothing. Correct: one vote per term and
  life, leaders with a majority, and, while the first term lasts, one log of which every
  node has and applies a prefix.
* **Queue.** Every operation is a series of Redis commands that cross with those of other
  tasks, and any process may end between two of them. Correct: a copy is in one place,
  only an ack removes it, payloads outlive copies, acks are final, expired messages return.
* **Ring.** A binary search and a walk around a circle. Correct: the owners are the nearest
  different peers, as many as asked for.
* **Cache.** Redis, the local copy and the invalidation are changed in three separate
  steps. Correct: a copy that differs from Redis is about to go; copies expire with their key.
* **PBFT.** Broadcasts whose results are discarded, commits that come before the prepares,
  timeouts that end a wait while the calls go on. Correct: what is decided has reached a
  majority, a decision spreads, a client is answered, and with what its node knows.

`PROJECT.json` lists the hazards, each with its line and the properties that watch it.

## 2. The modules

| Module | Models | Lines of the source |
|---|---|---|
| `LockOps` | `LockTable.apply` as operators on a table value | lock_service 17-94 |
| `LockTable` | the table as a state machine, its properties, its fairness | lock_service 37-114 |
| `RWLock` | abstract: a readers-writer lock with numbered holders | |
| `DeadlockDfs` | `deadlock_check` and its reference, reachability | lock_service 96-112 |
| `MCLockTable` | TLC instance: search orders, blocking clients | |
| `LockOpsProofs` | lemmas about the operations of the table, and the lock steps they are | |
| `LockTableProofs` | theorems about `LockTable`; it implements `RWLock`; the deadlock search is exact | |
| `Raft` | `RaftCore` of every node, and the network | raft.py 14-201 |
| `CommandLog` | abstract: one leader's sequence of commands and its followers' prefixes | |
| `RaftLog` | Raft seen as a `CommandLog`, what holds in its first term, and its fairness | |
| `MCRaft` | TLC instance: `lock_a`, `lock_b`, `lock_c` | |
| `RaftProofs` | theorems about `Raft`: votes, histories, elections, the log of the first term; it implements `CommandLog` | |
| `LockService` | handlers, `LockRsm`, search for the leader, over `CommandLog` and `LockOps` | lock_service 117-251 |
| `MCLockService` | TLC instance: two nodes, two clients | |
| `LockServiceProofs` | theorems about `LockService` | |
| `Ring` | class `Ring` as operators, and its reference | queue_service 19-53, 138-142 |
| `RingProofs` | theorems about `Ring`, and about the owners in `MCQueue` | |
| `Queue` | Redis sets, publish, consume, reaper and ack tasks | queue_service 72-247 |
| `MCQueue` | TLC instance: owners from the ring; all small rings | |
| `QueueProofs` | theorems about `Queue` | |
| `Cache`, `MCCache` | Redis, copies, listeners, requests in progress | cache_service 19-173 |
| `CacheProofs` | theorems about `Cache` | |
| `Pbft` | `PbftNode` of every node, and the network | pbft.py 26-113 |
| `PbftProofs` | theorems about `Pbft` | |

**How they fit together.** A lock node is `LockService` over `Raft` over the network, with
`LockOps` as the state machine. The product of the two is out of TLC's reach, so they meet at
an interface: `CommandLog` says what a log with one leader does, the run `raft` shows that
`Raft` implements it in its first term (`ImplementsLog`, a refinement under the mapping
`RaftLog!Abstract`) and `RaftProofs` proves it for any cluster, and `LockService` EXTENDS it,
so that every step of a handler that submits, succeeds, fails or applies is a step of that
log. `LockTable` in turn implements
`RWLock`. The owners of `Queue` are computed by `Ring`.

**How the code maps to actions.**

* `LockOps`/`LockTable`: `apply` never awaits, so one call is one action. `Acquire` has the
  code's two early returns (`Grantable`) and the queueing (`Enqueue`); `Release` drops the
  token, and when the last holder is gone `HandOver` serves an exclusive head alone or the
  run of shared requests at the front (`Served`). Tokens are numbers. `AcquireCmd` allows
  any client, resource and mode, `ReleaseCmd` any token handed out so far at any resource:
  nothing in the code ties a client to its requests. The mode `None` of a resource without
  holders is the constant `Free`.
* `DeadlockDfs`: the search with `visited` shared over the roots. A loop is a recursive
  function of its turns (`Visit`, `FromRoot`), `dfs` one of how deep calls may nest
  (`Search`), which is as often as there are clients: a call enters one that was not visited
  (`Enter`), and takes it off the stack when its loop ends without a find (`Leave`). Python's
  orders are parameters, of the keys and of each set; the run tries every order of the keys
  with every order that all sets share, the theorem is about any.
* `Raft`: each coroutine that awaits is a task with its locals in a variable: `campaign[n]`
  for the election loop, `broadcast[Heartbeat(n)]` and `broadcast[Submit(c)]` for
  `_broadcast_append`. A task sends one request, and goes on when the reply comes
  (`VoteReturns`, `AppendReturns`) or its timeout strikes (`VoteTimesOut`,
  `AppendTimesOut`); after a timeout the request may still arrive (`Abandoned`). Term and
  commit index are read for each request, previous entry and last index once, as in the
  code. `HandleRequestVote`, `RejectStale`, `RejectMismatch` and `AcceptEntries` are the
  paths of the two handlers. An election may start whenever the loop is idle and the node
  is not leader, which covers every choice of the random deadlines. `Restart` is
  `RaftCore.__init__` again: term, vote, log and indices are lost, the node's tasks are gone
  and their calls have no caller, calls it was serving may be cut off. `life[n]` counts the
  restarts, so that "one vote per term" can be said of one process.
* `LockService`: one call is one POST. At the leader `CallLeader` runs the handler up to the
  first await of `submit`: future registered, entry appended. Elsewhere `CallOther` starts
  the search of lines 143-151 (`AskReturns`, `AskTimesOut`, one node after the other), and
  the forwarded POST starts a second handler at the leader (`ForwardArrives`), for which the
  first waits 2.5 seconds (`ForwardTimesOut`); a POST whose caller gave up may still arrive.
  `SubmitSucceeds` and `SubmitFails` are the two returns of `submit`, `WaitEnds` the end of
  `wait_for`. `ApplyNew` applies the new entries in order on one node: each takes its future
  from `_pending` by request id. The id of an acquire is the client's choice (line 171):
  `Acquires` takes a new one or any that an acquire came with before, of whatever client and
  for whatever lock, and the later call takes the place of the one before. A failed submit
  leaves its future behind.
* `Queue`: tasks stop at every Redis command: HSET, SADD, ZADD of `QueueStore.publish`;
  ZPOPMIN, ZADD, HGET of `consume`; ZRANGEBYSCORE, ZREM, ZADD of the reaper; SMEMBERS, ZREM,
  ZREM, SREM, SCARD, DEL, DEL of an ack. `Restart` ends the tasks of a node. A Redis error
  that ends a single task leaves what such a restart leaves.
* `Ring`: `Points` is the constructor, `Search` the binary search, whose turns are `Halve`,
  `RingOwners` the walk, whose turns are `Meet`; a loop is a recursive function of the number
  of its turns. SHA-1 is a function from points and keys to numbers, and no two points have
  the same. `AreNearest` is the reference.
* `Cache`: an operation in progress (`op[p]`) stops at every Redis command:
  GET (`ReadValue`), PTTL (`ReadTtl`), local store (`Fill`); SET (`PutSet`), local store
  (`PutStore`), PUBLISH (`PutPublish`). `Deliver` is a turn of the listener loop. A hit is
  answered without an await. `OpFails`, `ListenerStops` and `Restart` are the faults.
* `Pbft`: `Request` and `SelfPrepare` are `pre_prepare` up to and after its broadcast,
  `Answer` is the end of `wait_for`; `OnPrepare` is `on_prepare` up to its broadcast,
  `SelfCommit` the rest of it, `OnCommit` the whole of `on_commit`. Both broadcasts throw
  the results of their calls away, so a broadcast may end whenever its timeouts allow, which
  is at any time, and its calls stay under way. Python 3.11 (`docker/Dockerfile.node`)
  returns the result of a future that is set when the timeout of `wait_for` strikes.
  `Restart` empties a node, and may take calls from and to it along.

**History variables.** `Pbft.seen` records which nodes were sent a digest. `Raft.granted`
records votes given. `Cache.missed` records the events after which a node may never hear
of a change: a put that overtakes another request between its Redis command and its local
store, an invalidation published while the node is not subscribed, a put that ends before
it publishes. `Queue.raced` records messages that some task carried while they were being
acked, `dropped` copies lost with a task, `touched` messages somebody asked to ack. They
let the properties say exactly when the code keeps its promise; no guard reads them.

What `missed` and `raced` excuse is then not caught by the properties that have the excuse.
`CopiesCurrent`, `CopiesExpire` and `StaleGoes` say that nothing but the recorded events
leaves an old copy; that those events do, crossing puts, a put that ends before its PUBLISH
and a node that does not listen (lines 83, 164 and 134), is in the code, and only the race
of a get with a put (line 106) breaks a promise that the repository makes (`Coherent`). In
the same way `BodyKept` and `AckIsFinal` are about acks that cross each other, and not
about the reaper or the publish that carries a message while it is acked (queue_service
105 and 125). The hazards in `PROJECT.json` say so one by one.

## 3. The runs

| Run | Instance | What it shows |
|---|---|---|
| `lock_table` | 3 clients, 2 resources, 4 requests | the table implements `RWLock`; exclusion, no lost wake-up, order of the queue, exact deadlock search, waiters are served |
| `lock_deadlock` (violation) | blocking clients, 5 requests | a circular wait that the recorded edges do not contain |
| `raft` | 3 nodes, 2 commands, one kind of trouble at a time | votes, majorities; in the first term one leader, one log (`ImplementsLog`), agreeing followers |
| `raft_majority` (violation) | two submits under way | an entry that only the leader holds is applied |
| `raft_split_vote` (violation) | 2 terms, no fault | two leaders of one term |
| `raft_rejoin` (violation) | 1 term, 2 commands, 1 failed call, fair | a follower that missed one call never has the leader's log again |
| `lock_service` | 2 nodes, 2 clients, 3 calls, 1 timeout | tokens that were told stand, and locks exclude, with any `req_id`s (section 6), tables agree, every call is answered, "pending" has one cause, failed submits leave a future only until the next commit |
| `cache` | 2 nodes, capacity 1, 2 puts; 2 keys, 2 requests at a time or 1 fault | capacity; old copies and missing expiries only after a recorded race or loss; other old copies go |
| `cache_stale` (violation) | healthy nodes, puts one after the other | a get stores a value older than the last invalidation |
| `queue` | 2 of 3 peers own, 1 message, 1 restart; small rings | the ring is exact; one place per copy, nothing lost but by ack or death of a task, payload and ack hold unless raced, leftovers stay, expired messages return |
| `queue_loss` (violation) | 2 restarts | a confirmed message that exists nowhere |
| `pbft` | 3 nodes, 1 request, 2 lost calls, 1 restart | decisions are backed by a majority and spread, requests are answered, and truly |

**Bounds and why they are enough.**

* *Lock table.* Three clients and two resources are the least for a batch, a queue behind it
  and a wait across resources; four requests fill a queue of two behind two holders.
* *Raft.* Three nodes are what the compose file runs, each calling its peers in the order of
  `CLUSTER_NODES`. All troubles at once are out of reach, so `OneTroubleSpec` takes them one
  at a time: two overlapping submits with one HTTP timeout, while the first term lasts; two
  terms without commands, where campaigns overlap; one restart with one command. Two commands
  let one entry be missing below another, and let `raft_rejoin` submit one more after the
  call that failed. Messages are late and in any order throughout. The
  properties of votes are proved for all troubles at once (section 5).
* *Lock service.* Two nodes give a leader and a node that forwards. Three calls are an
  acquire, a second or a retry, and a release or one that commits what a failed one left.
  Calls are taken in the order of their names and the first acquire is that of `x`, since
  names do not matter; `lock_b`, the second of `CLUSTER_NODES`, gets elected, so that the
  search asks the wrong node first; at most one call is posted at the other node, and none
  when one `req_id` comes with two bodies; one timeout may strike anywhere. The theorems of
  section 5 have no such limits.
* *Queue and ring.* Two owners are the default `QUEUE_REPLICA_FACTOR`, the third peer owns
  nothing; the safety part has also been run with two consumers at once (1.1 million states)
  and is proved for any number. The rings are all those of three peers with two points each,
  a key before, at and behind every point, 0, 2 and 4 owners wanted, and one node whose list
  of peers lacks its own URL (lines 138-142).
* *Cache.* Two nodes have one writer and one reader each way, and two puts make an old and a
  new value. Two keys for one place, two requests at a time and a fault are taken one at a
  time (`OneTrouble`); names that do not matter are fixed (`Named`), and a node reads its own
  messages, which it ignores, at once (`OwnFirst`). None of this keeps a request or a
  delivery from going on, so it takes nothing from the fairness `StaleGoes` needs. The
  invariants have also been run with two requests and a fault together, and with three puts
  (4.1 million states), and are proved for any number of each.
* *PBFT.* The three nodes are those of the compose file; requests for different digests share
  no state, and two requests for one digest have been run for the safety properties (1.7
  million states up to symmetry, no fault), which are proved for any number of requests
  besides. `EveryNodeDecides` is about three nodes: with four, TLC refutes it, because a node
  that prepares counts the leader and itself only (line 68) and the quorum is three; the
  documentation promises three nodes.

Symmetry is used only over names that the modules compare for equality only, and where no
property is a liveness property. Deadlock checking is off because each system may really
stop: requests are bounded, or no client acts.

**What Raft keeps, and until when.** `ElectionSafety` fails from the second term on
(`raft_split_vote`) and `AppliedOnMajority` fails with overlapping submits
(`raft_majority`). `VoteOnce` and `ElectedByMajority` hold whatever happens; what clients of
the log rely on is therefore stated for the first term (`FirstTerm`: no node has left term 1
or restarted). Followers agree with the leader, but need not keep up with it: a log is never
repaired, and one call that fails is enough for a follower to be left behind
(`raft_rejoin`). `MissedForGood`, a theorem, says why: a follower that the one broadcast of
an entry did not reach rejects everything after it, in the first term.

**Fairness.** `LockTable.FairSpec` assumes that clients release what they hold: there is
no lease in the code that would do it for them. `LockService.FairSpec` assumes that every
await of a handler ends, which the timeouts of the calls and of `wait_for` see to; a submit
makes one call with a timeout per peer. `Cache.FairSpec` assumes that Redis
answers and that the listener loop polls (lines 133-142). `Queue.FairSpec` assumes the
reaper loop runs (lines 146-153, which swallow exceptions). `Pbft.FairSpec` assumes that
broadcasts and waits end, which their timeouts see to, and that calls that are not lost
are served. Nothing is assumed of other clients. `RaftLog.FairSpec` assumes that a leader's
heartbeat loop starts again (lines 98-102), that a call for which somebody waits is served
and its answer read, and that commands are submitted while there is a leader: all that a
follower could catch up by. A request whose caller has given up may be lost for ever.
Elections are not assumed, since a heartbeat resets the deadline of the follower even when
its answer is False (lines 183-191). The other runs of Raft have no liveness property.

## 4. Findings

1. `lock_deadlock`: wait-for edges are a snapshot (lock_service.py:57). A client that
   joins shared holders afterwards is not recorded, and a real deadlock goes unreported.
2. `raft_majority`: `commit_index = len(self.log)` after an await (raft.py:138) applies
   entries no follower has.
3. `raft_split_vote`: votes are counted across awaits with no look at the term or the role
   (raft.py:74-96). Two leaders in one term, without a fault.
4. `raft_rejoin`: the leader sends an entry once and `prev_log_index` is always the end of its
   log (raft.py:106, 190-191), so a follower that missed one call refuses everything
   afterwards, where `docs/testing_guide.md:279` says of a lock node that was cut off and
   connected again "Setelah reconnect, node kembali ikut cluster."
5. `cache_stale`: `read_through` stores after its awaits what it read before them
   (cache_service.py:94-106). When a put was in between, the old value stays after
   everything is quiet, on the node of the put as well as on another.
6. `queue_loss`: `consume` pops and records in two commands (queue_service.py:88-93), so a
   crash in between loses the message; with the default of two owners it takes one crash per
   owner.

## 5. What is proved

`LockOpsProofs` and `LockTableProofs` (from `FreeIsNoMode`). The inductive invariant
`TableInv` joins the invariants of the table. Exclusion alone is not inductive: a hand-over
makes the head of a queue a holder, so one needs to know that a queue is non-empty only
behind holders it conflicts with (`HeadBlocks`), and that a release does not take two
holders away at once, which is `UniqueTokens`, which in turn needs tokens bounded by the
counter (`WellTyped`).
`LockOpsProofs` has a lemma for each operator (`ServedRun`, `GrantFields`, `GrantPreserves`,
`HandOverPreserves`), one for each command (`AcquirePreserves`, `ReleasePreserves`);
`TableInvariant` puts them together. Results: `TypeCorrect`, `ExclusionHolds`,
`NoLostWakeUp`, `TokensNeverReused`, `EdgesOnlyFromWaiters`, and as an action property
`QueuesInOrder` (an acquire leaves a queue alone or joins its end, a release takes the run
that `Served` picks from its front, and nothing else touches it).

The refinement, `TableIsRWLock`, is proved on top of it: an acquire takes a
lock or changes none (`AcquireEffect`), a release gives one back, passes the resource on, or
changes none (`ReleaseEffect`); the numbers of a batch are the tokens in the order of the
queue. `LockStep(t, u)` is the same as a relation of two tables, which `LockStepIsAbstract`
shows to be a step of `RWLock` and nothing else; the lock service uses it below.

The deadlock search (with `ClientIsFinite`, of `MCLockTable`) is proved for any wait-for
graph and any orders. Clients the search has left (`Done`: visited, and off the stack) wait
only for clients it has left, and not for themselves in the end (`Clean`). `dfs(u)` is called
only where the stack is a path to `u` (`Callable`); then a find is a cycle, and without one
the stack is as before and `u` has been left (`Returns`). Why `u` then does not reach itself:
whatever it waits for was left before it, and none of these leads back, since what they
reach was left without `u`. `VisitLooks` is the invariant of the loop over the successors,
`DfsReturns` the whole body, and `SearchSearches` the induction on the depth, which suffices
because every call leaves fewer clients unvisited. `Turns` shows once that the recursive
function of a loop exists. At the end of the loop over the roots every client with edges was
visited and the stack is empty, whence `SearchIsExact` for any order of the keys and an order
of its own for each set, and `DeadlockIsFound` for the orders that the run tries. Exact means
the recorded edges; finding 1 is about edges that were not recorded. In the other direction
`AlarmsHaveWaiters` says that whoever is reported does queue.

`RaftProofs` (from `PeersAreTheOthers`, `NoneIsNoNode` and `BoundsAreNat`). The inductive
invariant `RaftInv` joins the type invariant with: a campaign or a broadcast under way calls
one of its node's peers (`CallsAPeer`), a vote on record for the present term and life is the
present vote while none is on record for a later term (`VotesRemembered`), `VoteOnce` and
`CommittedIsApplied`. `VoteOnce` is not inductive without `VotesRemembered`, since nothing
else ties the past votes to `votedFor`; counting lives is what lets a restart forget a vote.
Results: `TypeCorrect`, `OneVotePerTerm`, `CommitsInsideLog`, and as action properties
`VotesNeverChange`, `HistoryNeverChanges`.

The second part follows what a candidate counts. Replies do not say whose they are or which
term they answer, so the argument is about the one message each campaign waits for: it is
the request to the peer being called, or that peer's reply, and a reply of yes means that
this peer has voted for the node (`OneCall`); hence the votes counted are backed by as many
different peers (`CountIsBacked`), and a node that leads has a majority behind it
(`LeadersAreElected`), whatever is late, lost or restarted. In the first term two
majorities share a voter, who voted once: `FirstTermHasOneLeader`.

The third part is about the log while the first term lasts. `LogInv`
says: before there is a leader there is no entry (`NothingYet`); afterwards every node has a
prefix of the leader's log, with no more committed (`Behind`), and what is on the way to it
is the next piece of that log or nothing (`Sent`, `Sends`). The handler of lines 186-201 does
not compare an entry it already has, so the argument that followers never diverge cannot be
the usual one; it is that an entry is sent to a node once, by the one broadcast that carries
it (`SentOnce`, and `Unsent` for those that this broadcast has still to call), so nobody is
sent what he has. `OneAppendCall` and `AcksAreTrue` follow the counting of acknowledgements
as `OneCall` does that of votes: replies do not name their sender, and a counted one means
that a different peer has the entry. The theorem `FirstTermLog` carries `LogInv` along with
`RaftInv` and the elections (`SoFar`), since the first term may end with any step. Results:
`FollowersHoldPrefixes`; `ImplementsCommandLog`, where each step is `Elect`, `Submit`,
`Receive`, `Succeed` or `Fail` of `CommandLog` or a stutter; and as an action property
`MissedStaysMissed`, because the one broadcast that would have brought the missing entry is
past that node and its request is gone: what `raft_rejoin` finds for two commands is so for
any number of them and any cluster.

`LockServiceProofs` (from `ClusterIsTheNodes`, `NoneIsNoCall`, `NoneLeadsNot`, `FreeIsNoMode`
and `MaxTimeoutsIsNat`) is the longest argument. A node applies several commands in one step,
so every part of the invariant is a statement about a state of a node after `i` commands
(`Kept(s, i)`), one lemma per part shows that one command carries it from `i - 1` to `i`
(`Applies`), and an induction over the commands (`UpTo`, and `OneByOne` for the recursive
function of `Applying`) carries it over the step. `ServiceInv` has these parts:

* `Posted`: what is submitted was posted before. Of request ids nothing is supposed.
* `Registered`: what a request id names at the leader is a future that is not set, of a
  command not yet applied. This is `LeakEnds`; `Others` says that nobody else has futures.
* `GrantTrue`: a token in a future is that of a holder, until somebody asks to release it,
  and the resource has the mode asked for; the holder asked for it with an acquire of the
  same request id (`TrueGrant`), which need not be the call whose future it is. Releases of
  other tokens, new holders and hand-overs keep this, since tokens are unique and the counter
  grows (`TableEffect`). `ToldTrue` brings it to the client: a token he was told is the one
  in his future. `GrantStands` follows, and `ClientsExclude`, where the two acquires of a
  request id must be one body.
* `HoldersAsked` and `NoStray`: whoever holds has his token in a future or an acquire whose
  future is gone, or shares its request id with another body (`Orphan`). A queued request
  becomes a holder long after its own future was set to "queued", and a retry replaces the
  future of the call before, so both have to be said of queues and of commands that are not
  applied yet. `NoLockUnasked` follows.
* `NotLost`: a future is lost only to another call with the same request id, whence
  `PendingOnlyIfReplaced`.
* `Traced`: there is one sequence of tables, given by the log, and every node is somewhere on
  it; `TablesAgree` follows.

`Traced` also gives the theorem that composes the modules, `ServiceIsRWLock`: a node applies
several commands in one step of `LockService`, which is then no single step of `RWLock`, but
the tables that the log leads to, one command after the other, each follow from the one
before by a `LockStep`, and the table of every node is one of them. `LineOnlyGrows` says that
this line is the same one all the time: a step keeps its tables (`LineBefore`) and takes no
node back on it, which needs that the body of a posted call is never changed (`BodiesStay`).

Before the proof TLC found the candidate invariant, `Traced` apart, true in all 557,701
states of the run `lock_service`. Results: `ServiceInvariant`, `ServiceIsRWLock`, `LineOnlyGrows` and a
theorem for each invariant of that run.

`QueueProofs` (from `OwnersAreNodes`, `NoneIsNothing` and `RestartBoundIsNat`). `QueueInv`
joins the types with `OneCopy`: an owner's copy is ready, in flight, with one consumer or with
the reaper; a copy that is still being stored, or that publish has not come to (`Ahead`), is
nowhere else (`Nowhere`); and what a reaper has on its list is not ready and not with a
consumer, so that the second command of a requeue never doubles a copy although the result of
the first is thrown away. Results: `TypeCorrect`, `CopiesInOnePlace`, `CopiesAreKept` (every
task that takes a copy from one place has it and puts it in another, `CarriersDeliver`).

The second part adds what acks know of the message they work on (`AckKnows`): the owner at hand
has no copy once its two sets were cleared, the owners set is empty when the payload goes,
and every copy left is before an ack that began with all owners. With `Counted` (a copy is in
the owners set, and its payload is there) this is inductive for messages that no task carried
during an ack, which is what `raced` excludes; it holds for any number of acks of one message
at once. Steps of other tasks bring a copy only where a task has it, and such a task carries
the message (`Stays`). Results: `PayloadOutlivesCopies`, `AckedIsGone`.

The third part shows that what the code does not clean up stays for ever. An owner is told
once to store a message and is counted on the way (`Uncounted`), so no late store brings the
missing copy; an ack takes an owner out of the count only after it removed a copy from
inflight (`Removing`), and here there is none to remove. Result: `LeftoversStay`.

`CacheProofs` (from `CapacityIsPositive` and `CacheBoundsAreNat`). `CacheInv` relates copies to
Redis: a copy of a settled key, one that nobody is about to invalidate and that `missed` does
not excuse, has the value and the TTL of Redis, or has an expiry when the key is gone from
Redis (`CopiesFit`). That is not inductive alone, because a request stores a copy from what
it read or wrote before: `ReadsFit` and `OpsFit` say that what it carries still fits, unless
another request overtook it, which `missed` records; `Valued` keeps a value apart from the
absence of one. The list of the LRU needs lemmas of its own (`Removed`, `Invalidated`,
`Appended`, `LruPutFits`): it has one copy per key and never more than its capacity, and an
operation changes no other key's copy but for the one evicted. `SettledBefore` is the
argument about order: a step that announces nothing settles nothing, so a copy that is
settled after it was settled before. TLC found `CacheInv` true in all 341,224 states of the
run `cache`. Results: `TypeCorrect`, `StaleIsAnnounced`, `ExpiryIsKept`.

`RingProofs` needs no assumption on constants: its theorems are about any peers, points, key
and replica factor, given that points have different hashes on a circle (`Hashed`). The
library's induction theorems cannot be used, so `ByTurns` derives an induction over the turns
of a loop from the least number without the property, and `SearchTurns` and `WalkTurns` show
that the functions of those turns exist. `HalveNarrows` is the invariant of the binary search
(`Narrow`: what is left of the interval, what lies before it and behind it, and that it
shrinks), and `SearchFinds` follows, including that the loop ends in time. `SortedByRank`
shows that `Points` is sorted and complete, `RoundIsClockwise` that the walk comes to every
point once and ever further from the key, wrapping round behind the last point or not.
`Found` is the invariant of the walk: the peers found differ, and each was met when only
those before it had been. The first point of a peer on the way is its nearest
(`FirstIsNearest`), which gives `OwnersAreNearest`. `OwnersAreExact` applies it to the
instance of `MCQueue`, so it supposes `Node = MCNode`, as `queue.cfg` has it, and needs of the
queue its type invariant only.

`PbftProofs` (from `NodeIsFinite`, `BoundsAreNat` and `NoneIsNeither`). `PbftInv` is
`Core /\ OwnBroadcast /\ Registered`, with `Core == TypeOK /\ Requested /\ Backed`: whoever a
prepare names has seen the digest (`Backed`), so a quorum of prepares is a majority of
witnesses (`QuorumIsMajority`), and every trace of a commit, a call, a running broadcast, an
entry of `committed`, is of such a digest; witnesses only grow (`BackedGrows`), which is why
restarts do no harm. `Registered` says that the future of the only request for a digest is
kept or set; it needs `OwnBroadcast`, or a restart could leave a broadcast behind that wakes
a request its node has forgotten. Results: `TypeCorrect`, `DecisionsAreBacked`, and as an
action property `AloneIsTold`.

A few properties are stated and proved without a run of their own, since the theorem covers
every instance: `TokensUnique` and `WaitersQueued` of the lock table, `CommittedIsApplied`,
`VotesStand`, `HistoryStands` and `MissedForGood` of Raft.

**Model-checked only.** Everything under fairness (TLAPS does not reason about `ENABLED`):
`WaitersServed`, `CallsAnswered`, `ExpiredReturns`, `StaleGoes`, `RequestsAnswered`,
`EveryNodeDecides` and `DecisionSpreads`. Every other property of a passing run is a theorem.

## 6. What is not modelled

* The lock service after the first leader: `CommandLog` has one, and after a second term or
  a restart Raft keeps little that handlers could rely on (section 3). The search for a
  leader may therefore find no leader or the right one, never an outdated one.
* Nothing is left out of `req_id`, but little is promised to clients that share one: an id
  with another body hands the answer of one command to the future of another (lines 131-139,
  171). A client is then told the token of somebody else's lock (`GrantStands` says whose),
  and the holder may never learn its own; so `ClientsExclude` and the second half of
  `NoLockUnasked` leave such calls out (`OneBody`). The repository's documents do not speak of
  `req_id`, and its tests do not send one.
* The verdict of a deadlock call, which is `DeadlockDfs` on the leader's table; roles and API
  keys; the `granted_batch` in the answer to a release.
* PBFT's `view` and `seq`: no handler reads them. (The answer to a client names the node's
  latest `seq`, not its own, lines 62 and 88.) Identical PBFT requests are modelled, but
  nothing is promised to them: the second takes the place of the first's future, and a
  request for what is decided already waits 3 s and is told `decided: False`, where
  `docs/testing_guide.md:518-538` expects `True`.
* The HTTP client beyond its timeouts and lost or late calls, which the modules model where
  the code uses it: encryption and headers change no protocol state.
* The audit log: every container has files of its own and writes them without an await, so
  nothing interleaves; a crash between the two writes of an append (audit.py lines 54-56)
  leaves a record that the next one does not follow.
* The geo router (a minimum over an environment variable), the balancer (floating-point
  averages of one process), configuration, metrics, security, crypto, the wiring of `app.py`
  and the scripts: no protocol state.
* Redis is one server that executes one command at a time and does not lose data. Modes other
  than `shared` and `exclusive` and malformed requests are left out.

## 7. Outlook

Of the passing runs only the liveness properties have no proof, and they are out of the
prover's reach. The theorems about the logs of Raft end with the first term, as the findings
`raft_majority` and `raft_split_vote` show that they must; should a later version of `submit`
count acknowledgements per entry and the election loop look at the term, `LogInv` and
`SoFar` are what would have to be carried over to all terms, and `CommandLog` is what the lock
service needs of it.
