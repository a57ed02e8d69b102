-------------------------------- MODULE Cache --------------------------------
(***************************************************************************)
(* The distributed cache of src/cache/cache_service.py: one LruCache per   *)
(* node in front of a shared Redis, and an invalidation channel that every *)
(* node publishes to and listens to.                                       *)
(*                                                                         *)
(* A put or a get that awaits Redis is an op in progress; op.at names the  *)
(* step it takes next.  Redis executes one command at a time, so a command *)
(* and the change it makes are one step, and what the coroutine does with  *)
(* the reply is the next one.                                              *)
(*                                                                         *)
(* Values are the numbers of the put requests, 0 is no value.  Time is     *)
(* abstract: a key with a TTL expires in Redis at some moment, and a copy  *)
(* with an expiry falls due on its node at some moment, in either order.   *)
(*                                                                         *)
(* Left out: JSON encoding, metrics, audit, the I and E states (no code    *)
(* path stores them), and the answer to a put without a key.               *)
(***************************************************************************)
EXTENDS Naturals, Sequences, SequencesExt, FiniteSets

CONSTANTS Node,       \* the cache nodes
          Key,        \* cache keys
          Proc,       \* requests that may be under way at once
          Capacity,   \* CACHE_CAPACITY, at least 1 (line 34)
          MaxWrites,  \* bound: put requests
          MaxFaults   \* bound: failed requests, lost listeners and crashes

ASSUME CapacityIsPositive == Capacity \in Nat \ {0}
ASSUME CacheBoundsAreNat  == MaxWrites \in Nat /\ MaxFaults \in Nat

VARIABLES
  redis,     \* c2:data:<key>: the value and whether it has a TTL
  cache,     \* per node, LruCache.data: entries, least recently used first
  listener,  \* per node, where its inv_listener task is
  channel,   \* per node, what was published on c2:inv and is not read yet
  op,        \* the requests under way
  writes,    \* put requests so far
  faults,    \* faults so far
  missed     \* history: <<n, k>> when n may never hear of a change of k

vars == <<redis, cache, listener, channel, op, writes, faults, missed>>

Absent == [value |-> 0, ttl |-> FALSE]

IdleOp == [at |-> "idle"]
Op(at, n, k, v, ttl) == [at |-> at, node |-> n, key |-> k, value |-> v, ttl |-> ttl]

\* The services up and listening.  A node in the first 0.2 s of its life, when
\* it serves requests and does not listen yet, is what Restart leads to.
Init ==
  /\ redis    = [k \in Key |-> Absent]
  /\ cache    = [n \in Node |-> << >>]
  /\ listener = [n \in Node |-> "subscribed"]
  /\ channel  = [n \in Node |-> << >>]
  /\ op       = [p \in Proc |-> IdleOp]
  /\ writes   = 0
  /\ faults   = 0
  /\ missed   = {}

-----------------------------------------------------------------------------
(***************************************************************************)
(* LruCache.                                                               *)
(***************************************************************************)

CopiesOf(c, k) == {e \in ToSet(c) : e.key = k}

\* A key is in the cache once, if at all.
Invalidate(c, k) ==
  IF CopiesOf(c, k) = {} THEN c
                         ELSE RemoveAt(c, CHOOSE i \in DOMAIN c : c[i].key = k)

\* Mutant: a full cache grows.
GrowingPut(c, e) == Append(Invalidate(c, e.key), e)

\* Mutant: an entry that is there already stays as it is.
PutIfNew(c, e) ==
  IF CopiesOf(c, e.key) # {} THEN c
  ELSE Append(IF Len(c) >= Capacity THEN Tail(c) ELSE c, e)

\* LruCache.put: a new key evicts the least recently used entry when full.
LruPut(c, e) ==
  LET full == CopiesOf(c, e.key) = {} /\ Len(c) >= Capacity
  IN  Append(IF full THEN Tail(c) ELSE Invalidate(c, e.key), e)

\* LruCache.get finds an entry that is not due.
Hit(n, k) == \E e \in CopiesOf(cache[n], k) : e.expires # "due"

\* Mutant: the TTL is forgotten.
NeverExpires(ttl) == "never"

\* expire_at_ms as far as it matters.
Expiry(ttl) == IF ttl THEN "later" ELSE "never"

StoreCopy(n, k, v, state, ttl) ==
  cache' = [cache EXCEPT ![n] =
    LruPut(@, [key |-> k, value |-> v, state |-> state, expires |-> Expiry(ttl)])]

-----------------------------------------------------------------------------
(***************************************************************************)
(* GET /cache/get: read_through.                                           *)
(***************************************************************************)

\* A hit is answered without an await; the entry becomes the most recent.
GetHit(n, k) ==
  /\ Hit(n, k)
  /\ \E e \in CopiesOf(cache[n], k) :
       cache' = [cache EXCEPT ![n] = Append(Invalidate(@, k), e)]
  /\ UNCHANGED <<redis, listener, channel, op, writes, faults, missed>>

\* A miss drops a due entry and asks Redis.
GetMiss(p, n, k) ==
  /\ op[p] = IdleOp
  /\ ~Hit(n, k)
  /\ cache' = [cache EXCEPT ![n] = Invalidate(@, k)]
  /\ op'    = [op EXCEPT ![p] = Op("get", n, k, 0, FALSE)]
  /\ UNCHANGED <<redis, listener, channel, writes, faults, missed>>

ReadValue(p) ==
  LET found == redis[op[p].key]
  IN  /\ op[p].at = "get"
      /\ op' = [op EXCEPT ![p] =
                  IF found = Absent THEN IdleOp
                                    ELSE [@ EXCEPT !.at = "pttl", !.value = found.value]]
      /\ UNCHANGED <<redis, cache, listener, channel, writes, faults, missed>>

\* PTTL of a key without TTL and of a key that is gone are both no expiry.
ReadTtl(p) ==
  /\ op[p].at = "pttl"
  /\ op' = [op EXCEPT ![p].at = "fill", ![p].ttl = redis[op[p].key].ttl]
  /\ UNCHANGED <<redis, cache, listener, channel, writes, faults, missed>>

Fill(p) ==
  /\ op[p].at = "fill"
  /\ StoreCopy(op[p].node, op[p].key, op[p].value, "S", op[p].ttl)
  /\ op' = [op EXCEPT ![p] = IdleOp]
  /\ UNCHANGED <<redis, listener, channel, writes, faults, missed>>

-----------------------------------------------------------------------------
(***************************************************************************)
(* POST /cache/put: write_through, then broadcast_inv.                     *)
(***************************************************************************)

\* Requests that hold what they read or wrote at k before this moment.
Overtaken(p, k) ==
  {q \in Proc \ {p} : op[q].at \in {"pttl", "fill", "store"} /\ op[q].key = k}

\* Up to here a put has touched nothing: its SET or PSETEX is its first step.
PutSet(p, n, k, ttl) ==
  /\ op[p] = IdleOp
  /\ writes < MaxWrites
  /\ writes' = writes + 1
  /\ redis'  = [redis EXCEPT ![k] = [value |-> writes + 1, ttl |-> ttl]]
  /\ op'     = [op EXCEPT ![p] = Op("store", n, k, writes + 1, ttl)]
  /\ missed' = missed \cup {<<op[q].node, k>> : q \in Overtaken(p, k)}
  /\ UNCHANGED <<cache, listener, channel, faults>>

PutStore(p) ==
  /\ op[p].at = "store"
  /\ StoreCopy(op[p].node, op[p].key, op[p].value, "M", op[p].ttl)
  /\ op' = [op EXCEPT ![p] = Op("publish", @.node, @.key, 0, FALSE)]
  /\ UNCHANGED <<redis, listener, channel, writes, faults, missed>>

\* Redis hands the message to whoever is subscribed, the sender included.
PutPublish(p) ==
  LET msg == [key |-> op[p].key, from |-> op[p].node]
  IN  /\ op[p].at = "publish"
      /\ channel' = [n \in Node |->
                       IF listener[n] = "subscribed" THEN Append(channel[n], msg)
                                                     ELSE channel[n]]
      /\ missed'  = missed \cup
                    {<<n, msg.key>> : n \in {x \in Node : listener[x] # "subscribed"}}
      /\ op'      = [op EXCEPT ![p] = IdleOp]
      /\ UNCHANGED <<redis, cache, listener, writes, faults>>

-----------------------------------------------------------------------------
(***************************************************************************)
(* inv_listener.                                                           *)
(***************************************************************************)

Subscribe(n) ==
  /\ listener[n] = "starting"
  /\ listener' = [listener EXCEPT ![n] = "subscribed"]
  /\ UNCHANGED <<redis, cache, channel, op, writes, faults, missed>>

\* Mutant: a node listens to itself only.
IsOwn(n, msg) == msg.from = n

IsForeign(n, msg) == msg.from # n

Deliver(n) ==
  /\ channel[n] # << >>
  /\ LET msg == Head(channel[n])
     IN  cache' = [cache EXCEPT ![n] =
                     IF IsForeign(n, msg) THEN Invalidate(@, msg.key) ELSE @]
  /\ channel' = [channel EXCEPT ![n] = Tail(@)]
  /\ UNCHANGED <<redis, listener, op, writes, faults, missed>>

-----------------------------------------------------------------------------
(***************************************************************************)
(* Time and faults.                                                        *)
(***************************************************************************)

\* The TTL of k runs out in Redis; a get between GET and PTTL is misled.
Expire(k) ==
  /\ redis[k].ttl
  /\ redis'  = [redis EXCEPT ![k] = Absent]
  /\ missed' = missed \cup
       {<<op[q].node, k>> : q \in {x \in Proc : op[x].at = "pttl" /\ op[x].key = k}}
  /\ UNCHANGED <<cache, listener, channel, op, writes, faults>>

\* The expiry of a copy is reached on the clock of its node.
FallDue(n, i) ==
  /\ cache[n][i].expires = "later"
  /\ cache' = [cache EXCEPT ![n][i].expires = "due"]
  /\ UNCHANGED <<redis, listener, channel, op, writes, faults, missed>>

Fault == faults < MaxFaults /\ faults' = faults + 1

\* Keys that the requests in P changed in Redis without telling the others.
Untold(P) == {op[p].key : p \in {x \in P : op[x].at \in {"store", "publish"}}}

\* An await on Redis raises and ends the request.
OpFails(p) ==
  /\ Fault
  /\ op[p] # IdleOp
  /\ op'     = [op EXCEPT ![p] = IdleOp]
  /\ missed' = missed \cup (Node \X Untold({p}))
  /\ UNCHANGED <<redis, cache, listener, channel, writes>>

\* get_message raises: the loop is left, and nobody starts it again.
ListenerStops(n) ==
  /\ Fault
  /\ listener[n] = "subscribed"
  /\ listener' = [listener EXCEPT ![n] = "stopped"]
  /\ channel'  = [channel EXCEPT ![n] = << >>]
  /\ missed'   = missed \cup {<<n, msg.key>> : msg \in ToSet(channel[n])}
  /\ UNCHANGED <<redis, cache, op, writes>>

\* The process of n ends and comes back with an empty cache.
Restart(n) ==
  LET mine == {p \in Proc : op[p] # IdleOp /\ op[p].node = n}
  IN  /\ Fault
      /\ cache'    = [cache EXCEPT ![n] = << >>]
      /\ channel'  = [channel EXCEPT ![n] = << >>]
      /\ listener' = [listener EXCEPT ![n] = "starting"]
      /\ op'       = [p \in Proc |-> IF p \in mine THEN IdleOp ELSE op[p]]
      /\ missed'   = missed \cup (Node \X Untold(mine))
      /\ UNCHANGED <<redis, writes>>

-----------------------------------------------------------------------------

Step(p) ==
  \/ ReadValue(p)
  \/ ReadTtl(p)
  \/ Fill(p)
  \/ PutStore(p)
  \/ PutPublish(p)

Next ==
  \/ \E n \in Node, k \in Key : GetHit(n, k)
  \/ \E p \in Proc, n \in Node, k \in Key : GetMiss(p, n, k)
  \/ \E p \in Proc, n \in Node, k \in Key, ttl \in BOOLEAN : PutSet(p, n, k, ttl)
  \/ \E p \in Proc : Step(p)
  \/ \E n \in Node : Subscribe(n) \/ Deliver(n)
  \/ \E k \in Key : Expire(k)
  \/ \E n \in Node : \E i \in 1 .. Len(cache[n]) : FallDue(n, i)
  \/ \E p \in Proc : OpFails(p)
  \/ \E n \in Node : ListenerStops(n) \/ Restart(n)

Spec == Init /\ [][Next]_vars

(***************************************************************************)
(* Redis answers, and the listener loop polls its channel: both go on      *)
(* whatever the clients do.                                                *)
(***************************************************************************)
FairSpec ==
  /\ Spec
  /\ \A p \in Proc : WF_vars(Step(p))
  /\ \A n \in Node : WF_vars(Deliver(n))

-----------------------------------------------------------------------------

Copy == [key : Key, value : 1 .. MaxWrites, state : {"S", "M"},
         expires : {"never", "later", "due"}]

\* Type invariant; a cache stays within its capacity and has one entry per key.
TypeOK ==
  /\ redis \in [Key -> [value : 0 .. MaxWrites, ttl : BOOLEAN]]
  /\ cache \in [Node -> Seq(Copy)]
  /\ \A n \in Node :
       /\ Len(cache[n]) <= Capacity
       /\ \A i, j \in 1 .. Len(cache[n]) : cache[n][i].key = cache[n][j].key => i = j
  /\ channel \in [Node -> Seq([key : Key, from : Node])]
  /\ listener \in [Node -> {"starting", "subscribed", "stopped"}]
  /\ op \in [Proc -> {IdleOp} \cup
               [at : {"get", "pttl", "fill", "store", "publish"},
                node : Node, key : Key, value : 0 .. MaxWrites, ttl : BOOLEAN]]
  /\ writes \in 0 .. MaxWrites
  /\ faults \in 0 .. MaxFaults
  /\ missed \subseteq Node \X Key

Announced(n, k) ==
  \E i \in 1 .. Len(channel[n]) : channel[n][i].key = k /\ channel[n][i].from # n

\* A put of k has changed Redis and has still to replace n's copy or to
\* announce the change to n.
BeingPut(n, k) ==
  \E p \in Proc :
    /\ op[p].at = "store" \/ (op[p].at = "publish" /\ op[p].node # n)
    /\ op[p].key = k

Settled(n, k) == ~Announced(n, k) /\ ~BeingPut(n, k) /\ <<n, k>> \notin missed

Stale(n, k) ==
  redis[k] # Absent /\ \E e \in CopiesOf(cache[n], k) : e.value # redis[k].value

\* A copy that differs from Redis is on its way out, or one of the races and
\* faults that missed records has happened: the only ones that leave a node
\* with an old value for good.  They are a put that overtakes another request
\* between its Redis command and its local store, an invalidation sent to a
\* node that is not subscribed, and a put that ends before its invalidation.
CopiesCurrent == \A n \in Node, k \in Key : Stale(n, k) => ~Settled(n, k)

\* A copy expires if its key does: it has an expiry when Redis has one or has
\* already dropped the key, unless a request was overtaken between GET and
\* PTTL (lines 94-105).
CopiesExpire ==
  \A n \in Node, k \in Key : Settled(n, k) =>
    \A e \in CopiesOf(cache[n], k) :
      IF redis[k] = Absent THEN e.expires # "never"
                           ELSE e.expires = "never" <=> ~redis[k].ttl

\* A stale copy goes, or the node is one that missed the change.
StaleGoes ==
  \A n \in Node, k \in Key : Stale(n, k) ~> ~Stale(n, k) \/ <<n, k>> \in missed
=============================================================================
