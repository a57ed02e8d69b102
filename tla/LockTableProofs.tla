-------------------------- MODULE LockTableProofs --------------------------
(***************************************************************************)
(* The lock table is correct for any number of clients, resources and      *)
(* requests: the theorems about the state machine follow from what         *)
(* LockOpsProofs shows of its operations, then comes that it implements    *)
(* the readers-writer lock, and last that deadlock_check answers True      *)
(* exactly when there is a cycle in the edges.                             *)
(***************************************************************************)
EXTENDS MCLockTable, LockOpsProofs, FiniteSetTheorems

\* The invariant holds in every reachable table.
THEOREM TableInvariant == Spec => []TableInv(table)
PROOF
<1>1. Init => TableInv(table)
  BY FreeIsNoMode
     DEF Init, TableInv, EmptyTable, WellTyped, Table, LockMode, Excludes, ExcludesAt,
         HeadBlocks, HeadBlocksAt, UniqueTokens, EdgesFromQueues
<1>2. TableInv(table) /\ [Next]_table => TableInv(table)'
  <2>1. SUFFICES ASSUME TableInv(table), [Next]_table PROVE TableInv(table')
    OBVIOUS
  <2>2. ASSUME NEW c \in Client, NEW r \in Resource, NEW m \in LockMode,
               AcquireCmd(c, r, m)
        PROVE  TableInv(table')
    BY <2>1, <2>2, AcquirePreserves DEF AcquireCmd
  <2>3. ASSUME NEW r \in Resource, NEW tok \in 1 .. MaxRequests, ReleaseCmd(r, tok)
        PROVE  TableInv(table')
    BY <2>1, <2>3, ReleasePreserves DEF ReleaseCmd
  <2>4. CASE UNCHANGED table
    BY <2>1, <2>4
  <2> QED
    BY <2>1, <2>2, <2>3, <2>4 DEF Next
<1> QED
  BY <1>1, <1>2, PTL DEF Spec

\* The table is always well typed, and tokens in use come from the counter.
THEOREM TypeCorrect == Spec => []TypeOK
PROOF
<1>1. TableInv(table) => TypeOK
  BY DEF TableInv, TypeOK
<1> QED
  BY <1>1, TableInvariant, PTL

\* Readers-writer exclusion at every resource.
THEOREM ExclusionHolds == Spec => []Exclusion
PROOF
<1>1. TableInv(table) => Exclusion
  BY DEF TableInv, Exclusion
<1> QED
  BY <1>1, TableInvariant, PTL

\* No request waits at a free resource or behind a compatible holder.
THEOREM NoLostWakeUp == Spec => []HeadBlocked
PROOF
<1>1. TableInv(table) => HeadBlocked
  BY DEF TableInv, HeadBlocked
<1> QED
  BY <1>1, TableInvariant, PTL

\* A token never names two grants.
THEOREM TokensNeverReused == Spec => []TokensUnique
PROOF
<1>1. TableInv(table) => TokensUnique
  BY DEF TableInv, TokensUnique
<1> QED
  BY <1>1, TableInvariant, PTL

\* Wait-for edges start at clients that queue.
THEOREM EdgesOnlyFromWaiters == Spec => []WaitersQueued
PROOF
<1>1. TableInv(table) => WaitersQueued
  BY DEF TableInv, WaitersQueued
<1> QED
  BY <1>1, TableInvariant, PTL

-----------------------------------------------------------------------------
(***************************************************************************)
(* The order of service.                                                   *)
(***************************************************************************)

\* The first n requests at r become holders with new tokens, and the others
\* stay in front of whatever comes.
ServesAt(t, u, r, n) ==
  /\ IsPrefix(SubSeq(t.queue[r], n + 1, Len(t.queue[r])), u.queue[r])
  /\ \A i \in 1 .. n :
       \E h \in u.holders[r] : h.client = t.queue[r][i].client /\ h.token > t.counter

ServesFront(t, u, r) == \E n \in 0 .. Len(t.queue[r]) : ServesAt(t, u, r, n)

\* A sequence is a prefix of itself.
LEMMA PrefixSelf ==
  ASSUME NEW S, NEW q \in Seq(S)
  PROVE  IsPrefix(q, q)
BY DEF IsPrefix

\* A whole sequence is a prefix of itself, and of itself with an element more.
LEMMA PrefixKept ==
  ASSUME NEW S, NEW q \in Seq(S), NEW e \in S
  PROVE  /\ IsPrefix(SubSeq(q, 0 + 1, Len(q)), q)
         /\ IsPrefix(SubSeq(q, 0 + 1, Len(q)), Append(q, e))
PROOF
<1>1. Len(q) \in Nat /\ SubSeq(q, 0 + 1, Len(q)) = q
  OBVIOUS
<1>2. /\ Append(q, e) \in Seq(S) /\ Len(Append(q, e)) = Len(q) + 1
      /\ \A i \in 1 .. Len(q) : Append(q, e)[i] = q[i]
  OBVIOUS
<1>3. SubSeq(q, 1, Len(q)) = SubSeq(Append(q, e), 1, Len(q))
  BY <1>1, <1>2
<1> QED
  BY <1>1, <1>2, <1>3 DEF IsPrefix

\* Where the queue does not change, nobody is served and nobody is dropped.
LEMMA QueueKept ==
  ASSUME NEW t \in Table, NEW u, NEW r \in Resource, u.queue[r] = t.queue[r]
  PROVE  ServesFront(t, u, r)
PROOF
<1>1. t.queue[r] \in Seq(Request) /\ 0 \in 0 .. Len(t.queue[r])
  BY DEF Table
<1>2. IsPrefix(SubSeq(t.queue[r], 0 + 1, Len(t.queue[r])), u.queue[r])
  <2>1. CASE t.queue[r] = << >>
    BY <2>1 DEF IsPrefix
  <2>2. CASE t.queue[r] # << >>
    <3>1. t.queue[r][1] \in Request
      BY <1>1, <2>2
    <3> QED
      BY <1>1, <3>1, PrefixKept
  <2> QED
    BY <2>1, <2>2
<1> QED
  BY <1>1, <1>2 DEF ServesFront, ServesAt

\* An acquire leaves the queue alone or joins its end (lines 45-57).
LEMMA AcquireServes ==
  ASSUME NEW t \in Table, NEW c \in Client, NEW r \in Resource, NEW m \in LockMode,
         NEW u, u = Acquire(t, c, r, m), NEW x \in Resource
  PROVE  ServesFront(t, u, x)
PROOF
<1> DEFINE req == [client |-> c, mode |-> m]
<1>1. req \in Request /\ <<req>> \in Seq(Request)
  BY DEF Request
<1> HIDE DEF req
<1>2. CASE Grantable(t, r, m)
  <2> DEFINE reqs == <<req>>
  <2>1. u = Grant(t, r, m, reqs) /\ reqs \in Seq(Request)
    BY <1>1, <1>2 DEF Acquire, req
  <2> HIDE DEF reqs
  <2>2. /\ u.mode = [t.mode EXCEPT ![r] = m]
        /\ u.holders = [t.holders EXCEPT ![r] = @ \cup NewHolders(t, reqs)]
        /\ u.queue = t.queue
    BY <2>1, GrantFields
  <2> QED
    BY <2>2, QueueKept
<1>3. CASE ~Grantable(t, r, m)
  <2>1. u = Enqueue(t, r, req)
    BY <1>3 DEF Acquire, req
  <2>2. u.queue = [t.queue EXCEPT ![r] = Append(@, req)]
    BY <2>1 DEF Enqueue, Table
  <2>3. CASE x # r
    BY <2>2, <2>3, QueueKept DEF Table
  <2>4. CASE x = r
    <3>1. t.queue[r] \in Seq(Request) /\ u.queue[r] = Append(t.queue[r], req)
      BY <2>2 DEF Table
    <3>2. 0 \in 0 .. Len(t.queue[r])
      BY <3>1
    <3>3. IsPrefix(SubSeq(t.queue[r], 0 + 1, Len(t.queue[r])), u.queue[r])
      BY <1>1, <3>1, PrefixKept
    <3> QED
      BY <2>4, <3>2, <3>3 DEF ServesFront, ServesAt
  <2> QED
    BY <2>3, <2>4
<1> QED
  BY <1>2, <1>3

\* A hand-over makes the front of the queue holders (lines 77-94).
LEMMA HandOverServes ==
  ASSUME NEW t \in Table, NEW r \in Resource, NEW u, u = HandOver(t, r), NEW x \in Resource
  PROVE  ServesFront(t, u, x)
PROOF
<1>0. t.queue \in [Resource -> Seq(Request)] /\ t.counter \in Nat
  BY DEF Table
<1>1. CASE t.queue[r] = << >>
  <2>1. u.queue = t.queue
    BY <1>1 DEF HandOver, Table
  <2> QED
    BY <2>1, QueueKept
<1>2. CASE t.queue[r] # << >>
  <2> DEFINE q     == t.queue[r]
             n     == Served(q)
             batch == SubSeq(q, 1, n)
             left  == SubSeq(q, n + 1, Len(q))
             g     == Grant(t, r, q[1].mode, batch)
  <2>1. q \in Seq(Request) /\ q # << >> /\ Len(q) \in Nat /\ Len(q) >= 1
    BY <1>0, <1>2
  <2>2. q[1].mode \in LockMode
    <3>1. q[1] \in Request
      BY <2>1
    <3> QED
      BY <3>1 DEF Request
  <2>3. n \in 1 .. Len(q)
    BY <2>1, ServedRun
  <2>4. /\ batch \in Seq(Request) /\ Len(batch) = n /\ \A i \in 1 .. n : batch[i] = q[i]
        /\ left \in Seq(Request)
    <3> HIDE DEF q, n
    <3> QED
      BY <2>1, <2>3
  <2>5. u = [g EXCEPT !.queue[r] = left, !.waits = ClearWaits(@, batch)]
    BY <1>2 DEF HandOver
  <2> HIDE DEF q, n, batch, left
  <2>6. /\ g \in Table /\ g.mode = [t.mode EXCEPT ![r] = q[1].mode]
        /\ g.queue = t.queue
        /\ g.holders = [t.holders EXCEPT ![r] = @ \cup NewHolders(t, batch)]
    <3>1. t \in Table
      OBVIOUS
    <3>2. batch \in Seq(Request)
      BY <2>4
    <3> QED
      BY <2>2, <3>1, <3>2, GrantFields
  <2> HIDE DEF g
  <2>7. u.queue = [t.queue EXCEPT ![r] = left] /\ u.holders = g.holders
    BY <2>5, <2>6 DEF Table
  <2>8. CASE x # r
    BY <1>0, <2>7, <2>8, QueueKept
  <2>9. CASE x = r
    <3>1. u.queue[r] = left /\ NewHolders(t, batch) \subseteq u.holders[r]
      BY <1>0, <2>6, <2>7 DEF Table
    <3>2. IsPrefix(SubSeq(q, n + 1, Len(q)), left)
      <4>1. SubSeq(q, n + 1, Len(q)) = left
        BY DEF left
      <4> QED
        BY <2>4, <4>1, PrefixSelf
    <3>3. ASSUME NEW i \in 1 .. n
          PROVE  \E h \in u.holders[r] : h.client = q[i].client /\ h.token > t.counter
      <4>1. [client |-> batch[i].client, token |-> t.counter + i] \in NewHolders(t, batch)
        BY <2>4 DEF NewHolders
      <4>2. t.counter + i > t.counter
        BY <1>0, <2>3
      <4> QED
        BY <2>4, <3>1, <4>1, <4>2
    <3>4. ServesAt(t, u, r, n)
      BY <3>1, <3>2, <3>3 DEF ServesAt, q
    <3> QED
      BY <2>1, <2>3, <2>9, <3>4 DEF ServesFront, q
  <2> QED
    BY <2>8, <2>9
<1> QED
  BY <1>1, <1>2

\* A release leaves the queues alone or hands over (lines 66-94).
LEMMA ReleaseServes ==
  ASSUME NEW t \in Table, NEW r \in Resource, NEW tok,
         NEW u, u = Release(t, r, tok), NEW x \in Resource
  PROVE  ServesFront(t, u, x)
PROOF
<1> DEFINE kept == WithoutToken(t, r, tok)
<1>1. kept \in Table /\ kept.queue = t.queue /\ kept.counter = t.counter
  BY DEF WithoutToken, Table
<1>2. u = kept \/ u = HandOver(kept, r)
  BY DEF Release
<1> HIDE DEF kept
<1>3. ServesFront(kept, u, x)
  BY <1>1, <1>2, QueueKept, HandOverServes
<1> QED
  BY <1>1, <1>3 DEF ServesFront, ServesAt

\* Nothing overtakes inside a queue, and a request leaves it only as a holder.
THEOREM QueuesInOrder == Spec => ServedFromFront
PROOF
<1> DEFINE Serve == \A r \in Resource : ServesFront(table, table', r)
<1>1. TableInv(table) /\ [Next]_table => [Serve]_table
  <2> SUFFICES ASSUME table \in Table, Next, NEW x \in Resource
               PROVE  ServesFront(table, table', x)
    BY DEF TableInv, WellTyped
  <2>1. ASSUME NEW c \in Client, NEW r \in Resource, NEW m \in LockMode,
               AcquireCmd(c, r, m)
        PROVE  ServesFront(table, table', x)
    BY <2>1, AcquireServes DEF AcquireCmd
  <2>2. ASSUME NEW r \in Resource, NEW tok \in 1 .. MaxRequests, ReleaseCmd(r, tok)
        PROVE  ServesFront(table, table', x)
    BY <2>2, ReleaseServes DEF ReleaseCmd
  <2> QED
    BY <2>1, <2>2 DEF Next
<1>2. [Serve]_table =>
        [\A r \in Resource :
           LET q == table.queue[r]
           IN  \E n \in 0 .. Len(q) :
                 /\ IsPrefix(SubSeq(q, n + 1, Len(q)), table'.queue[r])
                 /\ \A i \in 1 .. n :
                      \E h \in table'.holders[r] :
                        h.client = q[i].client /\ h.token > table.counter]_table
  BY DEF ServesFront, ServesAt
<1> QED
  BY <1>1, <1>2, TableInvariant, PTL DEF Spec, ServedFromFront

-----------------------------------------------------------------------------
(***************************************************************************)
(* The lock table implements the readers-writer lock of RWLock.tla, for    *)
(* any clients, resources and number of requests.                          *)
(***************************************************************************)

\* A step between two tables is a step of RWLock.tla, or none.
LEMMA LockStepIsAbstract ==
  LockStep(table, table') <=> [Abstract!Next]_<<Held(table), table.counter>>
PROOF
<1>1. Abstract!Mode = LockMode
  BY DEF Abstract!Mode, LockMode
<1>2. \A c, tok, m : Abstract!Lock(c, tok, m) = Lock(c, tok, m)
  BY DEF Abstract!Lock, Lock
<1>3. \A locks : Abstract!Compatible(locks) <=> Compatible(locks)
  BY DEF Abstract!Compatible, Compatible
<1>4. Held(table)' = Held(table')
  BY DEF Held
<1>5. ASSUME NEW r \in Resource
      PROVE  /\ TakesLock(table, table', r) <=> Abstract!Take(r)
             /\ GivesLock(table, table', r) <=> Abstract!Give(r)
             /\ PassesLock(table, table', r) <=> Abstract!PassOn(r)
  <2>1. TakesLock(table, table', r) <=> Abstract!Take(r)
    BY <1>1, <1>2, <1>3, <1>4, Zenon DEF TakesLock, Abstract!Take
  <2>2. GivesLock(table, table', r) <=> Abstract!Give(r)
    BY <1>4 DEF GivesLock, Abstract!Give
  <2>3. PassesLock(table, table', r) <=> Abstract!PassOn(r)
    BY <1>1 DEF PassesLock, Abstract!PassOn, Held, Lock, Abstract!Lock, Compatible,
                Abstract!Compatible
  <2> QED
    BY <2>1, <2>2, <2>3
<1>6. SameLocks(table, table') <=> UNCHANGED <<Held(table), table.counter>>
  BY <1>4 DEF SameLocks
<1> QED
  BY <1>5, <1>6 DEF LockStep, Abstract!Next

\* Every command on the table is a step of a readers-writer lock, or none.
THEOREM TableIsRWLock == Spec => ImplementsRWLock
PROOF
<1>1. Init => Abstract!Init
  BY DEF Init, Abstract!Init, Held, EmptyTable
<1>2. TableInv(table) /\ [Next]_table => [Abstract!Next]_<<Held(table), table.counter>>
  <2>1. SUFFICES ASSUME TableInv(table), [Next]_table PROVE LockStep(table, table')
    BY LockStepIsAbstract
  <2>2. ASSUME NEW c \in Client, NEW r \in Resource, NEW m \in LockMode, AcquireCmd(c, r, m)
        PROVE  LockStep(table, table')
    BY <2>1, <2>2, AcquireEffect DEF AcquireCmd, LockStep
  <2>3. ASSUME NEW r \in Resource, NEW tok \in 1 .. MaxRequests, ReleaseCmd(r, tok)
        PROVE  LockStep(table, table')
    BY <2>1, <2>3, ReleaseEffect DEF ReleaseCmd, LockStep
  <2>4. CASE UNCHANGED table
    BY <2>4 DEF SameLocks, LockStep
  <2> QED
    BY <2>1, <2>2, <2>3, <2>4 DEF Next
<1> QED
  BY <1>1, <1>2, TableInvariant, PTL DEF Spec, ImplementsRWLock, Abstract!Spec

-----------------------------------------------------------------------------
(***************************************************************************)
(* The deadlock search, for any wait-for graph and any orders of the sets. *)
(***************************************************************************)

\* f is a loop of n turns.
Loops(f, n, start, step) ==
  f = [i \in 0 .. n |-> IF i = 0 THEN start ELSE step[<<i, f[i - 1]>>]]

\* If what is carried from turn to turn is in S, there is such a function.
LEMMA Turns ==
  ASSUME NEW n \in Nat, NEW S, NEW start \in S, NEW step \in [(1 .. n) \X S -> S]
  PROVE  \E f \in [0 .. n -> S] : Loops(f, n, start, step)
PROOF
<1> DEFINE Is(f, k) ==
             f = [i \in 0 .. k |-> IF i = 0 THEN start ELSE step[<<i, f[i - 1]>>]]
           T == {k \in 0 .. n : \E f \in [0 .. k -> S] : Is(f, k)}
<1>1. 0 \in T
  <2> DEFINE f == [i \in 0 .. 0 |-> start]
             g == [i \in 0 .. 0 |-> IF i = 0 THEN start ELSE step[<<i, f[i - 1]>>]]
  <2>1. \A i \in 0 .. 0 : f[i] = g[i]
    OBVIOUS
  <2>2. f = g
    BY <2>1
  <2>3. Is(f, 0)
    BY <2>2, Zenon
  <2>4. f \in [0 .. 0 -> S]
    OBVIOUS
  <2> HIDE DEF Is, f
  <2> QED
    BY <2>3, <2>4
<1>2. ASSUME NEW k \in 0 .. n, k + 1 <= n, k \in T
      PROVE  k + 1 \in T
  <2>1. PICK f \in [0 .. k -> S] : Is(f, k)
    BY <1>2
  <2> DEFINE g == [i \in 0 .. k + 1 |-> IF i = 0 THEN start ELSE step[<<i, f[i - 1]>>]]
             e == [i \in 0 .. k + 1 |-> IF i = 0 THEN start ELSE step[<<i, g[i - 1]>>]]
  <2>2. \A i \in 0 .. k + 1 : i # 0 => i - 1 \in 0 .. k /\ i \in 1 .. n
    BY <1>2
  <2>3. \A i \in 0 .. k : g[i] = f[i]
    <3>1. \A i \in 0 .. k : f[i] = IF i = 0 THEN start ELSE step[<<i, f[i - 1]>>]
      BY <2>1
    <3>2. \A i \in 0 .. k : i \in 0 .. k + 1
      OBVIOUS
    <3> QED
      BY <3>1, <3>2
  <2>4. \A i \in 0 .. k + 1 : i # 0 => g[i - 1] = f[i - 1]
    BY <2>2, <2>3
  <2>5. \A i \in 0 .. k + 1 : g[i] = e[i]
    BY <2>4
  <2>6. g = e
    BY <2>5
  <2>7. Is(g, k + 1)
    BY <2>6, Zenon
  <2>8. g \in [0 .. k + 1 -> S]
    <3>1. \A i \in 0 .. k + 1 : i # 0 => step[<<i, f[i - 1]>>] \in S
      <4> TAKE i \in 0 .. k + 1
      <4> HAVE i # 0
      <4>1. PICK x : x = <<i, f[i - 1]>>
        OBVIOUS
      <4>2. x \in (1 .. n) \X S
        BY <2>2, <4>1
      <4> QED
        BY <4>1, <4>2
    <3> QED
      BY <3>1
  <2>9. k + 1 \in 0 .. n
    BY <1>2
  <2> HIDE DEF Is, g
  <2> QED
    BY <2>7, <2>8, <2>9
<1>3. n \in T
  <2>1. n \in 0 .. n /\ 0 \in Nat
    OBVIOUS
  <2> HIDE DEF T
  <2> QED
    BY <1>1, <1>2, <2>1, UpTo
<1> QED
  BY <1>3 DEF Loops

\* Whoever is reached waits in turn for clients that are reached.
LEMMA ReachedSteps ==
  ASSUME NEW G, NEW edges \in [G -> SUBSET G], NEW c \in G
  PROVE  /\ Reached(edges, c) \subseteq G
         /\ edges[c] \subseteq Reached(edges, c)
         /\ \A x \in Reached(edges, c) : edges[x] \subseteq Reached(edges, c)
         /\ \A S \in SUBSET G :
              edges[c] \subseteq S /\ (\A v \in S : edges[v] \subseteq S)
                => Reached(edges, c) \subseteq S
PROOF
<1>1. DOMAIN edges = G
  OBVIOUS
<1> QED
  BY <1>1 DEF Reached

-----------------------------------------------------------------------------

\* Clients the search has left: none of them waits for itself, nor for anybody
\* the search has not left.
Done(s) == s.visited \ s.stack

Clean(waits, s) ==
  /\ s.stack \subseteq s.visited
  /\ \A x \in Done(s) : waits[x] \subseteq Done(s) /\ x \notin Reached(waits, x)

\* dfs(u) is called with a path to u on the stack.
Callable(waits, u, s) ==
  /\ ~s.found /\ u \notin s.visited /\ Clean(waits, s)
  /\ \A x \in s.stack : u \in Reached(waits, x)

\* What a call of dfs(u) returns.
Returns(waits, u, s, t) ==
  /\ t.found => HasCycle(waits)
  /\ ~t.found => Clean(waits, t) /\ t.stack = s.stack /\ s.visited \cup {u} \subseteq t.visited

\* dfs does what it should where so many clients at most are not visited.
Searches(waits, f, d) ==
  LET G == DOMAIN waits
  IN  /\ f \in [G \X SearchState(G) -> SearchState(G)]
      /\ \A u \in G, s \in SearchState(G) :
           Callable(waits, u, s) /\ Cardinality(G \ s.visited) <= d
             => Returns(waits, u, s, f[<<u, s>>])

\* Every set is walked from end to end.
Walked(waits, roots, walk) ==
  LET G == DOMAIN waits
  IN  /\ IsFiniteSet(G) /\ waits \in [G -> SUBSET G]
      /\ roots \in Seq(G) /\ \A u \in G : waits[u] # {} => \E i \in 1 .. Len(roots) : roots[i] = u
      /\ walk \in [G -> Seq(G)]
      /\ \A u \in G : \A v \in waits[u] : \E i \in 1 .. Len(walk[u]) : walk[u][i] = v

\* While dfs(u) looks at the successors of u, having looked at i of its walk.
Looking(waits, walk, u, s, a, i) ==
  /\ a.found => HasCycle(waits)
  /\ ~a.found =>
       /\ Clean(waits, a)
       /\ a.stack = s.stack \cup {u} /\ s.visited \cup {u} \subseteq a.visited
       /\ \A j \in 1 .. i : walk[u][j] \in waits[u] => walk[u][j] \in Done(a)

\* A turn of the loop over the successors (lock_service.py:103-107).
LEMMA VisitLooks ==
  ASSUME NEW G, NEW waits \in [G -> SUBSET G], IsFiniteSet(G),
         NEW walk, NEW u \in G, NEW s \in SearchState(G), Callable(waits, u, s),
         NEW d \in Nat, Cardinality(G \ s.visited) <= d + 1,
         NEW f, Searches(waits, f, d),
         NEW i \in Nat, NEW v \in G, v = walk[u][i + 1],
         NEW a \in SearchState(G), Looking(waits, walk, u, s, a, i),
         NEW b, b = Visit(waits, u, v, a, f)
  PROVE  b \in SearchState(G) /\ Looking(waits, walk, u, s, b, i + 1)
PROOF
<1>0. DOMAIN waits = G
  OBVIOUS
<1>1. \A j \in 1 .. i + 1 : j \in 1 .. i \/ j = i + 1
  OBVIOUS
<1>2. CASE a.found \/ v \notin waits[u]
  <2>1. b = a
    BY <1>2 DEF Visit
  <2> QED
    BY <1>1, <1>2, <2>1 DEF Looking
<1>3. CASE ~a.found /\ v \in waits[u]
  <2>1. \A x \in a.stack : v \in Reached(waits, x)
    <3> TAKE x \in a.stack
    <3>1. x = u \/ x \in s.stack
      BY <1>3 DEF Looking
    <3>2. CASE x = u
      BY <1>3, <3>2, ReachedSteps
    <3>3. CASE x \in s.stack
      <4>1. x \in G /\ u \in Reached(waits, x)
        BY <3>3 DEF Callable, SearchState
      <4> QED
        BY <1>3, <4>1, ReachedSteps
    <3> QED
      BY <3>1, <3>2, <3>3
  <2>2. CASE v \in a.stack
    <3>1. v \in Reached(waits, v)
      BY <2>1, <2>2
    <3>2. HasCycle(waits)
      BY <1>0, <3>1 DEF HasCycle
    <3>3. v \in a.visited
      BY <1>3, <2>2 DEF Looking, Clean
    <3>4. b = [a EXCEPT !.found = TRUE]
      BY <1>3, <2>2, <3>3 DEF Visit
    <3>5. b \in SearchState(G) /\ b.found
      BY <3>4 DEF SearchState
    <3> QED
      BY <3>2, <3>5 DEF Looking
  <2>3. CASE v \notin a.stack /\ v \in a.visited
    <3>1. b = a
      BY <1>3, <2>3 DEF Visit
    <3>2. v \in Done(a)
      BY <2>3 DEF Done
    <3> QED
      BY <1>1, <1>3, <3>1, <3>2 DEF Looking
  <2>4. CASE v \notin a.visited
    <3>1. Callable(waits, v, a)
      BY <1>3, <2>1, <2>4 DEF Callable, Looking
    <3>2. Cardinality(G \ a.visited) <= d
      <4>1. u \in G \ s.visited /\ u \notin G \ a.visited /\ G \ a.visited \subseteq G \ s.visited
        BY <1>3 DEF Callable, Looking
      <4>2. IsFiniteSet(G \ s.visited) /\ IsFiniteSet(G \ a.visited)
        BY FS_Difference
      <4>3. Cardinality(G \ a.visited) < Cardinality(G \ s.visited)
        BY <4>1, <4>2, FS_Subset, FS_CardinalityType
      <4> QED
        BY <4>2, <4>3, FS_CardinalityType
    <3>3. PICK x : x = <<v, a>>
      OBVIOUS
    <3>4. PICK t : t = f[x]
      OBVIOUS
    <3>5. t \in SearchState(G)
      BY <1>0, <3>3, <3>4 DEF Searches
    <3>6. Returns(waits, v, a, t)
      BY <1>0, <3>1, <3>2, <3>3, <3>4 DEF Searches
    <3>7. b = IF v \in t.stack THEN [t EXCEPT !.found = TRUE] ELSE t
      BY <1>3, <2>4, <3>3, <3>4 DEF Visit
    <3>8. CASE t.found
      <4>1. b \in SearchState(G) /\ b.found
        BY <3>5, <3>7, <3>8 DEF SearchState
      <4> QED
        BY <3>6, <3>8, <4>1 DEF Returns, Looking
    <3>9. CASE ~t.found
      <4>1. Clean(waits, t) /\ t.stack = a.stack /\ a.visited \cup {v} \subseteq t.visited
        BY <3>6, <3>9 DEF Returns
      <4>2. v \notin a.stack
        BY <1>3, <2>4 DEF Looking, Clean
      <4>3. b = t
        BY <3>7, <4>1, <4>2
      <4>4. Done(a) \cup {v} \subseteq Done(t)
        BY <4>1, <4>2 DEF Done
      <4> QED
        BY <1>1, <1>3, <3>5, <3>9, <4>1, <4>3, <4>4 DEF Looking
    <3> QED
      BY <3>8, <3>9
  <2> QED
    BY <2>2, <2>3, <2>4
<1> QED
  BY <1>2, <1>3

\* Such a turn gives a search state, whatever the calls below it return.
LEMMA VisitTypes ==
  ASSUME NEW G, NEW waits \in [G -> SUBSET G],
         NEW f \in [G \X SearchState(G) -> SearchState(G)],
         NEW u \in G, NEW v \in G, NEW a \in SearchState(G)
  PROVE  Visit(waits, u, v, a, f) \in SearchState(G)
PROOF
<1>1. PICK x : x = <<v, a>>
  OBVIOUS
<1>2. x \in G \X SearchState(G)
  BY <1>1
<1>3. PICK below : below = IF v \in a.visited THEN a ELSE f[x]
  OBVIOUS
<1>4. below \in SearchState(G)
  BY <1>2, <1>3
<1>5. [below EXCEPT !.found = TRUE] \in SearchState(G)
  BY <1>4 DEF SearchState
<1>6. \/ Visit(waits, u, v, a, f) = a
      \/ Visit(waits, u, v, a, f) = below
      \/ Visit(waits, u, v, a, f) = [below EXCEPT !.found = TRUE]
  <2>1. CASE a.found \/ v \notin waits[u]
    BY <2>1 DEF Visit
  <2>2. CASE ~a.found /\ v \in waits[u]
    BY <1>1, <1>3, <2>2 DEF Visit
  <2> QED
    BY <2>1, <2>2
<1> QED
  BY <1>4, <1>5, <1>6

\* So do the two ends of dfs(u) (lock_service.py:101-102 and 108).
LEMMA EnterTypes ==
  ASSUME NEW G, NEW u \in G, NEW s \in SearchState(G)
  PROVE  Enter(s, u) \in SearchState(G) /\ Leave(s, u) \in SearchState(G)
BY DEF Enter, Leave, SearchState

\* turn is the loop of dfs(u).
LoopOf(turn, waits, walk, u, s, f) ==
  LET n == Len(walk[u])
  IN  /\ \A i \in 0 .. n : turn[i] \in SearchState(DOMAIN waits)
      /\ turn[0] = Enter(s, u)
      /\ \A i \in 1 .. n : turn[i] = Visit(waits, u, walk[u][i], turn[i - 1], f)
      /\ Dfs(waits, walk, u, s, f) = IF turn[n].found THEN turn[n] ELSE Leave(turn[n], u)

\* The loop over the successors: its recursive function exists.
LEMMA DfsTurns ==
  ASSUME NEW G, NEW waits \in [G -> SUBSET G], NEW walk \in [G -> Seq(G)],
         NEW f \in [G \X SearchState(G) -> SearchState(G)],
         NEW u \in G, NEW s \in SearchState(G)
  PROVE  \E turn : LoopOf(turn, waits, walk, u, s, f)
PROOF
<1>1. PICK n \in Nat : n = Len(walk[u])
  OBVIOUS
<1>2. \A i \in 1 .. n : walk[u][i] \in G
  <2>1. PICK w \in Seq(G) : w = walk[u]
    OBVIOUS
  <2> QED
    BY <1>1, <2>1
<1> DEFINE St == SearchState(G)
           step == [x \in (1 .. n) \X St |-> Visit(waits, u, walk[u][x[1]], x[2], f)]
           start == Enter(s, u)
           Is(h) == h = [i \in 0 .. n |->
                           IF i = 0 THEN start ELSE Visit(waits, u, walk[u][i], h[i - 1], f)]
<1>3. step \in [(1 .. n) \X St -> St] /\ start \in St
  <2>1. \A x \in (1 .. n) \X St : walk[u][x[1]] \in G /\ x[2] \in St
    BY <1>2
  <2> HIDE DEF St
  <2>2. \A x \in (1 .. n) \X St : Visit(waits, u, walk[u][x[1]], x[2], f) \in St
    BY <2>1, VisitTypes DEF St
  <2> QED
    BY <2>2, EnterTypes DEF St
<1>4. PICK g \in [0 .. n -> St] : Loops(g, n, start, step)
  <2> HIDE DEF St, step, start
  <2> QED
    BY <1>3, Turns
<1>5. Is(g)
  <2> DEFINE e == [i \in 0 .. n |->
                     IF i = 0 THEN start ELSE Visit(waits, u, walk[u][i], g[i - 1], f)]
  <2>1. ASSUME NEW i \in 0 .. n, i # 0
        PROVE  step[<<i, g[i - 1]>>] = Visit(waits, u, walk[u][i], g[i - 1], f)
    <3>1. i \in 1 .. n /\ i - 1 \in 0 .. n
      BY <2>1
    <3>2. PICK y \in St : y = g[i - 1]
      BY <3>1
    <3>3. PICK x : x = <<i, y>>
      OBVIOUS
    <3>4. x \in (1 .. n) \X St /\ x[1] = i /\ x[2] = y
      BY <3>1, <3>3
    <3>5. step[x] = Visit(waits, u, walk[u][i], y, f)
      BY <3>4
    <3> QED
      BY <3>2, <3>3, <3>5
  <2> HIDE DEF step, start, St
  <2>2. \A i \in 0 .. n : g[i] = e[i]
    BY <1>4, <2>1 DEF Loops
  <2>3. g = e
    BY <1>4, <2>2
  <2> QED
    BY <2>3, Zenon
<1>6. PICK h : h = CHOOSE x : Is(x)
  OBVIOUS
<1>7. Is(h)
  <2> HIDE DEF Is
  <2> QED
    BY <1>5, <1>6
<1>8. Dfs(waits, walk, u, s, f) = IF h[n].found THEN h[n] ELSE Leave(h[n], u)
  BY <1>1, <1>6 DEF Dfs
<1>9. h[0] = start /\ \A i \in 1 .. n : h[i] = Visit(waits, u, walk[u][i], h[i - 1], f)
  BY <1>7
<1>10. \A i \in 0 .. n : i + 1 <= n => i + 1 \in 1 .. n /\ i + 1 \in 0 .. n /\ (i + 1) - 1 = i
  OBVIOUS
<1>11. \A i \in 0 .. n : h[i] \in St
  <2> DEFINE T == {i \in 0 .. n : h[i] \in St}
  <2>1. 0 \in T
    BY <1>3, <1>9
  <2>2. ASSUME NEW i \in 0 .. n, i + 1 <= n, h[i] \in St PROVE h[i + 1] \in St
    <3>1. i + 1 \in 1 .. n /\ (i + 1) - 1 = i
      BY <1>10, <2>2
    <3>2. PICK v \in G : v = walk[u][i + 1]
      BY <1>2, <3>1
    <3>3. PICK y \in St : y = h[i]
      BY <2>2
    <3>4. h[i + 1] = Visit(waits, u, v, y, f)
      BY <1>9, <3>1, <3>2, <3>3
    <3>5. y \in SearchState(G)
      OBVIOUS
    <3> HIDE DEF St, step, start, Is
    <3>6. Visit(waits, u, v, y, f) \in SearchState(G)
      BY <3>5, VisitTypes
    <3> QED
      BY <3>4, <3>6 DEF St
  <2> HIDE DEF St
  <2>3. ASSUME NEW i \in 0 .. n, i + 1 <= n, i \in T PROVE i + 1 \in T
    BY <1>10, <2>2, <2>3
  <2>4. \A i \in 0 .. n : i \in T
    <3>1. 0 \in Nat
      OBVIOUS
    <3> HIDE DEF T
    <3> QED
      BY <2>1, <2>3, <3>1, UpTo
  <2> QED
    BY <2>4
<1>12. DOMAIN waits = G
  OBVIOUS
<1> QED
  BY <1>1, <1>8, <1>9, <1>11, <1>12 DEF LoopOf

\* dfs(u) returns a state of the search.
LEMMA DfsTypes ==
  ASSUME NEW G, NEW waits \in [G -> SUBSET G], NEW walk \in [G -> Seq(G)],
         NEW f \in [G \X SearchState(G) -> SearchState(G)],
         NEW u \in G, NEW s \in SearchState(G)
  PROVE  Dfs(waits, walk, u, s, f) \in SearchState(G)
PROOF
<1>1. PICK turn : LoopOf(turn, waits, walk, u, s, f)
  BY DfsTurns
<1>2. PICK n \in Nat : n = Len(walk[u])
  OBVIOUS
<1>3. PICK last : last = turn[n]
  OBVIOUS
<1>4. last \in SearchState(G) /\ n \in 0 .. n
  BY <1>1, <1>2, <1>3 DEF LoopOf
<1>5. Dfs(waits, walk, u, s, f) = IF last.found THEN last ELSE Leave(last, u)
  BY <1>1, <1>2, <1>3 DEF LoopOf
<1> QED
  BY <1>4, <1>5, EnterTypes

\* What dfs(u) returns, if the calls it makes return what they should
\* (lock_service.py:100-109).
LEMMA DfsReturns ==
  ASSUME NEW G, NEW waits, DOMAIN waits = G, NEW roots, NEW walk, Walked(waits, roots, walk),
         NEW d \in Nat, NEW f, Searches(waits, f, d),
         NEW u \in G, NEW s \in SearchState(G)
  PROVE  /\ Dfs(waits, walk, u, s, f) \in SearchState(G)
         /\ Callable(waits, u, s) /\ Cardinality(G \ s.visited) <= d + 1
              => Returns(waits, u, s, Dfs(waits, walk, u, s, f))
PROOF
<1>1. /\ waits \in [G -> SUBSET G] /\ walk \in [G -> Seq(G)] /\ IsFiniteSet(G)
      /\ f \in [G \X SearchState(G) -> SearchState(G)]
  BY DEF Walked, Searches
<1>2. PICK n \in Nat : n = Len(walk[u])
  BY <1>1
<1>3. \A i \in 1 .. n : walk[u][i] \in G
  <2>1. PICK w \in Seq(G) : w = walk[u]
    BY <1>1
  <2> QED
    BY <1>2, <2>1
<1>4. PICK turn :
        /\ \A i \in 0 .. n : turn[i] \in SearchState(G)
        /\ turn[0] = Enter(s, u)
        /\ \A i \in 1 .. n : turn[i] = Visit(waits, u, walk[u][i], turn[i - 1], f)
        /\ Dfs(waits, walk, u, s, f) = IF turn[n].found THEN turn[n] ELSE Leave(turn[n], u)
  <2>1. PICK turn : LoopOf(turn, waits, walk, u, s, f)
    BY <1>1, DfsTurns
  <2> QED
    BY <1>2, <2>1 DEF LoopOf
<1>5. PICK last \in SearchState(G) : last = turn[n]
  BY <1>4
<1>6. Leave(last, u) \in SearchState(G)
  BY EnterTypes
<1>7. ASSUME Callable(waits, u, s), Cardinality(G \ s.visited) <= d + 1
      PROVE  Returns(waits, u, s, Dfs(waits, walk, u, s, f))
  <2> DEFINE T == {i \in 0 .. n : Looking(waits, walk, u, s, turn[i], i)}
  <2>1. 0 \in T
    <3>1. PICK a : a = Enter(s, u)
      OBVIOUS
    <3>2. /\ a.visited = s.visited \cup {u} /\ a.stack = s.stack \cup {u} /\ ~a.found
          /\ Done(a) = Done(s)
      BY <1>7, <3>1 DEF Enter, Callable, Clean, Done, SearchState
    <3>3. Clean(waits, a)
      BY <1>7, <3>2 DEF Callable, Clean
    <3>4. 1 .. 0 = {}
      OBVIOUS
    <3>5. Looking(waits, walk, u, s, a, 0)
      BY <3>2, <3>3, <3>4 DEF Looking
    <3> QED
      BY <1>4, <3>1, <3>5
  <2>2. ASSUME NEW i \in 0 .. n, i + 1 <= n, i \in T PROVE i + 1 \in T
    <3>1. i + 1 \in 1 .. n /\ (i + 1) - 1 = i /\ i \in Nat
      BY <2>2
    <3>2. turn[i + 1] = Visit(waits, u, walk[u][i + 1], turn[i], f)
      BY <1>4, <3>1
    <3>3. turn[i] \in SearchState(G) /\ walk[u][i + 1] \in G
      BY <1>3, <1>4, <3>1
    <3>4. Looking(waits, walk, u, s, turn[i], i)
      BY <2>2
    <3>5. PICK v \in G : v = walk[u][i + 1]
      BY <3>3
    <3>6. Looking(waits, walk, u, s, turn[i + 1], i + 1)
      BY <1>1, <1>7, <3>1, <3>2, <3>3, <3>4, <3>5, VisitLooks
    <3> QED
      BY <3>1, <3>6
  <2>3. n \in T
    <3>1. 0 \in Nat /\ n \in 0 .. n
      OBVIOUS
    <3> HIDE DEF T
    <3> QED
      BY <2>1, <2>2, <3>1, UpTo
  <2>4. Looking(waits, walk, u, s, last, n)
    BY <1>5, <2>3
  <2>5. CASE last.found
    BY <1>4, <1>5, <2>4, <2>5 DEF Looking, Returns
  <2>6. CASE ~last.found
    <3>1. /\ Clean(waits, last)
          /\ last.stack = s.stack \cup {u} /\ s.visited \cup {u} \subseteq last.visited
          /\ \A j \in 1 .. n : walk[u][j] \in waits[u] => walk[u][j] \in Done(last)
      BY <2>4, <2>6 DEF Looking
    <3>2. \A v \in waits[u] : v \in Done(last)
      <4> TAKE v \in waits[u]
      <4>1. PICK i \in 1 .. n : walk[u][i] = v
        <5>1. \A x \in G : \A y \in waits[x] : \E i \in 1 .. Len(walk[x]) : walk[x][i] = y
          BY DEF Walked
        <5> QED
          BY <1>2, <5>1
      <4> QED
        BY <3>1, <4>1
    <3>3. u \notin Reached(waits, u)
      <4>1. Done(last) \in SUBSET G /\ u \notin Done(last)
        BY <3>1 DEF Done, SearchState
      <4>2. Reached(waits, u) \subseteq Done(last)
        <5>1. \A x \in Done(last) : waits[x] \subseteq Done(last)
          BY <3>1 DEF Clean
        <5> QED
          BY <1>1, <3>2, <4>1, <5>1, ReachedSteps
      <4> QED
        BY <4>1, <4>2
    <3>4. PICK t : t = Leave(last, u)
      OBVIOUS
    <3>5. u \notin s.stack
      BY <1>7 DEF Callable, Clean
    <3>6. /\ t.visited = last.visited /\ t.stack = s.stack /\ ~t.found
          /\ Done(t) = Done(last) \cup {u}
      BY <2>6, <3>1, <3>4, <3>5 DEF Leave, Done, SearchState
    <3>7. Clean(waits, t)
      BY <3>1, <3>2, <3>3, <3>6 DEF Clean
    <3>8. Returns(waits, u, s, t)
      BY <3>1, <3>6, <3>7 DEF Returns
    <3> QED
      BY <1>4, <1>5, <2>6, <3>4, <3>8
  <2> QED
    BY <2>5, <2>6
<1> QED
  BY <1>4, <1>5, <1>6, <1>7

\* The recursion: however deep the calls may go, dfs does what it should where
\* no more clients than that are not visited.
LEMMA SearchSearches ==
  ASSUME NEW G, NEW waits, DOMAIN waits = G, NEW roots, NEW walk, Walked(waits, roots, walk),
         NEW n \in Nat
  PROVE  Searches(waits, Search(waits, walk, n), n)
PROOF
<1> DEFINE St    == SearchState(G)
           Calls == G \X St
           F     == [Calls -> St]
           first == [x \in Calls |-> x[2]]
           deep(f) == [x \in Calls |-> Dfs(waits, walk, x[1], x[2], f)]
           Is(h) == h = [d \in 0 .. n |->
                           [x \in Calls |-> IF d = 0 THEN x[2]
                                              ELSE Dfs(waits, walk, x[1], x[2], h[d - 1])]]
           step  == [y \in (1 .. n) \X F |-> deep(y[2])]
<1>1. waits \in [G -> SUBSET G] /\ walk \in [G -> Seq(G)] /\ IsFiniteSet(G)
  BY DEF Walked
<1>2. \A x \in Calls : x[1] \in G /\ x[2] \in St
  OBVIOUS
<1>3. first \in F
  BY <1>2
<1>4. ASSUME NEW f \in F
      PROVE  deep(f) \in F
  <2>1. ASSUME NEW x \in Calls PROVE Dfs(waits, walk, x[1], x[2], f) \in St
    <3>1. PICK u \in G : u = x[1]
      BY <1>2
    <3>2. PICK s \in SearchState(G) : s = x[2]
      BY <1>2
    <3>3. f \in [G \X SearchState(G) -> SearchState(G)]
      OBVIOUS
    <3> HIDE DEF St, Calls, F, first, deep, Is, step
    <3>4. Dfs(waits, walk, u, s, f) \in SearchState(G)
      BY <1>1, <3>3, DfsTypes
    <3> QED
      BY <3>1, <3>2, <3>4 DEF St
  <2> QED
    BY <2>1
<1>5. step \in [(1 .. n) \X F -> F]
  <2>1. \A y \in (1 .. n) \X F : y[2] \in F
    OBVIOUS
  <2> HIDE DEF F, deep
  <2> QED
    BY <1>4, <2>1
<1>6. PICK g \in [0 .. n -> F] : Loops(g, n, first, step)
  <2> HIDE DEF F, step, first
  <2> QED
    BY <1>3, <1>5, Turns
<1>7. Is(g)
  <2> DEFINE e == [d \in 0 .. n |->
                     [x \in Calls |-> IF d = 0 THEN x[2]
                                        ELSE Dfs(waits, walk, x[1], x[2], g[d - 1])]]
  <2>1. ASSUME NEW d \in 0 .. n, d # 0
        PROVE  step[<<d, g[d - 1]>>] = deep(g[d - 1])
    <3>1. d \in 1 .. n /\ d - 1 \in 0 .. n
      BY <2>1
    <3> HIDE DEF F, deep
    <3>2. PICK f \in F : f = g[d - 1]
      BY <3>1
    <3>3. PICK y : y = <<d, f>>
      OBVIOUS
    <3>4. y \in (1 .. n) \X F /\ y[2] = f
      BY <3>1, <3>3
    <3>5. step[y] = deep(f)
      BY <3>4
    <3> QED
      BY <3>2, <3>3, <3>5
  <2>2. ASSUME NEW d \in 0 .. n
        PROVE  g[d] = e[d]
    <3>1. g[d] = IF d = 0 THEN first ELSE step[<<d, g[d - 1]>>]
      <4> HIDE DEF first, step
      <4> QED
        BY <1>6 DEF Loops
    <3>2. CASE d = 0
      <4>1. e[d] = [x \in Calls |-> x[2]]
        BY <3>2
      <4> HIDE DEF e, step, Calls
      <4> QED
        BY <3>1, <3>2, <4>1
    <3>3. CASE d # 0
      <4>1. g[d] = deep(g[d - 1])
        BY <2>1, <3>1, <3>3
      <4>2. e[d] = deep(g[d - 1])
        BY <3>3
      <4> QED
        BY <4>1, <4>2
    <3> QED
      BY <3>2, <3>3
  <2>3. g = e
    <3> HIDE DEF F, Calls
    <3> QED
      BY <2>2
  <2> QED
    BY <2>3, Zenon
<1>8. PICK h : h = CHOOSE x : Is(x)
  OBVIOUS
<1>9. Is(h)
  <2> HIDE DEF Is
  <2> QED
    BY <1>7, <1>8
<1>10. Search(waits, walk, n) = h[n]
  BY <1>8 DEF Search
<1>11. \A d \in 0 .. n : h[d] = IF d = 0 THEN first ELSE deep(h[d - 1])
  BY <1>9
<1> HIDE DEF Is, step
<1>12. \A d \in 0 .. n : d + 1 <= n => d + 1 \in 1 .. n /\ d + 1 \in 0 .. n /\ (d + 1) - 1 = d
  OBVIOUS
<1> DEFINE T == {d \in 0 .. n : Searches(waits, h[d], d)}
<1>13. 0 \in T
  <2>1. h[0] = first
    <3>1. 0 \in 0 .. n
      OBVIOUS
    <3> HIDE DEF deep, first
    <3> QED
      BY <1>11, <3>1
  <2>2. ASSUME NEW u \in G, NEW s \in SearchState(G), Callable(waits, u, s),
               Cardinality(G \ s.visited) <= 0
        PROVE  FALSE
    <3>1. IsFiniteSet(G \ s.visited)
      BY <1>1, FS_Difference
    <3>2. G \ s.visited = {}
      BY <2>2, <3>1, FS_CardinalityType, FS_EmptySet
    <3> QED
      BY <2>2, <3>2 DEF Callable
  <2>3. Searches(waits, first, 0)
    BY <1>3, <2>2 DEF Searches
  <2> QED
    BY <2>1, <2>3
<1>14. ASSUME NEW d \in 0 .. n, d + 1 <= n, d \in T
       PROVE  d + 1 \in T
  <2>1. d \in Nat /\ d + 1 \in 0 .. n /\ h[d + 1] = deep(h[d])
    <3> HIDE DEF deep, first
    <3> QED
      BY <1>11, <1>12, <1>14
  <2>2. PICK f : f = h[d]
    OBVIOUS
  <2>3. Searches(waits, f, d) /\ f \in F
    BY <1>14, <2>2 DEF Searches
  <2>4. PICK k : k = deep(f)
    OBVIOUS
  <2>5. k \in F
    BY <1>4, <2>3, <2>4
  <2>6. ASSUME NEW u \in G, NEW s \in SearchState(G), Callable(waits, u, s),
               Cardinality(G \ s.visited) <= d + 1
        PROVE  Returns(waits, u, s, k[<<u, s>>])
    <3>1. PICK x : x = <<u, s>>
      OBVIOUS
    <3>2. x \in Calls /\ x[1] = u /\ x[2] = s
      BY <3>1
    <3>3. k[x] = Dfs(waits, walk, u, s, f)
      BY <2>4, <3>2
    <3>4. Returns(waits, u, s, Dfs(waits, walk, u, s, f))
      BY <2>1, <2>3, <2>6, DfsReturns
    <3> QED
      BY <3>1, <3>3, <3>4
  <2>7. Searches(waits, k, d + 1)
    BY <2>5, <2>6 DEF Searches
  <2> QED
    BY <2>1, <2>2, <2>4, <2>7
<1>15. n \in T
  <2>1. 0 \in Nat /\ n \in 0 .. n
    OBVIOUS
  <2> HIDE DEF T
  <2> QED
    BY <1>13, <1>14, <2>1, UpTo
<1> QED
  BY <1>10, <1>15

-----------------------------------------------------------------------------

\* After i of the roots.
Rooted(waits, roots, a, i) ==
  /\ a.found => HasCycle(waits)
  /\ ~a.found =>
       /\ Clean(waits, a) /\ a.stack = {}
       /\ \A j \in 1 .. i : waits[roots[j]] # {} => roots[j] \in a.visited

\* A turn of the loop over the roots (lock_service.py:111).
LEMMA RootSearches ==
  ASSUME NEW G, NEW waits, DOMAIN waits = G, NEW roots, NEW n \in Nat, IsFiniteSet(G),
         n = Cardinality(G),
         NEW dfs, Searches(waits, dfs, n), NEW i \in Nat, NEW u \in G, u = roots[i + 1],
         NEW a \in SearchState(G), Rooted(waits, roots, a, i),
         NEW b, b = FromRoot(waits, u, a, dfs)
  PROVE  b \in SearchState(G) /\ Rooted(waits, roots, b, i + 1)
PROOF
<1>1. \A j \in 1 .. i + 1 : j \in 1 .. i \/ j = i + 1
  OBVIOUS
<1>2. CASE a.found \/ u \in a.visited \/ waits[u] = {}
  <2>1. b = a
    BY <1>2 DEF FromRoot
  <2> QED
    BY <1>1, <1>2, <2>1 DEF Rooted
<1>3. CASE ~(a.found \/ u \in a.visited \/ waits[u] = {})
  <2>1. Clean(waits, a) /\ a.stack = {}
    BY <1>3 DEF Rooted
  <2>2. Callable(waits, u, a)
    BY <1>3, <2>1 DEF Callable
  <2>3. Cardinality(G \ a.visited) <= n
    BY FS_Subset, FS_CardinalityType
  <2>4. PICK x : x = <<u, a>>
    OBVIOUS
  <2>5. b = dfs[x]
    BY <1>3, <2>4 DEF FromRoot
  <2>6. b \in SearchState(G)
    BY <2>4, <2>5 DEF Searches
  <2>7. Returns(waits, u, a, b)
    BY <2>2, <2>3, <2>4, <2>5 DEF Searches
  <2>8. CASE b.found
    BY <2>6, <2>7, <2>8 DEF Returns, Rooted
  <2>9. CASE ~b.found
    <3>1. Clean(waits, b) /\ b.stack = {} /\ a.visited \cup {u} \subseteq b.visited
      BY <2>1, <2>7, <2>9 DEF Returns
    <3> QED
      BY <1>1, <1>3, <2>6, <2>9, <3>1 DEF Rooted
  <2> QED
    BY <2>8, <2>9
<1> QED
  BY <1>2, <1>3

\* Whoever waits for nobody reaches nobody.
LEMMA NobodyReached ==
  ASSUME NEW G, NEW waits \in [G -> SUBSET G], NEW u \in G, waits[u] = {}
  PROVE  Reached(waits, u) = {}
PROOF
<1>1. {} \in SUBSET G /\ waits[u] \subseteq {} /\ \A v \in {} : waits[v] \subseteq {}
  OBVIOUS
<1>2. Reached(waits, u) \subseteq {}
  BY <1>1, ReachedSteps
<1> QED
  BY <1>2

\* The loop over the roots: its recursive function exists.
LEMMA RootTurns ==
  ASSUME NEW waits, NEW roots, NEW walk, Walked(waits, roots, walk),
         NEW G, G = DOMAIN waits, NEW dfs \in [G \X SearchState(G) -> SearchState(G)],
         dfs = Search(waits, walk, Cardinality(G))
  PROVE  \E turn :
           /\ turn[0] = Start
           /\ \A i \in 1 .. Len(roots) : turn[i] = FromRoot(waits, roots[i], turn[i - 1], dfs)
           /\ DeadlockCheck(waits, roots, walk) = turn[Len(roots)].found
PROOF
<1> DEFINE St == SearchState(G)
<1>1. PICK n \in Nat : n = Len(roots)
  BY DEF Walked
<1>2. \A i \in 1 .. n : roots[i] \in G
  BY <1>1 DEF Walked
<1> DEFINE step == [x \in (1 .. n) \X St |-> FromRoot(waits, roots[x[1]], x[2], dfs)]
           Is(h) == h = [i \in 0 .. n |->
                           IF i = 0 THEN Start ELSE FromRoot(waits, roots[i], h[i - 1], dfs)]
<1>3. Start \in St
  BY DEF Start, SearchState
<1>4. step \in [(1 .. n) \X St -> St]
  <2>1. ASSUME NEW u \in G, NEW s \in St PROVE FromRoot(waits, u, s, dfs) \in St
    <3>1. PICK x : x = <<u, s>>
      OBVIOUS
    <3>2. dfs[x] \in St
      BY <3>1
    <3> HIDE DEF St
    <3>3. FromRoot(waits, u, s, dfs) = s \/ FromRoot(waits, u, s, dfs) = dfs[x]
      BY <3>1 DEF FromRoot
    <3> QED
      BY <3>2, <3>3
  <2> HIDE DEF St
  <2>2. \A x \in (1 .. n) \X St : roots[x[1]] \in G /\ x[2] \in St
    BY <1>2
  <2> QED
    BY <2>1, <2>2
<1>5. PICK g \in [0 .. n -> St] : Loops(g, n, Start, step)
  <2> HIDE DEF St, step
  <2> QED
    BY <1>3, <1>4, Turns
<1>6. Is(g)
  <2> DEFINE e == [i \in 0 .. n |->
                     IF i = 0 THEN Start ELSE FromRoot(waits, roots[i], g[i - 1], dfs)]
  <2>1. ASSUME NEW i \in 0 .. n, i # 0
        PROVE  step[<<i, g[i - 1]>>] = FromRoot(waits, roots[i], g[i - 1], dfs)
    <3>1. i \in 1 .. n /\ i - 1 \in 0 .. n
      BY <2>1
    <3> HIDE DEF St
    <3>2. PICK y \in St : y = g[i - 1]
      BY <3>1
    <3>3. PICK x : x = <<i, y>>
      OBVIOUS
    <3>4. x \in (1 .. n) \X St /\ x[1] = i /\ x[2] = y
      BY <3>1, <3>3
    <3>5. step[x] = FromRoot(waits, roots[i], y, dfs)
      BY <3>4
    <3> QED
      BY <3>2, <3>3, <3>5
  <2> HIDE DEF step, St
  <2>2. \A i \in 0 .. n : g[i] = e[i]
    BY <1>5, <2>1 DEF Loops
  <2>3. g = e
    BY <1>5, <2>2
  <2> QED
    BY <2>3, Zenon
<1>7. PICK h : h = CHOOSE x : Is(x)
  OBVIOUS
<1>8. Is(h)
  <2> HIDE DEF Is
  <2> QED
    BY <1>6, <1>7
<1>9. DeadlockCheck(waits, roots, walk) = h[n].found
  BY <1>1, <1>7 DEF DeadlockCheck
<1>10. h[0] = Start /\ \A i \in 1 .. n : h[i] = FromRoot(waits, roots[i], h[i - 1], dfs)
  BY <1>8
<1> QED
  BY <1>1, <1>9, <1>10

\* For any wait-for graph, and in whatever order each of its sets is walked, the
\* search of deadlock_check answers True exactly if the graph has a cycle
\* (lock_service.py:96-112).
THEOREM SearchIsExact ==
  ASSUME NEW waits, NEW roots, NEW walk, Walked(waits, roots, walk)
  PROVE  DeadlockCheck(waits, roots, walk) <=> HasCycle(waits)
PROOF
<1>1. PICK G : G = DOMAIN waits
  OBVIOUS
<1>2. waits \in [G -> SUBSET G] /\ IsFiniteSet(G)
  BY <1>1 DEF Walked
<1>3. PICK c \in Nat : c = Cardinality(G)
  BY <1>2, FS_CardinalityType
<1>4. PICK dfs : dfs = Search(waits, walk, c)
  OBVIOUS
<1>5. Searches(waits, dfs, c)
  BY <1>1, <1>4, SearchSearches
<1>6. PICK n \in Nat : n = Len(roots)
  BY DEF Walked
<1>7. \A i \in 1 .. n : roots[i] \in G
  BY <1>1, <1>6 DEF Walked
<1>8. PICK turn :
        /\ turn[0] = Start
        /\ \A i \in 1 .. n : turn[i] = FromRoot(waits, roots[i], turn[i - 1], dfs)
        /\ DeadlockCheck(waits, roots, walk) = turn[n].found
  <2>1. dfs \in [G \X SearchState(G) -> SearchState(G)]
    BY <1>1, <1>5 DEF Searches
  <2> QED
    BY <1>1, <1>3, <1>4, <1>6, <2>1, RootTurns
<1> DEFINE T == {i \in 0 .. n : turn[i] \in SearchState(G) /\ Rooted(waits, roots, turn[i], i)}
<1>9. 0 \in T
  <2>1. 1 .. 0 = {}
    OBVIOUS
  <2>2. /\ Start.visited = {} /\ Start.stack = {} /\ ~Start.found
        /\ Start \in SearchState(G)
    BY DEF Start, SearchState
  <2>3. Clean(waits, Start)
    BY <2>2 DEF Clean, Done
  <2>4. Rooted(waits, roots, Start, 0)
    BY <2>1, <2>2, <2>3 DEF Rooted
  <2> QED
    BY <1>8, <2>2, <2>4
<1>10. ASSUME NEW i \in 0 .. n, i + 1 <= n, i \in T
       PROVE  i + 1 \in T
  <2>1. i + 1 \in 1 .. n /\ (i + 1) - 1 = i /\ i \in Nat /\ i + 1 \in 0 .. n
    BY <1>10
  <2>2. PICK u \in G : u = roots[i + 1]
    BY <1>7, <2>1
  <2>3. PICK a : a = turn[i]
    OBVIOUS
  <2>4. a \in SearchState(G) /\ Rooted(waits, roots, a, i)
    BY <1>10, <2>3
  <2>5. PICK b : b = FromRoot(waits, u, a, dfs)
    OBVIOUS
  <2>6. b \in SearchState(G) /\ Rooted(waits, roots, b, i + 1)
    BY <1>1, <1>2, <1>3, <1>5, <2>1, <2>2, <2>4, <2>5, RootSearches
  <2>7. turn[i + 1] = b
    BY <1>8, <2>1, <2>2, <2>3, <2>5
  <2> QED
    BY <2>1, <2>6, <2>7
<1>11. n \in T
  <2>1. 0 \in Nat /\ n \in 0 .. n
    OBVIOUS
  <2> HIDE DEF T
  <2> QED
    BY <1>9, <1>10, <2>1, UpTo
<1>12. PICK last : last = turn[n]
  OBVIOUS
<1>13. last \in SearchState(G) /\ Rooted(waits, roots, last, n)
  BY <1>11, <1>12
<1>14. ASSUME ~last.found, NEW u \in G
       PROVE  u \notin Reached(waits, u)
  <2>1. CASE waits[u] = {}
    BY <1>2, <2>1, NobodyReached
  <2>2. CASE waits[u] # {}
    <3>1. PICK i \in 1 .. n : roots[i] = u
      BY <1>1, <1>6, <2>2 DEF Walked
    <3>2. u \in last.visited /\ last.stack = {} /\ Clean(waits, last)
      BY <1>13, <1>14, <2>2, <3>1 DEF Rooted
    <3> QED
      BY <3>2 DEF Clean, Done
  <2> QED
    BY <2>1, <2>2
<1>15. last.found <=> HasCycle(waits)
  BY <1>1, <1>13, <1>14 DEF HasCycle, Rooted, SearchState
<1> QED
  BY <1>8, <1>12, <1>15

\* The verdict of deadlock_check is right in every table that any number of
\* clients can bring about.
THEOREM DeadlockIsFound == Spec => []DfsExact
PROOF
<1>1. TypeOK => DfsExact
  <2> SUFFICES ASSUME TypeOK, NEW roots \in Orders, NEW order \in Orders
               PROVE  Check(roots, order) <=> HasCycle(table.waits)
    BY DEF DfsExact
  <2>1. PICK waits : waits = table.waits
    OBVIOUS
  <2>2. waits \in [Client -> SUBSET Client]
    BY <2>1 DEF TypeOK, WellTyped, Table
  <2>3. PICK n \in Nat : n = Cardinality(Client)
    BY ClientIsFinite, FS_CardinalityType
  <2>4. ASSUME NEW o \in Orders
        PROVE  /\ o \in Seq(Client) /\ Len(o) = n
               /\ \A c \in Client : \E i \in 1 .. n : o[i] = c
    <3>1. o \in [1 .. n -> Client] /\ \A i, j \in 1 .. n : i # j => o[i] # o[j]
      BY <2>3 DEF Orders, SetToSeqs
    <3>2. o \in Injection(1 .. n, Client)
      BY <3>1 DEF Injection, IsInjective
    <3>3. IsFiniteSet(1 .. n) /\ Cardinality(1 .. n) = n
      BY FS_Interval
    <3>4. o \in Surjection(1 .. n, Client)
      BY <2>3, <3>2, <3>3, ClientIsFinite, FS_Injection
    <3> QED
      BY <3>1, <3>4 DEF Surjection
  <2>5. PICK walk : walk = [c \in Client |-> order]
    OBVIOUS
  <2>6. Walked(waits, roots, walk)
    <3>1. DOMAIN waits = Client /\ walk \in [Client -> Seq(Client)]
      BY <2>2, <2>4, <2>5
    <3>2. \A u \in Client : Len(walk[u]) = n /\ walk[u] = order
      BY <2>4, <2>5
    <3>3. \A u \in Client : \A v \in waits[u] : \E i \in 1 .. Len(walk[u]) : walk[u][i] = v
      BY <2>2, <2>4, <3>2
    <3>4. \A u \in Client : \E i \in 1 .. Len(roots) : roots[i] = u
      BY <2>4
    <3> QED
      BY <2>2, <2>4, <3>1, <3>3, <3>4, ClientIsFinite DEF Walked
  <2>7. DeadlockCheck(waits, roots, walk) <=> HasCycle(waits)
    BY <2>6, SearchIsExact
  <2> QED
    BY <2>1, <2>5, <2>7 DEF Check
<1> QED
  BY <1>1, TypeCorrect, PTL

\* c waits in the end for itself, and everybody on the way queues somewhere.
Alarmed(c) ==
  /\ c \in Reached(table.waits, c)
  /\ \A x \in Reached(table.waits, c) :
       c \in Reached(table.waits, x) => \E r \in Resource : Queued(table, x, r)

\* There is no alarm without a queue: when deadlock_check answers True, there
\* are clients that all queue and whose edges lead back to them
\* (lock_service.py:31-35, 56-58, 85, 93, 96-112).
THEOREM AlarmsHaveWaiters ==
  Spec => [](\A roots, order \in Orders : Check(roots, order) => \E c \in Client : Alarmed(c))
PROOF
<1>1. ASSUME TypeOK, WaitersQueued, DfsExact,
             NEW roots \in Orders, NEW order \in Orders, Check(roots, order)
      PROVE  \E c \in Client : Alarmed(c)
  <2>1. PICK waits \in [Client -> SUBSET Client] : waits = table.waits
    BY <1>1 DEF TypeOK, WellTyped, Table
  <2>2. PICK c \in Client : c \in Reached(waits, c)
    BY <1>1, <2>1 DEF DfsExact, HasCycle
  <2>3. ASSUME NEW x \in Reached(waits, c), c \in Reached(waits, x)
        PROVE  \E r \in Resource : Queued(table, x, r)
    <3>1. x \in Client
      BY <2>3, ReachedSteps
    <3>2. waits[x] # {}
      BY <2>3, <3>1, NobodyReached
    <3> QED
      BY <1>1, <2>1, <3>1, <3>2 DEF WaitersQueued, EdgesFromQueues
  <2> QED
    BY <2>1, <2>2, <2>3 DEF Alarmed
<1> DEFINE Alarms == \A roots, order \in Orders :
                       Check(roots, order) => \E c \in Client : Alarmed(c)
<1>2. TypeOK /\ WaitersQueued /\ DfsExact => Alarms
  BY <1>1
<1> QED
  BY <1>2, TypeCorrect, EdgesOnlyFromWaiters, DeadlockIsFound, PTL
=============================================================================
