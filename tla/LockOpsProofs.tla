--------------------------- MODULE LockOpsProofs ---------------------------
(***************************************************************************)
(* What the operations of the lock table do to a table, for any number of  *)
(* clients, resources and requests: the predicates of LockOps are          *)
(* preserved together, operator by operator.  LockTableProofs is about the *)
(* table alone, LockServiceProofs about the tables of replicated nodes.    *)
(***************************************************************************)
EXTENDS LockOps, WellFoundedInduction, TLAPS

\* The inductive invariant: exclusion needs to know that nobody queues at a
\* free resource, which needs the head of the queue to conflict with the
\* holders, which needs a mode for every held resource.
TableInv(t) ==
  /\ WellTyped(t)
  /\ Excludes(t)
  /\ HeadBlocks(t)
  /\ UniqueTokens(t)
  /\ EdgesFromQueues(t)

\* Served picks the longest run of shared requests, or one exclusive request:
\* the front of a queue is granted up to the first conflict (lines 77-94).
LEMMA ServedRun ==
  ASSUME NEW q \in Seq(Request), q # << >>
  PROVE  /\ Served(q) \in 1 .. Len(q)
         /\ \A i \in 1 .. Served(q) : q[i].mode = q[1].mode
         /\ q[1].mode = "exclusive" => Served(q) = 1
         /\ q[1].mode = "shared" /\ Served(q) < Len(q) =>
              q[Served(q) + 1].mode = "exclusive"
PROOF
<1> DEFINE Run(n) == /\ \A i \in 1 .. n : q[i].mode = "shared"
                     /\ n < Len(q) => q[n + 1].mode # "shared"
<1>1. Len(q) \in Nat /\ Len(q) >= 1
  OBVIOUS
<1>2. \A i \in 1 .. Len(q) : q[i].mode \in LockMode
  <2>1. \A i \in 1 .. Len(q) : q[i] \in Request
    OBVIOUS
  <2> QED
    BY <2>1 DEF Request
<1>3. CASE q[1].mode = "exclusive"
  <2>1. Served(q) = 1
    BY <1>3 DEF Served
  <2> QED
    BY <2>1, <1>1, <1>3
<1>4. CASE q[1].mode # "exclusive"
  <2>1. q[1].mode = "shared"
    BY <1>1, <1>2, <1>4 DEF LockMode
  <2>2. \E n \in 1 .. Len(q) : Run(n)
    <3> DEFINE Ends == {n \in 1 .. Len(q) : n < Len(q) => q[n + 1].mode # "shared"}
    <3>1. Ends \subseteq Nat /\ Len(q) \in Ends
      BY <1>1
    <3>2. PICK m \in Ends : \A k \in Ends : ~(<<k, m>> \in OpToRel(<, Nat))
      <4> HIDE DEF Ends
      <4> QED
      BY <3>1, WFMin, NatLessThanWellFounded
    <3>3. \A k \in Ends : ~(k < m)
      BY <3>1, <3>2 DEF OpToRel
    <3>4. \A i \in 1 .. m : q[i].mode = "shared"
      <4>1. SUFFICES ASSUME NEW i \in 1 .. m, i # 1 PROVE q[i].mode = "shared"
        BY <2>1
      <4>2. i - 1 \in 1 .. Len(q) /\ i - 1 < m /\ m \in 1 .. Len(q)
        BY <1>1, <4>1
      <4>3. i - 1 \notin Ends
        BY <3>3, <4>2
      <4> QED
        BY <1>1, <4>2, <4>3
    <3> QED
      BY <3>4
  <2>3. Served(q) = CHOOSE n \in 1 .. Len(q) : Run(n)
    BY <1>4 DEF Served
  <2>4. Served(q) \in 1 .. Len(q) /\ Run(Served(q))
    <3> HIDE DEF Run
    <3> QED
      BY <2>2, <2>3
  <2>5. Served(q) < Len(q) => q[Served(q) + 1].mode = "exclusive"
    <3>1. SUFFICES ASSUME Served(q) < Len(q) PROVE q[Served(q) + 1].mode = "exclusive"
      OBVIOUS
    <3>2. Served(q) + 1 \in 1 .. Len(q)
      BY <1>1, <2>4, <3>1
    <3>3. q[Served(q) + 1].mode # "shared"
      BY <2>4, <3>1
    <3> QED
      BY <1>2, <3>2, <3>3 DEF LockMode
  <2> QED
    BY <2>1, <2>4, <2>5, <1>1
<1> QED
  BY <1>3, <1>4

-----------------------------------------------------------------------------

\* The fields of a table after a grant (lines 46-48, 52-53, 83-84, 91-92).
LEMMA GrantFields ==
  ASSUME NEW t \in Table, NEW r \in Resource, NEW m \in LockMode,
         NEW reqs \in Seq(Request), NEW g, g = Grant(t, r, m, reqs)
  PROVE  /\ g \in Table
         /\ g.mode = [t.mode EXCEPT ![r] = m]
         /\ g.holders = [t.holders EXCEPT ![r] = @ \cup NewHolders(t, reqs)]
         /\ g.queue = t.queue
         /\ g.waits = t.waits
         /\ g.counter = t.counter + Len(reqs)
PROOF
<1>1. NewHolders(t, reqs) \in SUBSET Holder
  <2>1. SUFFICES ASSUME NEW i \in 1 .. Len(reqs)
                 PROVE  [client |-> reqs[i].client, token |-> t.counter + i] \in Holder
    BY DEF NewHolders
  <2>2. reqs[i] \in Request /\ t.counter \in Nat
    BY DEF Table
  <2> QED
    BY <2>2 DEF Request, Holder
<1>2. t.counter + Len(reqs) \in Nat
  BY DEF Table
<1> QED
  BY <1>1, <1>2 DEF Grant, Table

\* A grant that is allowed keeps exclusion at its resource and the tokens of
\* the whole table apart.
LEMMA GrantPreserves ==
  ASSUME NEW t, WellTyped(t), UniqueTokens(t),
         NEW r \in Resource, NEW m \in LockMode, NEW reqs \in Seq(Request),
         reqs # << >>, Grantable(t, r, m),
         m = "exclusive" => Len(reqs) = 1,
         \A x \in Resource \ {r} : ExcludesAt(t, x),
         NEW g, g = Grant(t, r, m, reqs)
  PROVE  WellTyped(g) /\ UniqueTokens(g) /\ Excludes(g)
PROOF
<1>0. /\ t \in Table /\ t.counter \in Nat /\ Len(reqs) \in Nat
      /\ t.holders \in [Resource -> SUBSET Holder]
  BY DEF WellTyped, Table
<1>1. /\ g \in Table
      /\ g.mode = [t.mode EXCEPT ![r] = m]
      /\ g.holders = [t.holders EXCEPT ![r] = @ \cup NewHolders(t, reqs)]
      /\ g.counter = t.counter + Len(reqs)
  BY <1>0, GrantFields
<1>2. \A h \in NewHolders(t, reqs) :
        h.token \in Nat /\ h.token > t.counter /\ h.token <= g.counter
  BY <1>0, <1>1 DEF NewHolders
<1>3. \A h1, h2 \in NewHolders(t, reqs) : h1.token = h2.token => h1 = h2
  BY <1>0 DEF NewHolders
<1>4. \A x \in Resource : \A h \in t.holders[x] : h.token \in 1 .. t.counter
  BY DEF WellTyped
<1>5. WellTyped(g)
  <2>1. SUFFICES ASSUME NEW x \in Resource, NEW h \in g.holders[x]
                 PROVE  h.token \in 1 .. g.counter
    BY <1>1 DEF WellTyped
  <2>2. h \in t.holders[x] \/ h \in NewHolders(t, reqs)
    BY <1>0, <1>1
  <2> QED
    BY <2>2, <1>0, <1>1, <1>2, <1>4
<1>6. UniqueTokens(g)
  <2>1. SUFFICES ASSUME NEW r1 \in Resource, NEW r2 \in Resource,
                        NEW h1 \in g.holders[r1], NEW h2 \in g.holders[r2],
                        h1.token = h2.token
                 PROVE  r1 = r2 /\ h1 = h2
    BY DEF UniqueTokens
  <2>2. /\ h1 \in t.holders[r1] \/ (r1 = r /\ h1 \in NewHolders(t, reqs))
        /\ h2 \in t.holders[r2] \/ (r2 = r /\ h2 \in NewHolders(t, reqs))
    BY <1>0, <1>1
  <2>3. CASE h1 \in t.holders[r1] /\ h2 \in t.holders[r2]
    BY <2>1, <2>3 DEF UniqueTokens
  <2>4. CASE h1 \in NewHolders(t, reqs) /\ h2 \in NewHolders(t, reqs)
    <3>1. r1 = r /\ r2 = r
      BY <2>2, <2>4, <1>0, <1>2, <1>4
    <3> QED
      BY <3>1, <2>1, <2>4, <1>3
  <2>5. ~(h1 \in t.holders[r1] /\ h2 \in NewHolders(t, reqs))
    BY <2>1, <1>0, <1>2, <1>4
  <2>6. ~(h2 \in t.holders[r2] /\ h1 \in NewHolders(t, reqs))
    BY <2>1, <1>0, <1>2, <1>4
  <2> QED
    BY <2>2, <2>3, <2>4, <2>5, <2>6
<1>7. Excludes(g)
  <2>1. SUFFICES ASSUME NEW x \in Resource PROVE ExcludesAt(g, x)
    BY DEF Excludes
  <2>2. CASE x # r
    <3>1. g.mode[x] = t.mode[x] /\ g.holders[x] = t.holders[x]
      BY <1>0, <1>1, <2>2 DEF Table
    <3> QED
      BY <3>1, <2>2 DEF ExcludesAt
  <2>3. CASE x = r
    <3>1. g.mode[x] = m /\ g.holders[x] = t.holders[r] \cup NewHolders(t, reqs)
      BY <1>0, <1>1, <2>3 DEF Table
    <3>2. NewHolders(t, reqs) # {}
      <4>1. 1 \in 1 .. Len(reqs)
        OBVIOUS
      <4> QED
        BY <4>1 DEF NewHolders
    <3>3. m = "exclusive" => t.holders[r] = {}
      BY DEF Grantable
    <3>4. m = "exclusive" => \A h1, h2 \in NewHolders(t, reqs) : h1 = h2
      <4>1. SUFFICES ASSUME Len(reqs) = 1,
                            NEW h1 \in NewHolders(t, reqs), NEW h2 \in NewHolders(t, reqs)
                     PROVE  h1 = h2
        OBVIOUS
      <4>2. \A h \in NewHolders(t, reqs) :
              h = [client |-> reqs[1].client, token |-> t.counter + 1]
        BY <4>1 DEF NewHolders
      <4> QED
        BY <4>2
    <3>5. m # Free
      BY FreeIsNoMode
    <3> QED
      BY <3>1, <3>2, <3>3, <3>4, <3>5 DEF ExcludesAt
  <2> QED
    BY <2>2, <2>3
<1> QED
  BY <1>5, <1>6, <1>7

\* A resource whose last holder is gone is free, or goes to the front of its
\* queue: exclusion, the blocked head and the wait-for edges are all restored,
\* whatever was left in the mode (lines 73-94).
LEMMA HandOverPreserves ==
  ASSUME NEW t, WellTyped(t), UniqueTokens(t), EdgesFromQueues(t),
         NEW r \in Resource, t.holders[r] = {},
         \A x \in Resource \ {r} : ExcludesAt(t, x) /\ HeadBlocksAt(t, x),
         NEW u, u = HandOver(t, r)
  PROVE  TableInv(u)
PROOF
<1>0. /\ t \in Table /\ t.counter \in Nat
      /\ t.mode \in [Resource -> LockMode \cup {Free}]
      /\ t.holders \in [Resource -> SUBSET Holder]
      /\ t.queue \in [Resource -> Seq(Request)]
      /\ t.waits \in [Client -> SUBSET Client]
  BY DEF WellTyped, Table
<1>1. CASE t.queue[r] = << >>
  <2>1. /\ u \in Table
        /\ u.mode = [t.mode EXCEPT ![r] = Free]
        /\ u.holders = t.holders /\ u.queue = t.queue
        /\ u.waits = t.waits /\ u.counter = t.counter
    BY <1>0, <1>1 DEF HandOver, Table
  <2>2. WellTyped(u) /\ UniqueTokens(u)
    BY <2>1 DEF WellTyped, UniqueTokens
  <2>3. EdgesFromQueues(u)
    BY <2>1 DEF EdgesFromQueues, Queued
  <2>4. \A x \in Resource \ {r} : ExcludesAt(u, x) /\ HeadBlocksAt(u, x)
    BY <1>0, <2>1 DEF ExcludesAt, HeadBlocksAt
  <2>5. ExcludesAt(u, r) /\ HeadBlocksAt(u, r)
    BY <1>0, <1>1, <2>1 DEF ExcludesAt, HeadBlocksAt
  <2> QED
    BY <2>2, <2>3, <2>4, <2>5 DEF TableInv, Excludes, HeadBlocks
<1>2. CASE t.queue[r] # << >>
  <2> DEFINE q     == t.queue[r]
             n     == Served(q)
             batch == SubSeq(q, 1, n)
             left  == SubSeq(q, n + 1, Len(q))
             g     == Grant(t, r, q[1].mode, batch)
  <2>1. q \in Seq(Request) /\ q # << >> /\ Len(q) \in Nat /\ Len(q) >= 1
    BY <1>0, <1>2
  <2>2. q[1].mode \in LockMode
    <3>1. q[1] \in Request
      BY <2>1
    <3> QED
      BY <3>1 DEF Request
  <2>3. /\ n \in 1 .. Len(q)
        /\ \A i \in 1 .. n : q[i].mode = q[1].mode
        /\ q[1].mode = "exclusive" => n = 1
        /\ q[1].mode = "shared" /\ n < Len(q) => q[n + 1].mode = "exclusive"
    BY <2>1, ServedRun
  <2>4. /\ batch \in Seq(Request) /\ Len(batch) = n /\ batch # << >>
        /\ left \in Seq(Request) /\ Len(left) = Len(q) - n
        /\ \A i \in 1 .. Len(left) : left[i] = q[n + i]
        /\ \A i \in 1 .. n : batch[i] = q[i]
    <3> HIDE DEF q, n
    <3>1. n \in Nat /\ n >= 1 /\ n <= Len(q) /\ Len(q) \in Nat /\ q \in Seq(Request)
      BY <2>1, <2>3
    <3>2. /\ batch \in Seq(Request) /\ Len(batch) = n
          /\ \A i \in 1 .. n : batch[i] = q[i]
      BY <3>1
    <3>3. left \in Seq(Request) /\ Len(left) = Len(q) - n
      BY <3>1
    <3>4. \A i \in 1 .. Len(left) : left[i] = q[n + i]
      BY <3>1, <3>3
    <3>5. batch # << >>
      BY <3>1, <3>2
    <3> QED
      BY <3>2, <3>3, <3>4, <3>5
  <2>5. u = [g EXCEPT !.queue[r] = left, !.waits = ClearWaits(@, batch)]
    BY <1>2 DEF HandOver
  <2> HIDE DEF q, n, batch, left, g
  <2>6. WellTyped(g) /\ UniqueTokens(g) /\ Excludes(g)
    BY <2>2, <2>3, <2>4, GrantPreserves DEF g, Grantable
  <2>7. /\ g \in Table
        /\ g.mode = [t.mode EXCEPT ![r] = q[1].mode]
        /\ g.holders = [t.holders EXCEPT ![r] = @ \cup NewHolders(t, batch)]
        /\ g.queue = t.queue /\ g.waits = t.waits
    <3>1. t \in Table /\ batch \in Seq(Request)
      BY <1>0, <2>4
    <3> QED
      BY <2>2, <3>1, GrantFields DEF g
  <2>8. /\ u \in Table
        /\ u.mode = g.mode /\ u.holders = g.holders /\ u.counter = g.counter
        /\ u.queue = [t.queue EXCEPT ![r] = left]
        /\ u.waits = ClearWaits(t.waits, batch)
    <3>1. ClearWaits(g.waits, batch) \in [Client -> SUBSET Client]
      BY <1>0, <2>7 DEF ClearWaits
    <3>2. left \in Seq(Request) /\ g \in Table
      BY <2>4, <2>7
    <3>3. /\ u \in Table
          /\ u.mode = g.mode /\ u.holders = g.holders /\ u.counter = g.counter
          /\ u.queue = [g.queue EXCEPT ![r] = left]
          /\ u.waits = ClearWaits(g.waits, batch)
      <4>1. /\ u.mode = g.mode /\ u.holders = g.holders /\ u.counter = g.counter
            /\ u.queue = [g.queue EXCEPT ![r] = left]
            /\ u.waits = ClearWaits(g.waits, batch)
        BY <2>5, <3>2 DEF Table
      <4>2. u \in Table
        <5>1. [g.queue EXCEPT ![r] = left] \in [Resource -> Seq(Request)]
          BY <3>2 DEF Table
        <5>2. u = [g EXCEPT !.queue = [g.queue EXCEPT ![r] = left],
                            !.waits = ClearWaits(g.waits, batch)]
          BY <2>5, <3>2 DEF Table
        <5> QED
          BY <3>1, <3>2, <5>1, <5>2 DEF Table
      <4> QED
        BY <4>1, <4>2
    <3> QED
      BY <2>7, <3>3
  <2>9. WellTyped(u) /\ UniqueTokens(u) /\ Excludes(u)
    BY <2>6, <2>8 DEF WellTyped, UniqueTokens, Excludes, ExcludesAt
  <2>10. HeadBlocks(u)
    <3>1. SUFFICES ASSUME NEW x \in Resource PROVE HeadBlocksAt(u, x)
      BY DEF HeadBlocks
    <3>2. CASE x # r
      <4>1. /\ u.queue[x] = t.queue[x] /\ u.holders[x] = t.holders[x]
            /\ u.mode[x] = t.mode[x]
        BY <1>0, <2>7, <2>8, <3>2
      <4> QED
        BY <3>2, <4>1 DEF HeadBlocksAt
    <3>3. CASE x = r
      <4>1. u.queue[r] = left /\ u.mode[r] = q[1].mode
        BY <1>0, <2>7, <2>8
      <4>2. u.holders[r] # {}
        <5>1. u.mode[r] # Free
          BY <2>2, <4>1, FreeIsNoMode
        <5> QED
          BY <2>9, <5>1 DEF Excludes, ExcludesAt
      <4>3. left # << >> /\ q[1].mode = "shared" => left[1].mode = "exclusive"
        BY <2>1, <2>3, <2>4
      <4> QED
        BY <3>3, <4>1, <4>2, <4>3 DEF HeadBlocksAt
    <3> QED
      BY <3>2, <3>3
  <2>11. EdgesFromQueues(u)
    <3>1. SUFFICES ASSUME NEW c \in Client, u.waits[c] # {}
                   PROVE  \E x \in Resource : Queued(u, c, x)
      BY DEF EdgesFromQueues
    <3>2. t.waits[c] # {} /\ ~(\E i \in 1 .. Len(batch) : batch[i].client = c)
      BY <2>8, <3>1 DEF ClearWaits
    <3>3. PICK x \in Resource : Queued(t, c, x)
      BY <3>2 DEF EdgesFromQueues
    <3>4. PICK i \in 1 .. Len(t.queue[x]) : t.queue[x][i].client = c
      BY <3>3 DEF Queued
    <3>5. CASE x # r
      <4>1. u.queue[x] = t.queue[x]
        BY <1>0, <2>8, <3>5
      <4> QED
        BY <3>4, <4>1 DEF Queued
    <3>6. CASE x = r
      <4>1. u.queue[x] = left /\ i \in 1 .. Len(q) /\ q[i].client = c
        BY <1>0, <2>8, <3>4, <3>6 DEF q
      <4>2. i > n
        BY <2>1, <2>3, <2>4, <3>2, <4>1
      <4>3. i - n \in 1 .. Len(left) /\ left[i - n] = q[i]
        BY <2>1, <2>3, <2>4, <4>1, <4>2
      <4> QED
        BY <4>1, <4>3 DEF Queued
    <3> QED
      BY <3>5, <3>6
  <2> QED
    BY <2>9, <2>10, <2>11 DEF TableInv
<1> QED
  BY <1>1, <1>2

-----------------------------------------------------------------------------

\* One acquire command, granted or queued (lines 39-58).
LEMMA AcquirePreserves ==
  ASSUME NEW t, TableInv(t),
         NEW c \in Client, NEW r \in Resource, NEW m \in LockMode,
         NEW u, u = Acquire(t, c, r, m)
  PROVE  TableInv(u)
PROOF
<1> DEFINE req == [client |-> c, mode |-> m]
<1>0. /\ t \in Table
      /\ t.mode \in [Resource -> LockMode \cup {Free}]
      /\ t.holders \in [Resource -> SUBSET Holder]
      /\ t.queue \in [Resource -> Seq(Request)]
      /\ t.waits \in [Client -> SUBSET Client]
  BY DEF TableInv, WellTyped, Table
<1>1. req \in Request /\ <<req>> \in Seq(Request) /\ <<req>> # << >> /\ Len(<<req>>) = 1
  BY DEF Request
<1>2. CASE Grantable(t, r, m)
  <2>1. u = Grant(t, r, m, <<req>>)
    BY <1>2 DEF Acquire
  <2> DEFINE reqs == <<req>>
  <2> HIDE DEF req
  <2>2. WellTyped(u) /\ UniqueTokens(u) /\ Excludes(u)
    BY <1>1, <1>2, <2>1, GrantPreserves DEF TableInv, Excludes
  <2>3. /\ u.mode = [t.mode EXCEPT ![r] = m]
        /\ u.holders = [t.holders EXCEPT ![r] = @ \cup NewHolders(t, reqs)]
        /\ u.queue = t.queue /\ u.waits = t.waits
    <3>1. t \in Table /\ reqs \in Seq(Request) /\ u = Grant(t, r, m, reqs)
      BY <1>0, <1>1, <2>1
    <3> HIDE DEF reqs
    <3> QED
      BY <3>1, GrantFields
  <2> HIDE DEF reqs
  <2>4. EdgesFromQueues(u)
    BY <2>3 DEF TableInv, EdgesFromQueues, Queued
  <2>5. HeadBlocks(u)
    <3>1. SUFFICES ASSUME NEW x \in Resource, t.queue[x] # << >>
                   PROVE  HeadBlocksAt(u, x)
      BY <2>3 DEF HeadBlocks, HeadBlocksAt
    <3>2. HeadBlocksAt(t, x)
      BY DEF TableInv, HeadBlocks
    <3>3. CASE x # r
      BY <1>0, <2>3, <3>2, <3>3 DEF HeadBlocksAt
    <3>4. CASE x = r
      <4>1. t.holders[r] # {} /\ t.mode[r] = "shared" /\ m = "shared"
        BY <1>2, <3>1, <3>2, <3>4 DEF Grantable, HeadBlocksAt
      <4>2. u.holders[r] # {} /\ u.mode[r] = t.mode[r]
        BY <1>0, <2>3, <4>1
      <4> QED
        BY <2>3, <3>1, <3>2, <3>4, <4>1, <4>2 DEF HeadBlocksAt
    <3> QED
      BY <3>3, <3>4
  <2> QED
    BY <2>2, <2>4, <2>5 DEF TableInv
<1>3. CASE ~Grantable(t, r, m)
  <2>1. u = Enqueue(t, r, req)
    BY <1>3 DEF Acquire
  <2>2. HolderClients(t, r) \in SUBSET Client
    BY <1>0 DEF HolderClients, Holder
  <2>3. /\ u \in Table
        /\ u.mode = t.mode /\ u.holders = t.holders /\ u.counter = t.counter
        /\ u.queue = [t.queue EXCEPT ![r] = Append(@, req)]
        /\ u.waits = [t.waits EXCEPT ![c] = @ \cup HolderClients(t, r)]
    <3>1. Append(t.queue[r], req) \in Seq(Request)
      BY <1>0, <1>1
    <3>2. t.waits[c] \cup HolderClients(t, r) \in SUBSET Client
      BY <1>0, <2>2
    <3>3. u = [t EXCEPT !.queue[r] = Append(@, req),
                        !.waits[c] = @ \cup HolderClients(t, r)]
      BY <2>1 DEF Enqueue
    <3>4. t \in Table
      BY <1>0
    <3> DEFINE longer == Append(t.queue[r], req)
               edges  == t.waits[c] \cup HolderClients(t, r)
    <3>5. /\ u = [t EXCEPT !.queue[r] = longer, !.waits[c] = edges]
          /\ longer \in Seq(Request) /\ edges \in SUBSET Client
      BY <3>1, <3>2, <3>3
    <3> HIDE DEF longer, edges
    <3>6. /\ u \in Table
          /\ u.mode = t.mode /\ u.holders = t.holders /\ u.counter = t.counter
          /\ u.queue = [t.queue EXCEPT ![r] = longer]
          /\ u.waits = [t.waits EXCEPT ![c] = edges]
      <4>1. /\ u.mode = t.mode /\ u.holders = t.holders /\ u.counter = t.counter
            /\ u.queue = [t.queue EXCEPT ![r] = longer]
            /\ u.waits = [t.waits EXCEPT ![c] = edges]
        BY <3>4, <3>5 DEF Table
      <4>2. u \in Table
        <5>1. /\ t.queue \in [Resource -> Seq(Request)]
              /\ t.waits \in [Client -> SUBSET Client]
          BY <3>4 DEF Table
        <5>2. /\ [t.queue EXCEPT ![r] = longer] \in [Resource -> Seq(Request)]
              /\ [t.waits EXCEPT ![c] = edges] \in [Client -> SUBSET Client]
          BY <3>5, <5>1
        <5>3. u = [t EXCEPT !.queue = [t.queue EXCEPT ![r] = longer],
                            !.waits = [t.waits EXCEPT ![c] = edges]]
          BY <3>4, <3>5 DEF Table
        <5> QED
          BY <3>4, <5>2, <5>3 DEF Table
      <4> QED
        BY <4>1, <4>2
    <3> QED
      BY <3>6 DEF longer, edges
  <2>4. WellTyped(u) /\ UniqueTokens(u) /\ Excludes(u)
    BY <2>3 DEF TableInv, WellTyped, UniqueTokens, Excludes, ExcludesAt
  <2>5. HeadBlocks(u)
    <3>1. SUFFICES ASSUME NEW x \in Resource PROVE HeadBlocksAt(u, x)
      BY DEF HeadBlocks
    <3>2. HeadBlocksAt(t, x) /\ ExcludesAt(t, x)
      BY DEF TableInv, HeadBlocks, Excludes
    <3>3. CASE x # r
      BY <1>0, <2>3, <3>2, <3>3 DEF HeadBlocksAt
    <3>4. CASE x = r
      <4>1. t.holders[r] # {} /\ (t.mode[r] = "shared" => m = "exclusive")
        BY <1>3 DEF Grantable, LockMode
      <4>2. u.queue[r] = Append(t.queue[r], req) /\ t.queue[r] \in Seq(Request)
        BY <1>0, <2>3
      <4>3. CASE t.queue[r] = << >>
        <5>1. u.queue[r][1] = req
          BY <4>2, <4>3
        <5> QED
          BY <2>3, <3>4, <4>1, <5>1 DEF HeadBlocksAt
      <4>4. CASE t.queue[r] # << >>
        <5>1. u.queue[r][1] = t.queue[r][1]
          <6> HIDE DEF req
          <6> QED
            BY <4>2, <4>4
        <5> QED
          BY <2>3, <3>2, <3>4, <4>4, <5>1 DEF HeadBlocksAt
      <4> QED
        BY <4>3, <4>4
    <3> QED
      BY <3>3, <3>4
  <2>6. EdgesFromQueues(u)
    <3>1. SUFFICES ASSUME NEW d \in Client, u.waits[d] # {}
                   PROVE  \E x \in Resource : Queued(u, d, x)
      BY DEF EdgesFromQueues
    <3>2. \A x \in Resource : \A i \in 1 .. Len(t.queue[x]) :
            i \in 1 .. Len(u.queue[x]) /\ u.queue[x][i] = t.queue[x][i]
      <4> HIDE DEF req
      <4> QED
        BY <1>0, <1>1, <2>3
    <3>3. CASE d = c
      <4>1. u.queue[r] = Append(t.queue[r], req) /\ t.queue[r] \in Seq(Request)
        BY <1>0, <2>3
      <4>2. Len(u.queue[r]) \in 1 .. Len(u.queue[r])
              /\ u.queue[r][Len(u.queue[r])].client = c
        BY <4>1
      <4> QED
        BY <3>3, <4>2 DEF Queued
    <3>4. CASE d # c
      <4>1. t.waits[d] # {}
        BY <1>0, <2>3, <3>1, <3>4
      <4>2. PICK x \in Resource : Queued(t, d, x)
        BY <4>1 DEF TableInv, EdgesFromQueues
      <4> QED
        BY <3>2, <4>2 DEF Queued
    <3> QED
      BY <3>3, <3>4
  <2> QED
    BY <2>4, <2>5, <2>6 DEF TableInv
<1> QED
  BY <1>2, <1>3

\* One release command, with whatever token (lines 60-94).
LEMMA ReleasePreserves ==
  ASSUME NEW t, TableInv(t), NEW r \in Resource, NEW tok,
         NEW u, u = Release(t, r, tok)
  PROVE  TableInv(u)
PROOF
<1> DEFINE kept == WithoutToken(t, r, tok)
<1>0. /\ t \in Table
      /\ t.mode \in [Resource -> LockMode \cup {Free}]
      /\ t.holders \in [Resource -> SUBSET Holder]
      /\ t.queue \in [Resource -> Seq(Request)]
  BY DEF TableInv, WellTyped, Table
<1>1. /\ kept \in Table
      /\ kept.holders = [t.holders EXCEPT ![r] = {h \in @ : h.token # tok}]
      /\ kept.mode = t.mode /\ kept.queue = t.queue
      /\ kept.waits = t.waits /\ kept.counter = t.counter
  BY <1>0 DEF WithoutToken, Table
<1>2. u = IF kept.holders[r] # {} THEN kept ELSE HandOver(kept, r)
  BY DEF Release
<1> HIDE DEF kept
<1>3. \A x \in Resource : kept.holders[x] \subseteq t.holders[x]
  BY <1>0, <1>1
<1>4. \A x \in Resource \ {r} : kept.holders[x] = t.holders[x]
  BY <1>0, <1>1
<1>5. WellTyped(kept) /\ UniqueTokens(kept) /\ EdgesFromQueues(kept)
  <2>1. WellTyped(kept)
    BY <1>1, <1>3 DEF TableInv, WellTyped
  <2>2. UniqueTokens(kept)
    BY <1>3 DEF TableInv, UniqueTokens
  <2>3. EdgesFromQueues(kept)
    BY <1>1 DEF TableInv, EdgesFromQueues, Queued
  <2> QED
    BY <2>1, <2>2, <2>3
<1>6. \A x \in Resource \ {r} : ExcludesAt(kept, x) /\ HeadBlocksAt(kept, x)
  BY <1>1, <1>4 DEF TableInv, Excludes, HeadBlocks, ExcludesAt, HeadBlocksAt
<1>7. CASE kept.holders[r] # {}
  <2>1. ExcludesAt(t, r) /\ HeadBlocksAt(t, r)
    BY DEF TableInv, Excludes, HeadBlocks
  <2>2. t.holders[r] # {}
    BY <1>3, <1>7
  <2>3. ExcludesAt(kept, r)
    BY <1>1, <1>3, <1>7, <2>1, <2>2 DEF ExcludesAt
  <2>4. HeadBlocksAt(kept, r)
    BY <1>1, <1>7, <2>1 DEF HeadBlocksAt
  <2> QED
    BY <1>2, <1>5, <1>6, <1>7, <2>3, <2>4 DEF TableInv, Excludes, HeadBlocks
<1>8. CASE kept.holders[r] = {}
  BY <1>2, <1>5, <1>6, <1>8, HandOverPreserves
<1> QED
  BY <1>7, <1>8

-----------------------------------------------------------------------------
(***************************************************************************)
(* What a command leaves of the locks and the queues, for those who follow *)
(* one grant or one request through it.                                    *)
(***************************************************************************)

\* A granted acquire adds one holder with the next token (lines 45-54).
LEMMA AcquireGranted ==
  ASSUME NEW t \in Table, NEW c \in Client, NEW r \in Resource, NEW m \in LockMode,
         NEW u, u = Acquire(t, c, r, m), Grantable(t, r, m),
         NEW h, h = [client |-> c, token |-> t.counter + 1]
  PROVE  /\ u.counter = t.counter + 1
         /\ u.mode = [t.mode EXCEPT ![r] = m]
         /\ u.holders = [t.holders EXCEPT ![r] = @ \cup {h}]
         /\ u.queue = t.queue
PROOF
<1> DEFINE req  == [client |-> c, mode |-> m]
           reqs == <<req>>
<1>1. reqs \in Seq(Request) /\ Len(reqs) = 1 /\ reqs[1].client = c
  BY DEF Request
<1>2. u = Grant(t, r, m, reqs)
  BY DEF Acquire
<1> HIDE DEF reqs
<1>3. NewHolders(t, reqs) = {h}
  BY <1>1 DEF NewHolders
<1>4. /\ u.mode = [t.mode EXCEPT ![r] = m]
      /\ u.holders = [t.holders EXCEPT ![r] = @ \cup NewHolders(t, reqs)]
      /\ u.queue = t.queue
      /\ u.counter = t.counter + Len(reqs)
  <2>1. t \in Table /\ reqs \in Seq(Request) /\ u = Grant(t, r, m, reqs)
    BY <1>1, <1>2
  <2> QED
    BY <2>1, GrantFields
<1> QED
  BY <1>1, <1>3, <1>4

\* Any other acquire adds one request to a queue (lines 55-58).
LEMMA AcquireQueued ==
  ASSUME NEW t \in Table, NEW c \in Client, NEW r \in Resource, NEW m \in LockMode,
         NEW u, u = Acquire(t, c, r, m), ~Grantable(t, r, m)
  PROVE  /\ u.counter = t.counter /\ u.mode = t.mode /\ u.holders = t.holders
         /\ \A x \in Resource \ {r} : u.queue[x] = t.queue[x]
         /\ \A k \in 1 .. Len(u.queue[r]) :
              \/ \E j \in 1 .. Len(t.queue[r]) : u.queue[r][k] = t.queue[r][j]
              \/ u.queue[r][k].client = c
PROOF
<1> DEFINE req    == [client |-> c, mode |-> m]
           longer == Append(t.queue[r], req)
           edges  == t.waits[c] \cup HolderClients(t, r)
<1>1. u = [t EXCEPT !.queue[r] = longer, !.waits[c] = edges]
  BY DEF Acquire, Enqueue
<1>2. req \in Request /\ req.client = c
  BY DEF Request
<1> HIDE DEF edges, req
<1>3. t.queue \in [Resource -> Seq(Request)] /\ t.queue[r] \in Seq(Request)
  BY DEF Table
<1>4. ASSUME NEW k \in 1 .. Len(longer)
      PROVE  \/ \E j \in 1 .. Len(t.queue[r]) : longer[k] = t.queue[r][j]
             \/ longer[k].client = c
  <2>1. k \in 1 .. Len(t.queue[r]) + 1 /\ Len(t.queue[r]) \in Nat
    BY <1>2, <1>3, <1>4
  <2>2. CASE k = Len(t.queue[r]) + 1
    BY <1>2, <1>3, <2>2
  <2>3. CASE k # Len(t.queue[r]) + 1
    <3>1. k \in 1 .. Len(t.queue[r]) /\ longer[k] = t.queue[r][k]
      BY <1>2, <1>3, <2>1, <2>3
    <3> QED
      BY <3>1
  <2> QED
    BY <2>2, <2>3
<1> HIDE DEF longer
<1>5. /\ u.counter = t.counter /\ u.mode = t.mode /\ u.holders = t.holders
      /\ u.queue = [t.queue EXCEPT ![r] = longer]
  BY <1>1 DEF Table
<1> QED
  BY <1>3, <1>4, <1>5

\* A hand-over adds holders with new tokens for clients that were queued; the
\* requests that stay were there before (lines 73-94).
LEMMA HandOverServesQueue ==
  ASSUME NEW t, WellTyped(t), NEW r \in Resource, NEW u, u = HandOver(t, r)
  PROVE  /\ u.counter \in Nat /\ u.counter >= t.counter
         /\ \A x \in Resource \ {r} :
              u.mode[x] = t.mode[x] /\ u.holders[x] = t.holders[x] /\ u.queue[x] = t.queue[x]
         /\ t.holders[r] \subseteq u.holders[r]
         /\ \A h \in u.holders[r] \ t.holders[r] :
              h.token > t.counter
              /\ \E i \in 1 .. Len(t.queue[r]) : t.queue[r][i].client = h.client
         /\ \A i \in 1 .. Len(u.queue[r]) :
              \E j \in 1 .. Len(t.queue[r]) : u.queue[r][i] = t.queue[r][j]
PROOF
<1>0. /\ t \in Table /\ t.counter \in Nat
      /\ t.mode \in [Resource -> LockMode \cup {Free}]
      /\ t.holders \in [Resource -> SUBSET Holder]
      /\ t.queue \in [Resource -> Seq(Request)]
  BY DEF WellTyped, Table
<1>1. CASE t.queue[r] = << >>
  <2>1. /\ u.mode = [t.mode EXCEPT ![r] = Free] /\ u.holders = t.holders
        /\ u.counter = t.counter /\ u.queue = t.queue
    BY <1>0, <1>1 DEF HandOver, Table
  <2> QED
    BY <1>0, <2>1
<1>2. CASE t.queue[r] # << >>
  <2> DEFINE q     == t.queue[r]
             n     == Served(q)
             batch == SubSeq(q, 1, n)
             left  == SubSeq(q, n + 1, Len(q))
             g     == Grant(t, r, q[1].mode, batch)
  <2>1. q \in Seq(Request) /\ q # << >> /\ Len(q) \in Nat /\ Len(q) >= 1
    BY <1>0, <1>2
  <2>2. q[1].mode \in LockMode
    <3>1. q[1] \in Request
      BY <2>1
    <3> QED
      BY <3>1 DEF Request
  <2>3. n \in 1 .. Len(q)
    BY <2>1, ServedRun
  <2>4. /\ batch \in Seq(Request) /\ Len(batch) = n
        /\ \A i \in 1 .. n : batch[i] = q[i]
    <3> HIDE DEF q, n
    <3> QED
      BY <2>1, <2>3
  <2>5. \A i \in 1 .. Len(left) : i + n \in 1 .. Len(q) /\ left[i] = q[i + n]
    <3> HIDE DEF q, n
    <3>1. left \in Seq(Request) /\ Len(left) = Len(q) - n
      BY <2>1, <2>3
    <3>2. \A i \in 1 .. Len(q) - n : left[i] = q[i + n]
      BY <2>1, <2>3
    <3> QED
      BY <2>1, <2>3, <3>1, <3>2
  <2>6. u = [g EXCEPT !.queue[r] = left, !.waits = ClearWaits(@, batch)]
    BY <1>2 DEF HandOver
  <2> HIDE DEF q, n, batch, left
  <2>7. /\ g \in Table /\ g.mode = [t.mode EXCEPT ![r] = q[1].mode]
        /\ g.holders = [t.holders EXCEPT ![r] = @ \cup NewHolders(t, batch)]
        /\ g.counter = t.counter + Len(batch)
        /\ g.queue = t.queue
    <3>1. t \in Table
      BY <1>0
    <3>2. batch \in Seq(Request)
      BY <2>4
    <3> QED
      BY <2>2, <3>1, <3>2, GrantFields
  <2> HIDE DEF g
  <2>8. /\ u.mode = g.mode /\ u.holders = g.holders /\ u.counter = g.counter
        /\ u.queue = [g.queue EXCEPT ![r] = left]
    BY <2>6, <2>7 DEF Table
  <2>9. /\ u.holders[r] = t.holders[r] \cup NewHolders(t, batch)
        /\ u.queue[r] = left
        /\ \A x \in Resource \ {r} :
             u.mode[x] = t.mode[x] /\ u.holders[x] = t.holders[x] /\ u.queue[x] = t.queue[x]
    BY <1>0, <2>7, <2>8
  <2>10. \A h \in NewHolders(t, batch) :
           h.token > t.counter /\ \E i \in 1 .. Len(q) : q[i].client = h.client
    <3>1. SUFFICES ASSUME NEW i \in 1 .. Len(batch), NEW h,
                          h = [client |-> batch[i].client, token |-> t.counter + i]
                   PROVE  h.token > t.counter /\ \E j \in 1 .. Len(q) : q[j].client = h.client
      BY DEF NewHolders
    <3>2. i \in 1 .. Len(q) /\ batch[i] = q[i]
      BY <2>1, <2>3, <2>4
    <3> QED
      BY <1>0, <3>1, <3>2
  <2>11. u.counter \in Nat /\ u.counter >= t.counter
    BY <1>0, <2>1, <2>3, <2>4, <2>7, <2>8
  <2> QED
    BY <2>5, <2>9, <2>10, <2>11 DEF q
<1> QED
  BY <1>1, <1>2

\* A release lets the holders of one token at one resource go; who holds after
\* it held before in the same mode, or has a new token and was queued (lines
\* 60-94).
LEMMA ReleaseFields ==
  ASSUME NEW t, TableInv(t), NEW r \in Resource, NEW tok, NEW u, u = Release(t, r, tok)
  PROVE  /\ u.counter \in Nat /\ u.counter >= t.counter
         /\ \A x \in Resource : \A h \in t.holders[x] :
              h \in u.holders[x] \/ (x = r /\ h.token = tok)
         /\ \A x \in Resource : \A h \in u.holders[x] :
              \/ h \in t.holders[x] /\ u.mode[x] = t.mode[x]
              \/ /\ h.token > t.counter
                 /\ \E i \in 1 .. Len(t.queue[x]) : t.queue[x][i].client = h.client
         /\ \A x \in Resource : \A i \in 1 .. Len(u.queue[x]) :
              \E j \in 1 .. Len(t.queue[x]) : u.queue[x][i] = t.queue[x][j]
PROOF
<1> DEFINE kept == WithoutToken(t, r, tok)
<1>0. /\ t \in Table /\ t.counter \in Nat
      /\ t.holders \in [Resource -> SUBSET Holder]
  BY DEF TableInv, WellTyped, Table
<1>1. /\ kept \in Table
      /\ kept.holders = [t.holders EXCEPT ![r] = {h \in @ : h.token # tok}]
      /\ kept.mode = t.mode /\ kept.queue = t.queue /\ kept.counter = t.counter
  BY <1>0 DEF WithoutToken, Table
<1>2. u = IF kept.holders[r] # {} THEN kept ELSE HandOver(kept, r)
  BY DEF Release
<1> HIDE DEF kept
<1>3. /\ \A x \in Resource : kept.holders[x] \subseteq t.holders[x]
      /\ \A x \in Resource : \A h \in t.holders[x] :
           h \in kept.holders[x] \/ (x = r /\ h.token = tok)
  BY <1>0, <1>1
<1>4. CASE kept.holders[r] # {}
  <2>1. u = kept
    BY <1>2, <1>4
  <2> QED
    BY <1>0, <1>1, <1>3, <2>1
<1>5. CASE kept.holders[r] = {}
  <2>1. u = HandOver(kept, r)
    BY <1>2, <1>5
  <2>2. WellTyped(kept)
    BY <1>1, <1>3 DEF TableInv, WellTyped
  <2>3. /\ u.counter \in Nat /\ u.counter >= kept.counter
        /\ \A x \in Resource \ {r} :
             /\ u.mode[x] = kept.mode[x] /\ u.holders[x] = kept.holders[x]
             /\ u.queue[x] = kept.queue[x]
        /\ \A h \in u.holders[r] \ kept.holders[r] :
             h.token > kept.counter
             /\ \E i \in 1 .. Len(kept.queue[r]) : kept.queue[r][i].client = h.client
        /\ \A i \in 1 .. Len(u.queue[r]) :
             \E j \in 1 .. Len(kept.queue[r]) : u.queue[r][i] = kept.queue[r][j]
    BY <2>1, <2>2, HandOverServesQueue
  <2>4. \A x \in Resource : \A h \in t.holders[x] :
          h \in u.holders[x] \/ (x = r /\ h.token = tok)
    BY <1>3, <1>5, <2>3
  <2>5. \A x \in Resource : \A h \in u.holders[x] :
          \/ h \in t.holders[x] /\ u.mode[x] = t.mode[x]
          \/ /\ h.token > t.counter
             /\ \E i \in 1 .. Len(t.queue[x]) : t.queue[x][i].client = h.client
    BY <1>1, <1>3, <1>5, <2>3
  <2>6. \A x \in Resource : \A i \in 1 .. Len(u.queue[x]) :
          \E j \in 1 .. Len(t.queue[x]) : u.queue[x][i] = t.queue[x][j]
    <3>1. ASSUME NEW x \in Resource, x # r, NEW i \in 1 .. Len(u.queue[x])
          PROVE  \E j \in 1 .. Len(t.queue[x]) : u.queue[x][i] = t.queue[x][j]
      <4>1. u.queue[x] = t.queue[x]
        BY <1>1, <2>3, <3>1
      <4> QED
        BY <3>1, <4>1
    <3>2. ASSUME NEW i \in 1 .. Len(u.queue[r])
          PROVE  \E j \in 1 .. Len(t.queue[r]) : u.queue[r][i] = t.queue[r][j]
      BY <1>1, <2>3
    <3> QED
      BY <3>1, <3>2
  <2> QED
    BY <1>1, <2>3, <2>4, <2>5, <2>6
<1> QED
  BY <1>4, <1>5

-----------------------------------------------------------------------------
(***************************************************************************)
(* What the operations do to the locks: the steps of RWLock.tla, between   *)
(* two tables.                                                             *)
(***************************************************************************)

Lock(c, tok, m) == [client |-> c, token |-> tok, mode |-> m]

\* Readers share; a writer is alone.
Compatible(locks) ==
  \A l1, l2 \in locks : l1 # l2 => l1.mode = "shared" /\ l2.mode = "shared"

\* The locks of a table, one by one.
LEMMA HeldMembers ==
  ASSUME NEW t, TableInv(t), NEW r \in Resource
  PROVE  /\ Held(t)[r] = {Lock(h.client, h.token, t.mode[r]) : h \in t.holders[r]}
         /\ t.holders[r] \subseteq Holder
BY DEF Held, Lock, TableInv, WellTyped, Table

\* Readers share and a writer is alone in every reachable table.
LEMMA HeldCompatible ==
  ASSUME NEW t, TableInv(t), NEW r \in Resource
  PROVE  Compatible(Held(t)[r])
PROOF
<1>1. /\ ExcludesAt(t, r)
      /\ t.mode[r] \in LockMode \cup {Free}
  BY DEF TableInv, Excludes, WellTyped, Table
<1>2. SUFFICES ASSUME NEW h1 \in t.holders[r], NEW h2 \in t.holders[r], h1 # h2
               PROVE  t.mode[r] = "shared"
  BY HeldMembers DEF Compatible, Lock
<1> QED
  BY <1>1, <1>2 DEF ExcludesAt, LockMode

\* Tables t and u may differ at r only.
SameElsewhere(t, u, r) ==
  \A x \in Resource \ {r} : u.holders[x] = t.holders[x] /\ u.mode[x] = t.mode[x]

\* A step at one resource leaves the locks of the others alone.
LEMMA HeldExcept ==
  ASSUME NEW t, NEW u, NEW r \in Resource, SameElsewhere(t, u, r)
  PROVE  Held(u) = [Held(t) EXCEPT ![r] = Held(u)[r]]
PROOF
<1>1. \A x \in Resource \ {r} : Held(u)[x] = Held(t)[x]
  BY DEF Held, SameElsewhere
<1>2. /\ Held(u) = [x \in Resource |-> Held(u)[x]]
      /\ Held(t) = [x \in Resource |-> Held(t)[x]]
  BY DEF Held
<1> QED
  BY <1>1, <1>2

-----------------------------------------------------------------------------

\* The steps of the abstract lock, between two tables.
TakesLock(t, u, r) ==
  /\ u.counter = t.counter + 1
  /\ \E c \in Client, m \in LockMode :
       LET l == Lock(c, t.counter + 1, m)
       IN  /\ Compatible(Held(t)[r] \cup {l})
           /\ Held(u) = [Held(t) EXCEPT ![r] = @ \cup {l}]

GivesLock(t, u, r) ==
  /\ \E l \in Held(t)[r] : Held(u) = [Held(t) EXCEPT ![r] = @ \ {l}]
  /\ u.counter = t.counter

PassesLock(t, u, r) ==
  /\ \E l \in Held(t)[r] : Held(t)[r] = {l}
  /\ u.counter > t.counter
  /\ \E next \in [1 .. (u.counter - t.counter) -> Client], m \in LockMode :
       LET locks == {Lock(next[i], t.counter + i, m) :
                       i \in 1 .. (u.counter - t.counter)}
       IN  /\ Compatible(locks)
           /\ Held(u) = [Held(t) EXCEPT ![r] = locks]

SameLocks(t, u) == Held(u) = Held(t) /\ u.counter = t.counter

\* One step of a readers-writer lock, or none.
LockStep(t, u) ==
  \/ \E r \in Resource : TakesLock(t, u, r) \/ GivesLock(t, u, r) \/ PassesLock(t, u, r)
  \/ SameLocks(t, u)

\* An acquire lets its client in, or changes no lock (lines 39-57).
LEMMA AcquireEffect ==
  ASSUME NEW t, TableInv(t), NEW c \in Client, NEW r \in Resource, NEW m \in LockMode,
         NEW u, u = Acquire(t, c, r, m)
  PROVE  TakesLock(t, u, r) \/ SameLocks(t, u)
PROOF
<1> DEFINE req == [client |-> c, mode |-> m]
           one == <<req>>
<1>1. /\ t \in Table /\ t.counter \in Nat
      /\ t.mode \in [Resource -> LockMode \cup {Free}]
      /\ t.holders \in [Resource -> SUBSET Holder]
  BY DEF TableInv, WellTyped, Table
<1>2. one \in Seq(Request) /\ Len(one) = 1 /\ one[1] = req /\ req.client = c
  BY DEF Request
<1>3. CASE Grantable(t, r, m)
  <2> DEFINE h == [client |-> c, token |-> t.counter + 1]
             l == Lock(c, t.counter + 1, m)
  <2>1. u = Grant(t, r, m, one)
    BY <1>3 DEF Acquire
  <2> HIDE DEF one
  <2>2. /\ u.mode = [t.mode EXCEPT ![r] = m]
        /\ u.holders = [t.holders EXCEPT ![r] = @ \cup NewHolders(t, one)]
        /\ u.counter = t.counter + 1
    <3>1. t \in Table
      BY <1>1
    <3>2. one \in Seq(Request)
      BY <1>2
    <3>3. /\ u.mode = [t.mode EXCEPT ![r] = m]
          /\ u.holders = [t.holders EXCEPT ![r] = @ \cup NewHolders(t, one)]
          /\ u.counter = t.counter + Len(one)
      BY <2>1, <3>1, <3>2, GrantFields
    <3> QED
      BY <1>2, <3>3
  <2>3. NewHolders(t, one) = {h}
    BY <1>1, <1>2 DEF NewHolders
  <2>4. /\ u.holders[r] = t.holders[r] \cup {h} /\ u.mode[r] = m
        /\ SameElsewhere(t, u, r)
    BY <1>1, <2>2, <2>3 DEF SameElsewhere
  <2>5. TableInv(u)
    BY AcquirePreserves
  <2>6. Held(t)[r] = {Lock(x.client, x.token, m) : x \in t.holders[r]}
    <3>1. t.holders[r] = {} \/ t.mode[r] = m
      BY <1>3 DEF Grantable
    <3> QED
      BY <3>1, HeldMembers
  <2>7. Held(u)[r] = Held(t)[r] \cup {l}
    <3>1. Held(u)[r] = {Lock(x.client, x.token, m) : x \in t.holders[r] \cup {h}}
      BY <2>4, <2>5, HeldMembers
    <3>2. Lock(h.client, h.token, m) = l
      OBVIOUS
    <3> HIDE DEF h, l
    <3> QED
      BY <2>6, <3>1, <3>2
  <2>8. Compatible(Held(u)[r])
    BY <2>5, HeldCompatible
  <2>9. Held(u) = [Held(t) EXCEPT ![r] = Held(t)[r] \cup {l}]
    <3>1. Held(u) = [Held(t) EXCEPT ![r] = Held(u)[r]]
      BY <2>4, HeldExcept
    <3> QED
      BY <2>7, <3>1
  <2> QED
    BY <2>2, <2>7, <2>8, <2>9 DEF TakesLock
<1>4. CASE ~Grantable(t, r, m)
  <2>1. u = Enqueue(t, r, req)
    BY <1>4 DEF Acquire
  <2>2. u.mode = t.mode /\ u.holders = t.holders /\ u.counter = t.counter
    BY <1>1, <2>1 DEF Enqueue, Table
  <2> QED
    BY <2>2 DEF Held, SameLocks
<1> QED
  BY <1>3, <1>4

\* What a hand-over does to the locks: the resource is free, or goes to the
\* clients of the batch with the next tokens (lines 73-94).
LEMMA HandOverFields ==
  ASSUME NEW t, WellTyped(t), NEW r \in Resource, NEW u, u = HandOver(t, r)
  PROVE  /\ SameElsewhere(t, u, r)
         /\ t.queue[r] = << >> => u.holders = t.holders /\ u.counter = t.counter
         /\ t.queue[r] # << >> =>
              \E batch \in Seq(Request) :
                /\ Len(batch) > 0
                /\ u.counter = t.counter + Len(batch)
                /\ u.mode[r] \in LockMode
                /\ u.holders[r] = t.holders[r] \cup NewHolders(t, batch)
PROOF
<1>0. /\ t \in Table /\ t.counter \in Nat
      /\ t.mode \in [Resource -> LockMode \cup {Free}]
      /\ t.holders \in [Resource -> SUBSET Holder]
      /\ t.queue \in [Resource -> Seq(Request)]
  BY DEF WellTyped, Table
<1>1. CASE t.queue[r] = << >>
  <2>1. u.mode = [t.mode EXCEPT ![r] = Free] /\ u.holders = t.holders /\ u.counter = t.counter
    BY <1>0, <1>1 DEF HandOver, Table
  <2> QED
    BY <1>0, <1>1, <2>1 DEF SameElsewhere
<1>2. CASE t.queue[r] # << >>
  <2> DEFINE q     == t.queue[r]
             n     == Served(q)
             batch == SubSeq(q, 1, n)
             left  == SubSeq(q, n + 1, Len(q))
             g     == Grant(t, r, q[1].mode, batch)
  <2>1. q \in Seq(Request) /\ q # << >> /\ Len(q) \in Nat /\ Len(q) >= 1
    BY <1>0, <1>2
  <2>2. q[1].mode \in LockMode
    <3>1. q[1] \in Request
      BY <2>1
    <3> QED
      BY <3>1 DEF Request
  <2>3. n \in 1 .. Len(q)
    BY <2>1, ServedRun
  <2>4. batch \in Seq(Request) /\ Len(batch) = n
    <3> HIDE DEF q, n
    <3> QED
      BY <2>1, <2>3
  <2>5. u = [g EXCEPT !.queue[r] = left, !.waits = ClearWaits(@, batch)]
    BY <1>2 DEF HandOver
  <2> HIDE DEF q, n, batch, left
  <2>6. /\ g \in Table /\ g.mode = [t.mode EXCEPT ![r] = q[1].mode]
        /\ g.holders = [t.holders EXCEPT ![r] = @ \cup NewHolders(t, batch)]
        /\ g.counter = t.counter + Len(batch)
    <3>1. t \in Table
      BY <1>0
    <3>2. batch \in Seq(Request)
      BY <2>4
    <3> QED
      BY <2>2, <3>1, <3>2, GrantFields
  <2> HIDE DEF g
  <2>7. u.mode = g.mode /\ u.holders = g.holders /\ u.counter = g.counter
    BY <2>5, <2>6 DEF Table
  <2>8. /\ u.holders[r] = t.holders[r] \cup NewHolders(t, batch)
        /\ u.mode[r] = q[1].mode
        /\ SameElsewhere(t, u, r)
    BY <1>0, <2>6, <2>7 DEF SameElsewhere
  <2>9. batch \in Seq(Request) /\ Len(batch) > 0 /\ u.counter = t.counter + Len(batch)
    BY <2>1, <2>3, <2>4, <2>6, <2>7
  <2> QED
    BY <1>2, <2>2, <2>8, <2>9
<1> QED
  BY <1>1, <1>2

-----------------------------------------------------------------------------

\* A release changes nothing, lets one holder go, or passes the resource on
\* (lines 60-94).
LEMMA ReleaseEffect ==
  ASSUME NEW t, TableInv(t), NEW r \in Resource, NEW tok,
         NEW u, u = Release(t, r, tok)
  PROVE  SameLocks(t, u) \/ GivesLock(t, u, r) \/ PassesLock(t, u, r)
PROOF
<1> DEFINE kept == WithoutToken(t, r, tok)
<1>0. /\ t \in Table /\ t.counter \in Nat
      /\ t.mode \in [Resource -> LockMode \cup {Free}]
      /\ t.holders \in [Resource -> SUBSET Holder]
      /\ t.queue \in [Resource -> Seq(Request)]
  BY DEF TableInv, WellTyped, Table
<1>1. /\ kept \in Table
      /\ kept.holders = [t.holders EXCEPT ![r] = {h \in @ : h.token # tok}]
      /\ kept.mode = t.mode /\ kept.queue = t.queue /\ kept.counter = t.counter
  BY <1>0 DEF WithoutToken, Table
<1>2. u = IF kept.holders[r] # {} THEN kept ELSE HandOver(kept, r)
  BY DEF Release
<1> HIDE DEF kept
<1>3. WellTyped(kept)
  BY <1>0, <1>1 DEF TableInv, WellTyped
<1>4. /\ kept.holders[r] = {h \in t.holders[r] : h.token # tok}
      /\ \A x \in Resource \ {r} : kept.holders[x] = t.holders[x]
  BY <1>0, <1>1
<1>5. \A h1, h2 \in t.holders[r] : h1.token = tok /\ h2.token = tok => h1 = h2
  BY DEF TableInv, UniqueTokens
<1>6. TableInv(u)
  BY ReleasePreserves
<1>7. Held(t)[r] = {Lock(h.client, h.token, t.mode[r]) : h \in t.holders[r]}
  BY HeldMembers
<1>8. Held(u)[r] = {Lock(h.client, h.token, u.mode[r]) : h \in u.holders[r]}
  BY <1>6, HeldMembers
<1>9. CASE kept.holders[r] # {}
  <2>1. u = kept
    BY <1>2, <1>9
  <2>2. CASE kept.holders[r] = t.holders[r]
    <3>1. \A x \in Resource : u.holders[x] = t.holders[x] /\ u.mode[x] = t.mode[x]
      BY <1>1, <1>4, <2>1, <2>2
    <3> QED
      BY <1>1, <2>1, <3>1 DEF Held, SameLocks
  <2>3. CASE kept.holders[r] # t.holders[r]
    <3>1. PICK g \in t.holders[r] : g.token = tok
      BY <1>4, <2>3
    <3> DEFINE l == Lock(g.client, g.token, t.mode[r])
               locks == Held(t)[r] \ {l}
    <3>2. u.holders[r] = t.holders[r] \ {g} /\ u.mode[r] = t.mode[r]
      BY <1>1, <1>4, <1>5, <2>1, <3>1
    <3>3. \A h \in t.holders[r] : Lock(h.client, h.token, t.mode[r]) = l => h = g
      BY <1>5, <3>1 DEF Lock
    <3>4. l \in Held(t)[r]
      BY <1>7
    <3>5. Held(u)[r] = locks
      <4> HIDE DEF l
      <4>1. Held(u)[r] = {Lock(h.client, h.token, t.mode[r]) : h \in t.holders[r] \ {g}}
        BY <1>8, <3>2
      <4>2. l = Lock(g.client, g.token, t.mode[r])
        BY DEF l
      <4> QED
        BY <1>7, <3>3, <4>1, <4>2
    <3> HIDE DEF l, locks
    <3>6. Held(u) = [Held(t) EXCEPT ![r] = locks]
      <4>1. SameElsewhere(t, u, r)
        BY <1>1, <1>4, <2>1 DEF SameElsewhere
      <4>2. Held(u) = [Held(t) EXCEPT ![r] = Held(u)[r]]
        BY <4>1, HeldExcept
      <4> QED
        BY <3>5, <4>2
    <3> QED
      BY <1>1, <2>1, <3>4, <3>6 DEF GivesLock, locks
  <2> QED
    BY <2>2, <2>3
<1>10. CASE kept.holders[r] = {}
  <2>1. u = HandOver(kept, r)
    BY <1>2, <1>10
  <2>2. SameElsewhere(t, u, r)
    <3>1. SameElsewhere(kept, u, r)
      BY <1>3, <2>1, HandOverFields
    <3> QED
      BY <1>1, <1>4, <3>1 DEF SameElsewhere
  <2>3. CASE t.holders[r] = {}
    <3>1. t.queue[r] = << >>
      BY <2>3 DEF TableInv, HeadBlocks, HeadBlocksAt
    <3>2. u.holders = kept.holders /\ u.counter = t.counter
      BY <1>1, <1>3, <2>1, <3>1, HandOverFields
    <3>3. Held(t)[r] = {} /\ Held(u)[r] = {}
      BY <1>7, <1>8, <1>10, <2>3, <3>2
    <3>4. \A x \in Resource : Held(u)[x] = Held(t)[x]
      BY <2>2, <3>3 DEF Held, SameElsewhere
    <3> QED
      BY <3>2, <3>4 DEF Held, SameLocks
  <2>4. CASE t.holders[r] # {}
    <3>1. PICK g \in t.holders[r] : t.holders[r] = {g}
      BY <1>4, <1>5, <1>10, <2>4
    <3> DEFINE l == Lock(g.client, g.token, t.mode[r])
    <3>2. Held(t)[r] = {l}
      BY <1>7, <3>1
    <3> HIDE DEF l
    <3>3. CASE t.queue[r] = << >>
      <4>1. u.holders = kept.holders /\ u.counter = t.counter
        BY <1>1, <1>3, <2>1, <3>3, HandOverFields
      <4> DEFINE none == Held(t)[r] \ {l}
      <4>2. Held(u)[r] = none
        BY <1>8, <1>10, <3>2, <4>1
      <4> HIDE DEF none
      <4>3. Held(u) = [Held(t) EXCEPT ![r] = none]
        <5>1. Held(u) = [Held(t) EXCEPT ![r] = Held(u)[r]]
          BY <2>2, HeldExcept
        <5> QED
          BY <4>2, <5>1
      <4> QED
        BY <3>2, <4>1, <4>3 DEF GivesLock, none
    <3>4. CASE t.queue[r] # << >>
      <4>1. PICK batch \in Seq(Request) :
               /\ Len(batch) > 0
               /\ u.counter = kept.counter + Len(batch)
               /\ u.mode[r] \in LockMode
               /\ u.holders[r] = kept.holders[r] \cup NewHolders(kept, batch)
        <5>1. kept.queue[r] # << >>
          BY <1>1, <3>4
        <5> QED
          BY <1>3, <2>1, <5>1, HandOverFields
      <4> DEFINE n     == u.counter - t.counter
                 next  == [i \in 1 .. n |-> batch[i].client]
                 locks == {Lock(next[i], t.counter + i, u.mode[r]) : i \in 1 .. n}
      <4>2. n = Len(batch) /\ Len(batch) \in Nat
        BY <1>0, <1>1, <4>1
      <4>3. next \in [1 .. n -> Client]
        <5>1. \A i \in 1 .. Len(batch) : batch[i] \in Request
          OBVIOUS
        <5> HIDE DEF n
        <5> QED
          BY <4>2, <5>1 DEF Request
      <4>4. u.holders[r] = {[client |-> next[i], token |-> t.counter + i] : i \in 1 .. n}
        <5> HIDE DEF n
        <5>1. u.holders[r] = NewHolders(kept, batch)
          BY <1>10, <4>1
        <5>2. NewHolders(kept, batch)
                = {[client |-> batch[i].client, token |-> t.counter + i] : i \in 1 .. n}
          BY <1>1, <4>2 DEF NewHolders
        <5>3. \A i \in 1 .. n : next[i] = batch[i].client
          OBVIOUS
        <5> HIDE DEF next
        <5> QED
          BY <5>1, <5>2, <5>3
      <4> HIDE DEF n, next
      <4>5. Held(u)[r] = locks
        <5> DEFINE given(i) == Lock(next[i], t.counter + i, u.mode[r])
                   lock(h)  == Lock(h.client, h.token, u.mode[r])
        <5>1. \A h \in u.holders[r] : \E i \in 1 .. n : lock(h) = given(i)
          BY <4>4
        <5>2. ASSUME NEW i \in 1 .. n PROVE \E h \in u.holders[r] : lock(h) = given(i)
          <6> DEFINE h == [client |-> next[i], token |-> t.counter + i]
          <6>1. h \in u.holders[r]
            BY <4>4
          <6>2. lock(h) = given(i)
            OBVIOUS
          <6> QED
            BY <6>1, <6>2
        <5>3. Held(u)[r] = {lock(h) : h \in u.holders[r]}
          BY <1>8
        <5>4. locks = {given(i) : i \in 1 .. n}
          OBVIOUS
        <5> HIDE DEF given, lock, locks
        <5> QED
          BY <5>1, <5>2, <5>3, <5>4
      <4>6. Compatible(locks)
        BY <1>6, <4>5, HeldCompatible
      <4>7. u.counter > t.counter
        BY <1>0, <1>1, <4>1
      <4> HIDE DEF locks
      <4>8. Held(u) = [Held(t) EXCEPT ![r] = locks]
        <5>1. Held(u) = [Held(t) EXCEPT ![r] = Held(u)[r]]
          BY <2>2, HeldExcept
        <5> QED
          BY <4>5, <5>1
      <4> QED
        BY <3>2, <4>1, <4>3, <4>6, <4>7, <4>8 DEF PassesLock, n, locks
    <3> QED
      BY <3>3, <3>4
  <2> QED
    BY <2>3, <2>4
<1> QED
  BY <1>9, <1>10

-----------------------------------------------------------------------------

\* A set of numbers that is not empty has a least element.
LEMMA Least ==
  ASSUME NEW T \in SUBSET Nat, T # {}
  PROVE  \E k \in T : \A j \in T : k <= j
PROOF
<1>1. PICK k \in T : \A j \in T : ~(<<j, k>> \in OpToRel(<, Nat))
  BY WFMin, NatLessThanWellFounded
<1>2. \A j \in T : ~(j < k)
  BY <1>1 DEF OpToRel
<1> QED
  BY <1>2

\* Induction over the numbers from first to last.
LEMMA UpTo ==
  ASSUME NEW first \in Nat, NEW last \in Nat, NEW S, first \in S,
         \A i \in first .. last : i + 1 <= last /\ i \in S => i + 1 \in S
  PROVE  \A i \in first .. last : i \in S
PROOF
<1>1. SUFFICES ASSUME NEW k \in first .. last, k \notin S PROVE FALSE
  OBVIOUS
<1> DEFINE T == {i \in first .. last : i \notin S}
<1>2. PICK j \in T : \A i \in T : j <= i
  <2>1. T \in SUBSET Nat /\ T # {}
    BY <1>1
  <2> HIDE DEF T
  <2> QED
    BY <2>1, Least
<1>3. j # first /\ j - 1 \in first .. last /\ j - 1 \in S
  BY <1>2
<1> QED
  BY <1>2, <1>3
=============================================================================
