------------------------- MODULE LockServiceProofs -------------------------
(***************************************************************************)
(* The lock service keeps its promises for any number of nodes, clients,   *)
(* resources and calls, and for any number of HTTP timeouts: nodes agree   *)
(* on their tables, a token that a client was told stands, and a lock that *)
(* is held was asked for.  A node applies its commands one by one, so a    *)
(* step of the service is an induction over the commands it applies.       *)
(***************************************************************************)
EXTENDS LockService, LockOpsProofs

Ans == [kind : Kinds, token : Nat]

\* The answers of a command.
Result == [kind : {"none", "granted", "queued", "released", "verdict"}, token : Nat]

\* The state of one node while it applies commands.
Typed(s) ==
  /\ TableInv(s.table)
  /\ s.pending \in [Cmd -> Cmd \cup {None}]
  /\ s.future \in [Cmd -> Result]

(***************************************************************************)
(* The parts of the inductive invariant.                                   *)
(***************************************************************************)

\* A command is in the log once, and nothing else is applied.
LogFits ==
  /\ order \in Seq(Cmd)
  /\ \A i, j \in 1 .. Len(order) : order[i] = order[j] => i = j
  /\ applied \in [Node -> Nat]
  /\ \A n \in Node : applied[n] <= Len(order)
  /\ leader \in Node \cup {None}
  /\ leader = None => order = << >>

\* What is submitted was posted before, and who waits waits for a command that
\* the leader has applied.
Posted ==
  /\ body \in [Cmd -> Body \cup {None}]
  /\ \A c \in Cmd :
       /\ phase[c] = "new" => c \notin Submitted
       /\ phase[c] # "new" => body[c] \in Body
       /\ phase[c] = "waiting" => c \in Submitted /\ Position(c) <= applied[leader]

(***************************************************************************)
(* What ties the futures of the leader to its table when it has applied i  *)
(* commands, s being its state.  A req_id names the future of a command    *)
(* that is still to be applied.                                            *)
(***************************************************************************)
Registered(s, i) ==
  \A id \in Cmd : s.pending[id] # None =>
    /\ s.pending[id] \in Submitted /\ Position(s.pending[id]) > i
    /\ body[s.pending[id]].id = id
    /\ s.future[s.pending[id]] = NoAnswer

Answered(s) == \A c \in Cmd : s.future[c] # NoAnswer => c \in Submitted

\* The token in the future of c is that of the client of d, an acquire with the
\* same req_id, until it is to be released.
TrueGrant(s, c, d) ==
  LET held == s.table.holders[body[d].res]
      h    == [client |-> body[d].client, token |-> s.future[c].token]
  IN  /\ phase[d] # "new" /\ body[d].id = body[c].id /\ body[d].op = "acquire"
      /\ h.token <= s.table.counter
      /\ h \in held \/ Released(body[d].res, h.token)
      /\ h \in held => s.table.mode[body[d].res] = body[d].mode

GrantTrue(s) ==
  \A c \in Cmd : s.future[c].kind = "granted" => \E d \in Cmd : TrueGrant(s, c, d)

Asked(c, client, r) ==
  c \in Submitted /\ body[c].op = "acquire" /\ body[c].client = client /\ body[c].res = r

\* The client has an acquire whose future is gone without a token in it, or
\* whose req_id came with another body as well.
Orphan(s, client, r) ==
  \E c \in Cmd : /\ Asked(c, client, r)
                 /\ \/ ~OneBody(c)
                    \/ s.future[c].kind # "granted" /\ s.pending[body[c].id] # c

\* An acquire to be applied has its future, or there is such a client.
NoStray(s, i) ==
  \A c \in Submitted : Position(c) > i /\ body[c].op = "acquire" =>
    s.pending[body[c].id] = c \/ Orphan(s, body[c].client, body[c].res)

\* Who holds a lock has its token in a future, or is such a client, as is
\* everybody in a queue.
HoldersAsked(s) ==
  \A r \in Resource :
    /\ \A h \in s.table.holders[r] :
         \/ \E c \in Cmd : Asked(c, h.client, r) /\ s.future[c] = Answer("granted", h.token)
         \/ Orphan(s, h.client, r)
    /\ \A k \in 1 .. Len(s.table.queue[r]) : Orphan(s, s.table.queue[r][k].client, r)

Shared(c) == \E d \in Submitted \ {c} : body[d].id = body[c].id

\* The future of a call that shares its req_id with no other is not lost.
NotLost(s) ==
  \A c \in Submitted : s.future[c] # NoAnswer \/ s.pending[body[c].id] = c \/ Shared(c)

Kept(s, i) ==
  /\ Typed(s) /\ Registered(s, i) /\ Answered(s) /\ GrantTrue(s)
  /\ NoStray(s, i) /\ HoldersAsked(s) /\ NotLost(s)

-----------------------------------------------------------------------------

\* The position of a command in the log.
LEMMA PositionOf ==
  ASSUME LogFits
  PROVE  /\ \A i \in 1 .. Len(order) : Position(order[i]) = i
         /\ \A c \in Submitted : Position(c) \in 1 .. Len(order) /\ order[Position(c)] = c
         /\ Submitted \subseteq Cmd
PROOF
<1>1. \A i \in 1 .. Len(order) : Position(order[i]) = i
  BY DEF LogFits, Position
<1>2. \A c \in Submitted : \E i \in 1 .. Len(order) : order[i] = c
  BY DEF Submitted
<1> QED
  BY <1>1, <1>2 DEF LogFits, Submitted

\* What a body holds.
LEMMA BodyFields ==
  ASSUME NEW b \in Body
  PROVE  /\ b.id \in Cmd
         /\ b.op \in {"acquire", "release", "check"}
         /\ b.op = "acquire" => b.client \in Client /\ b.res \in Resource /\ b.mode \in LockMode
         /\ b.op = "release" => b.res \in Resource /\ b.token \in Nat
BY DEF Body

\* A node that applies the commands behind first goes through the states of
\* apply_cmd one by one (lock_service.py:128-135): the recursive function of
\* Applying exists.
LEMMA OneByOne ==
  ASSUME NEW n \in Node, NEW first \in Nat, NEW last \in Nat, first <= last,
         NEW run, run = Applying(n, first, last)
  PROVE  /\ run[first] = Now(n)
         /\ \A i \in first + 1 .. last : run[i] = ApplyCmd(run[i - 1], order[i])
PROOF
<1> DEFINE IsRun(f, k) ==
      f = [i \in first .. k |-> IF i = first THEN Now(n) ELSE ApplyCmd(f[i - 1], order[i])]
    S == {k \in first .. last : \E f : IsRun(f, k)}
<1>1. first \in S
  <2> DEFINE f == [i \in first .. first |-> Now(n)]
             g == [i \in first .. first |->
                     IF i = first THEN Now(n) ELSE ApplyCmd(f[i - 1], order[i])]
  <2>1. \A i \in first .. first : f[i] = g[i]
    OBVIOUS
  <2>2. f = g
    BY <2>1
  <2>3. IsRun(f, first)
    BY <2>2, Zenon
  <2> HIDE DEF IsRun, f
  <2> QED
    BY <2>3
<1>2. ASSUME NEW k \in first .. last, k + 1 <= last, k \in S
      PROVE  k + 1 \in S
  <2>1. PICK f : IsRun(f, k)
    BY <1>2
  <2> DEFINE g == [i \in first .. k + 1 |->
                    IF i = first THEN Now(n) ELSE ApplyCmd(f[i - 1], order[i])]
             h == [i \in first .. k + 1 |->
                    IF i = first THEN Now(n) ELSE ApplyCmd(g[i - 1], order[i])]
  <2>2. \A i \in first .. k : g[i] = f[i]
    <3>1. \A i \in first .. k : f[i] = IF i = first THEN Now(n) ELSE ApplyCmd(f[i - 1], order[i])
      BY <2>1
    <3>2. \A i \in first .. k : i \in first .. k + 1
      OBVIOUS
    <3> QED
      BY <3>1, <3>2
  <2>3. \A i \in first .. k + 1 : i # first => g[i - 1] = f[i - 1]
    <3>1. \A i \in first .. k + 1 : i # first => i - 1 \in first .. k
      OBVIOUS
    <3> QED
      BY <2>2, <3>1
  <2>4. \A i \in first .. k + 1 : g[i] = h[i]
    BY <2>3
  <2>5. g = h
    BY <2>4
  <2>6. IsRun(g, k + 1)
    BY <2>5, Zenon
  <2>7. k + 1 \in first .. last
    BY <1>2
  <2> HIDE DEF IsRun, g
  <2> QED
    BY <2>6, <2>7
<1>3. \E f : IsRun(f, last)
  <2>1. \A k \in first .. last : k \in S
    <3> HIDE DEF S
    <3> QED
      BY <1>1, <1>2, UpTo
  <2> QED
    BY <2>1
<1>4. run = CHOOSE f : IsRun(f, last)
  BY DEF Applying
<1>5. IsRun(run, last)
  BY <1>3, <1>4
<1> QED
  BY <1>5

-----------------------------------------------------------------------------
(***************************************************************************)
(* One command at the leader: every part of Kept holds again.              *)
(***************************************************************************)

\* The i-th command has the body b and takes s to u; w is the future that its
\* req_id names, if any.
Applies(s, i, u, b, w) ==
  /\ LogFits /\ Posted /\ Kept(s, i - 1)
  /\ i \in 1 .. Len(order)
  /\ order[i] \in Submitted /\ order[i] \in Cmd /\ Position(order[i]) = i
  /\ phase[order[i]] # "new"
  /\ b = body[order[i]] /\ b \in Body
  /\ u.table = TableAfter(s.table, b)
  /\ u.pending = [s.pending EXCEPT ![b.id] = None]
  /\ w = s.pending[b.id]
  /\ w = None => u.future = s.future
  /\ w # None =>
       /\ w \in Submitted /\ w \in Cmd /\ s.future[w] = NoAnswer
       /\ body[w].id = b.id /\ (body[w] # b => ~OneBody(w) /\ ~OneBody(order[i]))
       /\ u.future = [s.future EXCEPT ![w] = AnswerOf(s.table, b)]

\* An answer is one of those the service has.
LEMMA AnswerTyped ==
  ASSUME NEW t, t.counter \in Nat, NEW b \in Body
  PROVE  AnswerOf(t, b) \in Result /\ AnswerOf(t, b) # NoAnswer
PROOF
<1>1. /\ AnswerOf(t, b).kind \in {"granted", "queued", "released", "verdict"}
      /\ AnswerOf(t, b) \in Result
  <2>1. b.op \in {"acquire", "release", "check"}
    BY BodyFields
  <2> QED
    BY <2>1 DEF AnswerOf, Answer, Result
<1>2. NoAnswer.kind = "none"
  BY DEF NoAnswer, Answer
<1> QED
  BY <1>1, <1>2

\* What applying a command does (lock_service.py:128-135).
LEMMA ApplyFields ==
  ASSUME LogFits, Posted, NEW s, NEW i \in 1 .. Len(order), Kept(s, i - 1),
         NEW u, u = ApplyCmd(s, order[i]),
         NEW b, b = body[order[i]], NEW w, w = s.pending[b.id]
  PROVE  Applies(s, i, u, b, w)
PROOF
<1>1. order[i] \in Submitted /\ order[i] \in Cmd /\ Position(order[i]) = i
  BY PositionOf DEF Submitted, LogFits
<1>2. phase[order[i]] # "new" /\ b \in Body /\ b.id \in Cmd
  BY <1>1, BodyFields DEF Posted
<1>3. /\ u.table = TableAfter(s.table, b)
      /\ u.pending = [s.pending EXCEPT ![b.id] = None]
      /\ w = None => u.future = s.future
      /\ w # None => u.future = [s.future EXCEPT ![w] = AnswerOf(s.table, b)]
  BY DEF ApplyCmd
<1>4. ASSUME w # None
      PROVE  /\ w \in Submitted /\ w \in Cmd /\ s.future[w] = NoAnswer
             /\ body[w].id = b.id /\ (body[w] # b => ~OneBody(w) /\ ~OneBody(order[i]))
  <2>1. w \in Submitted /\ body[w].id = b.id /\ s.future[w] = NoAnswer
    BY <1>2, <1>4 DEF Kept, Registered
  <2>2. w \in Cmd /\ phase[w] # "new"
    BY <2>1, PositionOf DEF Posted
  <2>3. body[w] # b => ~OneBody(w) /\ ~OneBody(order[i])
    BY <1>1, <1>2, <2>1, <2>2 DEF OneBody, SameId
  <2> QED
    BY <2>1, <2>2, <2>3
<1> QED
  BY <1>1, <1>2, <1>3, <1>4 DEF Applies

\* A command keeps the table what it should be.
LEMMA AfterPreserves ==
  ASSUME NEW t, TableInv(t), NEW b \in Body
  PROVE  TableInv(TableAfter(t, b))
PROOF
<1>1. CASE b.op = "acquire"
  <2>1. TableAfter(t, b) = Acquire(t, b.client, b.res, b.mode)
    BY <1>1 DEF TableAfter
  <2> QED
    BY <1>1, <2>1, AcquirePreserves, BodyFields
<1>2. CASE b.op = "release"
  <2>1. TableAfter(t, b) = Release(t, b.res, b.token)
    BY <1>2 DEF TableAfter
  <2> QED
    BY <1>2, <2>1, ReleasePreserves, BodyFields
<1>3. CASE b.op = "check"
  BY <1>3 DEF TableAfter
<1> QED
  BY <1>1, <1>2, <1>3, BodyFields

\* The types.
LEMMA ApplyTyped ==
  ASSUME NEW s, NEW i, NEW u, NEW b, NEW w, Applies(s, i, u, b, w)
  PROVE  Typed(u)
PROOF
<1>1. Typed(s) /\ b \in Body
  BY DEF Applies, Kept
<1>2. TableInv(s.table) /\ s.table.counter \in Nat
  BY <1>1 DEF Typed, TableInv, WellTyped, Table
<1>3. TableInv(u.table)
  <2>1. u.table = TableAfter(s.table, b)
    BY DEF Applies
  <2> QED
    BY <1>1, <1>2, <2>1, AfterPreserves
<1>4. u.pending \in [Cmd -> Cmd \cup {None}]
  BY <1>1 DEF Applies, Typed
<1>5. u.future \in [Cmd -> Result]
  <2>1. AnswerOf(s.table, b) \in Result
    BY <1>1, <1>2, AnswerTyped
  <2>2. s.future \in [Cmd -> Result]
    BY <1>1 DEF Typed
  <2> QED
    BY <2>1, <2>2 DEF Applies
<1> QED
  BY <1>3, <1>4, <1>5 DEF Typed

\* Futures are set once.
LEMMA ApplyAnswers ==
  ASSUME NEW s, NEW i, NEW u, NEW b, NEW w, Applies(s, i, u, b, w)
  PROVE  /\ \A c \in Cmd : s.future[c] # NoAnswer => u.future[c] = s.future[c]
         /\ \A c \in Cmd : c # w => u.future[c] = s.future[c]
         /\ w # None => w \in Cmd /\ u.future[w] = AnswerOf(s.table, b) /\ u.future[w] # NoAnswer
PROOF
<1>1. s.future \in [Cmd -> Result] /\ s.table.counter \in Nat /\ b \in Body
  BY DEF Applies, Kept, Typed, TableInv, WellTyped, Table
<1>2. AnswerOf(s.table, b) # NoAnswer
  BY <1>1, AnswerTyped
<1>3. CASE w = None
  BY <1>3 DEF Applies
<1>4. CASE w # None
  <2>1. w \in Cmd /\ s.future[w] = NoAnswer
        /\ u.future = [s.future EXCEPT ![w] = AnswerOf(s.table, b)]
    BY <1>4 DEF Applies
  <2> QED
    BY <1>1, <1>2, <2>1
<1> QED
  BY <1>3, <1>4

\* What is registered is still to be applied.
LEMMA ApplyRegistered ==
  ASSUME NEW s, NEW i, NEW u, NEW b, NEW w, Applies(s, i, u, b, w)
  PROVE  Registered(u, i) /\ Answered(u)
PROOF
<1>1. Registered(s, i - 1) /\ Answered(s) /\ Typed(s)
  BY DEF Applies, Kept
<1>2. s.pending \in [Cmd -> Cmd \cup {None}] /\ b.id \in Cmd
  BY <1>1, BodyFields DEF Applies, Typed
<1>3. ASSUME NEW id \in Cmd, u.pending[id] # None, NEW c, c = u.pending[id]
      PROVE  /\ c \in Submitted /\ Position(c) > i
             /\ body[c].id = id
             /\ u.future[c] = NoAnswer
  <2>1. id # b.id /\ s.pending[id] = c
    BY <1>2, <1>3 DEF Applies
  <2>2. c \in Submitted /\ Position(c) > i - 1 /\ body[c].id = id /\ s.future[c] = NoAnswer
    BY <1>1, <1>3, <2>1 DEF Registered
  <2>3. c # order[i] /\ c \in Cmd /\ i \in Nat /\ Position(c) \in Nat
    BY <2>1, <2>2, PositionOf DEF Applies
  <2>4. Position(c) # i
    BY <2>2, <2>3, PositionOf DEF Applies
  <2>5. c # w
    <3>1. w # None => body[w].id = b.id
      BY DEF Applies
    <3> QED
      BY <1>3, <2>1, <2>2, <3>1, NoneIsNoCall
  <2>6. u.future[c] = s.future[c]
    BY <2>3, <2>5, ApplyAnswers
  <2> QED
    BY <2>2, <2>3, <2>4, <2>6
<1>4. Registered(u, i)
  BY <1>3 DEF Registered
<1>5. ASSUME NEW c \in Cmd, u.future[c] # NoAnswer
      PROVE  c \in Submitted
  <2>1. CASE c = w
    <3>1. w # None
      BY <2>1, NoneIsNoCall
    <3> QED
      BY <2>1, <3>1 DEF Applies
  <2>2. CASE c # w
    BY <1>1, <1>5, <2>2, ApplyAnswers DEF Answered
  <2> QED
    BY <2>1, <2>2
<1> QED
  BY <1>4, <1>5 DEF Answered

\* What a command does to holders and queues: a holder goes only by a release
\* of its token; a new one has a new token, and is the client of this acquire
\* or was queued (lines 39-94).
LEMMA TableEffect ==
  ASSUME NEW t, TableInv(t), NEW b \in Body, NEW u, u = TableAfter(t, b),
         NEW h1, h1 = [client |-> b.client, token |-> t.counter + 1]
  PROVE  /\ u.counter \in Nat /\ t.counter \in Nat /\ u.counter >= t.counter
         /\ \A x \in Resource : \A h \in t.holders[x] :
              h \in u.holders[x] \/ (b.op = "release" /\ b.res = x /\ b.token = h.token)
         /\ \A x \in Resource : \A h \in u.holders[x] :
              \/ h \in t.holders[x] /\ u.mode[x] = t.mode[x]
              \/ /\ h.token > t.counter
                 /\ \E k \in 1 .. Len(t.queue[x]) : t.queue[x][k].client = h.client
              \/ /\ b.op = "acquire" /\ b.res = x /\ Grantable(t, x, b.mode)
                 /\ h = h1
         /\ \A x \in Resource : \A k \in 1 .. Len(u.queue[x]) :
              \/ \E j \in 1 .. Len(t.queue[x]) : u.queue[x][k] = t.queue[x][j]
              \/ /\ b.op = "acquire" /\ b.res = x /\ ~Grantable(t, x, b.mode)
                 /\ u.queue[x][k].client = b.client
         /\ b.op = "acquire" /\ Grantable(t, b.res, b.mode) =>
              /\ h1 \in u.holders[b.res]
              /\ u.counter = t.counter + 1 /\ u.mode[b.res] = b.mode
PROOF
<1>0. /\ t \in Table /\ t.counter \in Nat
      /\ t.mode \in [Resource -> LockMode \cup {Free}]
      /\ t.holders \in [Resource -> SUBSET Holder]
      /\ t.queue \in [Resource -> Seq(Request)]
  BY DEF TableInv, WellTyped, Table
<1>1. CASE b.op = "acquire"
  <2>1. PICK cl \in Client, r \in Resource, m \in LockMode :
          b.client = cl /\ b.res = r /\ b.mode = m
    BY <1>1, BodyFields
  <2>2. u = Acquire(t, cl, r, m)
    BY <1>1, <2>1 DEF TableAfter
  <2>3. CASE Grantable(t, r, m)
    <3>0. h1 = [client |-> cl, token |-> t.counter + 1]
      BY <2>1
    <3>1. /\ u.counter = t.counter + 1
          /\ u.mode = [t.mode EXCEPT ![r] = m]
          /\ u.holders = [t.holders EXCEPT ![r] = @ \cup {h1}]
          /\ u.queue = t.queue
      <4>1. t \in Table
        BY <1>0
      <4> QED
        BY <2>2, <2>3, <3>0, <4>1, AcquireGranted
    <3>2. \A x \in Resource : \A h \in t.holders[x] : h \in u.holders[x]
      BY <1>0, <3>1
    <3>3. ASSUME NEW x \in Resource, NEW h \in u.holders[x], h \in t.holders[x]
          PROVE  u.mode[x] = t.mode[x]
      <4>1. CASE x = r
        <5>1. t.mode[x] = "shared" /\ m = "shared"
          BY <2>3, <3>3, <4>1 DEF Grantable
        <5> QED
          BY <1>0, <3>1, <4>1, <5>1
      <4> QED
        BY <1>0, <3>1, <4>1
    <3>4. \A x \in Resource : \A h \in u.holders[x] :
            h \in t.holders[x] \/ (x = r /\ h = h1)
      BY <1>0, <3>1
    <3>5. h1 \in u.holders[r] /\ u.mode[r] = m
      BY <1>0, <2>1, <3>1
    <3> QED
      BY <1>0, <1>1, <2>1, <2>3, <3>1, <3>2, <3>3, <3>4, <3>5
  <2>4. CASE ~Grantable(t, r, m)
    <3>1. /\ u.counter = t.counter /\ u.mode = t.mode /\ u.holders = t.holders
          /\ \A x \in Resource \ {r} : u.queue[x] = t.queue[x]
          /\ \A k \in 1 .. Len(u.queue[r]) :
               \/ \E j \in 1 .. Len(t.queue[r]) : u.queue[r][k] = t.queue[r][j]
               \/ u.queue[r][k].client = cl
      BY <1>0, <2>2, <2>4, AcquireQueued
    <3>2. \A x \in Resource : \A k \in 1 .. Len(u.queue[x]) :
            \/ \E j \in 1 .. Len(t.queue[x]) : u.queue[x][k] = t.queue[x][j]
            \/ x = r /\ u.queue[x][k].client = cl
      BY <3>1
    <3>3. \A x \in Resource : \A k \in 1 .. Len(u.queue[x]) :
            \/ \E j \in 1 .. Len(t.queue[x]) : u.queue[x][k] = t.queue[x][j]
            \/ /\ b.op = "acquire" /\ b.res = x /\ ~Grantable(t, x, b.mode)
               /\ u.queue[x][k].client = b.client
      BY <1>1, <2>1, <2>4, <3>2
    <3>4. ~Grantable(t, b.res, b.mode)
      BY <2>1, <2>4
    <3> QED
      BY <1>0, <3>1, <3>3, <3>4
  <2> QED
    BY <2>3, <2>4
<1>2. CASE b.op = "release"
  <2>1. u = Release(t, b.res, b.token) /\ b.res \in Resource
    BY <1>2, BodyFields DEF TableAfter
  <2> QED
    <3>1. /\ u.counter \in Nat /\ u.counter >= t.counter
          /\ \A x \in Resource : \A h \in t.holders[x] :
               h \in u.holders[x] \/ (x = b.res /\ h.token = b.token)
          /\ \A x \in Resource : \A h \in u.holders[x] :
               \/ h \in t.holders[x] /\ u.mode[x] = t.mode[x]
               \/ /\ h.token > t.counter
                  /\ \E k \in 1 .. Len(t.queue[x]) : t.queue[x][k].client = h.client
          /\ \A x \in Resource : \A k \in 1 .. Len(u.queue[x]) :
               \E j \in 1 .. Len(t.queue[x]) : u.queue[x][k] = t.queue[x][j]
      BY <2>1, ReleaseFields
    <3>2. \A x \in Resource : \A h \in t.holders[x] :
            h \in u.holders[x] \/ (b.op = "release" /\ b.res = x /\ b.token = h.token)
      BY <1>2, <3>1
    <3> QED
      BY <1>0, <1>2, <3>1, <3>2
<1>3. CASE b.op = "check"
  <2>1. u = t
    BY <1>3 DEF TableAfter
  <2> QED
    BY <1>0, <1>3, <2>1
<1> QED
  BY <1>1, <1>2, <1>3, BodyFields

\* A grant in a future is that of a holder, before and after.
LEMMA ApplyGrantTrue ==
  ASSUME NEW s, NEW i, NEW u, NEW b, NEW w, Applies(s, i, u, b, w)
  PROVE  GrantTrue(u)
PROOF
<1> DEFINE t == s.table
           v == u.table
<1>1. TableInv(t) /\ b \in Body /\ v = TableAfter(t, b)
  BY DEF Applies, Kept, Typed
<1>2. s.future \in [Cmd -> Result] /\ GrantTrue(s) /\ Answered(s)
  BY DEF Applies, Kept, Typed
<1> HIDE DEF t, v
<1>3. SUFFICES ASSUME NEW c \in Cmd, u.future[c].kind = "granted"
               PROVE  \E d \in Cmd : TrueGrant(u, c, d)
  BY DEF GrantTrue
<1>4. CASE c = w
  <2>1. w # None
    BY <1>4, NoneIsNoCall
  <2>2. u.future[c] = AnswerOf(t, b) /\ body[c].id = b.id
    <3>1. body[w].id = b.id
      BY <2>1 DEF Applies
    <3>2. u.future[w] = AnswerOf(s.table, b)
      BY <2>1, ApplyAnswers
    <3> QED
      BY <1>4, <3>1, <3>2 DEF t
  <2>3. /\ b.op = "acquire" /\ Grantable(t, b.res, b.mode)
        /\ u.future[c] = Answer("granted", t.counter + 1)
    <3>1. CASE b.op = "acquire"
      BY <1>3, <2>2, <3>1 DEF AnswerOf, Answer
    <3>2. CASE b.op # "acquire"
      <4>1. u.future[c].kind \in {"released", "verdict"}
        BY <2>2, <3>2 DEF AnswerOf, Answer
      <4> QED
        BY <1>3, <4>1
    <3> QED
      BY <3>1, <3>2
  <2>4. PICK h : h = [client |-> b.client, token |-> t.counter + 1]
    OBVIOUS
  <2>8. h.token = t.counter + 1 /\ u.future[c].token = t.counter + 1
    BY <2>3, <2>4 DEF Answer
  <2>5. /\ h \in v.holders[b.res]
        /\ v.counter = t.counter + 1 /\ v.mode[b.res] = b.mode /\ v.counter \in Nat
    BY <1>1, <2>3, <2>4, TableEffect
  <2>6. PICK d \in Cmd : d = order[i] /\ phase[d] # "new" /\ body[d] = b
    BY DEF Applies
  <2>7. TrueGrant(u, c, d)
    BY <2>2, <2>3, <2>4, <2>5, <2>6, <2>8 DEF TrueGrant, v
  <2> QED
    BY <2>7
<1>5. CASE c # w
  <2>1. u.future[c] = s.future[c]
    BY <1>5, ApplyAnswers
  <2>0. PICK d \in Cmd : TrueGrant(s, c, d)
    BY <1>2, <1>3, <2>1 DEF GrantTrue
  <2>9. PICK res : res = body[d].res
    OBVIOUS
  <2>10. PICK h : h = [client |-> body[d].client, token |-> u.future[c].token]
    OBVIOUS
  <2>2. /\ phase[d] # "new" /\ body[d].id = body[c].id /\ body[d].op = "acquire"
        /\ h.token <= t.counter
        /\ h \in t.holders[res] \/ Released(res, h.token)
        /\ h \in t.holders[res] => t.mode[res] = body[d].mode
    BY <2>0, <2>1, <2>9, <2>10 DEF TrueGrant, t
  <2>3. res \in Resource /\ h.token \in Nat
    <3>1. body[d] \in Body
      BY <2>2 DEF Applies, Posted
    <3>2. u.future[c] \in Result
      BY <1>2, <2>1
    <3> QED
      BY <2>2, <2>9, <2>10, <3>1, <3>2, BodyFields DEF Result
  <2>4. /\ v.counter \in Nat /\ t.counter \in Nat /\ v.counter >= t.counter
        /\ h \in t.holders[res] =>
             h \in v.holders[res] \/ (b.op = "release" /\ b.res = res /\ b.token = h.token)
        /\ h \in v.holders[res] =>
             \/ h \in t.holders[res] /\ v.mode[res] = t.mode[res]
             \/ h.token > t.counter
    <3> DEFINE h1 == [client |-> b.client, token |-> t.counter + 1]
    <3>0. h1 = [client |-> b.client, token |-> t.counter + 1]
      OBVIOUS
    <3> HIDE DEF h1
    <3>1. v.counter \in Nat /\ t.counter \in Nat /\ v.counter >= t.counter
      BY <1>1, <3>0, TableEffect
    <3>2. h \in t.holders[res] =>
            h \in v.holders[res] \/ (b.op = "release" /\ b.res = res /\ b.token = h.token)
      BY <1>1, <2>3, <3>0, TableEffect
    <3>3. h \in v.holders[res] =>
            \/ h \in t.holders[res] /\ v.mode[res] = t.mode[res]
            \/ h.token > t.counter
      <4>1. \/ h \in v.holders[res] => h \in t.holders[res] /\ v.mode[res] = t.mode[res]
            \/ h.token > t.counter
            \/ h = h1
        BY <1>1, <2>3, <3>0, TableEffect
      <4>2. h1.token = t.counter + 1
        BY <3>0
      <4> QED
        BY <3>1, <4>1, <4>2
    <3> QED
      BY <3>1, <3>2, <3>3
  <2>5. b.op = "release" /\ b.res = res /\ b.token = h.token => Released(res, h.token)
    BY DEF Applies, Released
  <2>6. h \in v.holders[res] => h \in t.holders[res] /\ v.mode[res] = t.mode[res]
    BY <2>2, <2>3, <2>4
  <2>7. h.token <= v.counter
    BY <2>2, <2>3, <2>4
  <2>8. TrueGrant(u, c, d)
    BY <2>2, <2>4, <2>5, <2>6, <2>7, <2>9, <2>10 DEF TrueGrant, v
  <2> QED
    BY <2>8
<1> QED
  BY <1>4, <1>5

\* A client with an acquire whose future is gone stays one: the future that is
\* set now is one that is registered.
LEMMA OrphansStay ==
  ASSUME NEW s, NEW i, NEW u, NEW b, NEW w, Applies(s, i, u, b, w),
         NEW client, NEW r, Orphan(s, client, r)
  PROVE  Orphan(u, client, r)
PROOF
<1>1. PICK c \in Cmd : /\ Asked(c, client, r)
                      /\ \/ ~OneBody(c)
                         \/ s.future[c].kind # "granted" /\ s.pending[body[c].id] # c
  BY DEF Orphan
<1>2. CASE ~OneBody(c)
  BY <1>1, <1>2 DEF Orphan
<1>3. CASE s.future[c].kind # "granted" /\ s.pending[body[c].id] # c
  <2>1. s.pending \in [Cmd -> Cmd \cup {None}]
    BY DEF Applies, Kept, Typed
  <2>2. c # w
    <3>1. w # None => body[w].id = b.id /\ s.pending[b.id] = w
      BY DEF Applies
    <3> QED
      BY <1>3, <3>1, NoneIsNoCall
  <2>3. u.future[c] = s.future[c]
    BY <2>2, ApplyAnswers
  <2>4. u.pending[body[c].id] # c
    <3>1. phase[c] # "new" /\ body[c].id \in Cmd
      BY <1>1, BodyFields DEF Applies, Posted, Asked
    <3>2. u.pending[body[c].id] \in {s.pending[body[c].id], None}
      BY <2>1, <3>1 DEF Applies
    <3> QED
      BY <1>3, <3>2, NoneIsNoCall
  <2> QED
    BY <1>1, <1>3, <2>3, <2>4 DEF Orphan
<1> QED
  BY <1>1, <1>2, <1>3

\* An acquire whose future is set by another command, or is not there, leaves
\* its client without an answer to it.
LEMMA ApplyNoStray ==
  ASSUME NEW s, NEW i, NEW u, NEW b, NEW w, Applies(s, i, u, b, w)
  PROVE  NoStray(u, i)
PROOF
<1>1. NoStray(s, i - 1) /\ s.pending \in [Cmd -> Cmd \cup {None}] /\ LogFits /\ b.id \in Cmd
  BY BodyFields DEF Applies, Kept, Typed
<1>2. SUFFICES ASSUME NEW c \in Submitted, Position(c) > i, body[c].op = "acquire"
               PROVE  u.pending[body[c].id] = c \/ Orphan(u, body[c].client, body[c].res)
  BY DEF NoStray
<1>3. c \in Cmd /\ Position(c) \in Nat /\ i \in Nat /\ c # order[i] /\ body[c].id \in Cmd
  <2>1. c \in Cmd /\ Position(c) \in Nat
    BY <1>1, PositionOf
  <2>2. i \in Nat /\ Position(order[i]) = i
    BY DEF Applies
  <2>3. body[c] \in Body
    BY <2>1 DEF Applies, Posted
  <2> QED
    BY <1>2, <2>1, <2>2, <2>3, BodyFields
<1>4. Position(c) > i - 1
  BY <1>2, <1>3
<1>5. s.pending[body[c].id] = c \/ Orphan(s, body[c].client, body[c].res)
  BY <1>1, <1>2, <1>4 DEF NoStray
<1>6. CASE Orphan(s, body[c].client, body[c].res)
  BY <1>6, OrphansStay
<1>7. CASE s.pending[body[c].id] = c /\ body[c].id # b.id
  BY <1>3, <1>1, <1>7 DEF Applies
<1>8. CASE s.pending[body[c].id] = c /\ body[c].id = b.id
  <2>1. w = c /\ w # None
    BY <1>3, <1>8, NoneIsNoCall DEF Applies
  <2>2. CASE body[c] = b
    <3>1. /\ order[i] \in Submitted /\ Position(order[i]) > i - 1
          /\ body[order[i]] = b /\ b.op = "acquire"
      BY <1>2, <1>3, <2>2 DEF Applies
    <3>2. s.pending[b.id] # order[i]
      BY <1>3, <1>8
    <3>3. Orphan(s, b.client, b.res)
      BY <1>1, <3>1, <3>2 DEF NoStray
    <3> QED
      BY <2>2, <3>3, OrphansStay
  <2>3. CASE body[c] # b
    <3>1. ~OneBody(c)
      BY <2>1, <2>3 DEF Applies
    <3> QED
      BY <1>2, <1>3, <3>1 DEF Orphan, Asked
  <2> QED
    BY <2>2, <2>3
<1> QED
  BY <1>5, <1>6, <1>7, <1>8

\* An acquire that is applied answers the future of its req_id, or its client
\* has one that nobody answers.
LEMMA AcquireAnswers ==
  ASSUME NEW s, NEW i, NEW u, NEW b, NEW w, Applies(s, i, u, b, w), b.op = "acquire"
  PROVE  \/ w # None /\ body[w] = b
         \/ Orphan(s, b.client, b.res)
PROOF
<1>1. NoStray(s, i - 1) /\ i \in Nat
  BY DEF Applies, Kept
<1>2. order[i] \in Submitted /\ Position(order[i]) = i /\ body[order[i]] = b
  BY DEF Applies
<1>3. Position(order[i]) > i - 1
  BY <1>1, <1>2
<1>4. s.pending[b.id] = order[i] \/ Orphan(s, b.client, b.res)
  BY <1>1, <1>2, <1>3 DEF NoStray
<1>5. order[i] # None
  BY NoneIsNoCall DEF Applies
<1>6. w = None => s.pending[b.id] # order[i]
  BY <1>5 DEF Applies
<1>7. ASSUME w # None, body[w] # b
      PROVE  Orphan(s, b.client, b.res)
  <2>1. ~OneBody(order[i]) /\ order[i] \in Cmd
    BY <1>7 DEF Applies
  <2> QED
    BY <1>2, <2>1 DEF Orphan, Asked
<1> QED
  BY <1>4, <1>6, <1>7

\* A lock that is passed on or granted goes to a client with a token in a
\* future, or with a future that is gone.
LEMMA ApplyHoldersAsked ==
  ASSUME NEW s, NEW i, NEW u, NEW b, NEW w, Applies(s, i, u, b, w)
  PROVE  HoldersAsked(u)
PROOF
<1> DEFINE t == s.table
           v == u.table
<1>1. TableInv(t) /\ b \in Body /\ v = TableAfter(t, b) /\ HoldersAsked(s)
  BY DEF Applies, Kept, Typed
<1>2. PICK h1 : h1 = [client |-> b.client, token |-> t.counter + 1]
  OBVIOUS
<1>3. w # None /\ body[w] = b => Asked(w, b.client, b.res) \/ b.op # "acquire"
  BY DEF Applies, Asked
<1>4. w # None => w \in Cmd /\ u.future[w] = AnswerOf(t, b)
  BY ApplyAnswers
<1>5. w # None => u.pending[b.id] # w
  <2>1. s.pending \in [Cmd -> Cmd \cup {None}] /\ b.id \in Cmd
    BY <1>1, BodyFields DEF Applies, Kept, Typed
  <2> QED
    BY <2>1 DEF Applies
<1>6. ASSUME NEW r \in Resource, NEW k \in 1 .. Len(t.queue[r])
      PROVE  Orphan(u, t.queue[r][k].client, r)
  <2>1. Orphan(s, t.queue[r][k].client, r)
    BY <1>1 DEF HoldersAsked
  <2> QED
    BY <2>1, OrphansStay
<1>7. ASSUME NEW r \in Resource, NEW h \in t.holders[r]
      PROVE  \/ \E c \in Cmd : Asked(c, h.client, r) /\ u.future[c] = Answer("granted", h.token)
             \/ Orphan(u, h.client, r)
  <2>1. CASE Orphan(s, h.client, r)
    BY <2>1, OrphansStay
  <2>2. CASE \E c \in Cmd : Asked(c, h.client, r) /\ s.future[c] = Answer("granted", h.token)
    <3>1. PICK c \in Cmd : Asked(c, h.client, r) /\ s.future[c] = Answer("granted", h.token)
      BY <2>2
    <3>2. s.future[c] # NoAnswer
      <4>1. s.future[c].kind = "granted" /\ NoAnswer.kind = "none"
        BY <3>1 DEF NoAnswer, Answer
      <4> QED
        BY <4>1
    <3>3. u.future[c] = s.future[c]
      BY <3>2, ApplyAnswers
    <3> QED
      BY <3>1, <3>3
  <2>3. HoldersAsked(s)
    BY <1>1
  <2> QED
    BY <2>1, <2>2, <2>3 DEF HoldersAsked
<1> HIDE DEF t, v
<1>8. ASSUME NEW r \in Resource, NEW h \in v.holders[r]
      PROVE  \/ \E c \in Cmd : Asked(c, h.client, r) /\ u.future[c] = Answer("granted", h.token)
             \/ Orphan(u, h.client, r)
  <2>1. CASE h \in t.holders[r]
    BY <1>7, <2>1
  <2>2. CASE \E k \in 1 .. Len(t.queue[r]) : t.queue[r][k].client = h.client
    BY <1>6, <2>2
  <2>3. CASE b.op = "acquire" /\ b.res = r /\ Grantable(t, r, b.mode) /\ h = h1
    <3>1. h.client = b.client /\ h.token = t.counter + 1
      BY <1>2, <2>3
    <3>2. AnswerOf(t, b) = Answer("granted", t.counter + 1)
      BY <2>3 DEF AnswerOf
    <3>3. CASE w # None /\ body[w] = b
      BY <1>3, <1>4, <2>3, <3>1, <3>2, <3>3
    <3>4. CASE Orphan(s, b.client, b.res)
      BY <2>3, <3>1, <3>4, OrphansStay
    <3> QED
      BY <2>3, <3>3, <3>4, AcquireAnswers
  <2> QED
    BY <1>1, <1>2, <2>1, <2>2, <2>3, TableEffect
<1>9. ASSUME NEW r \in Resource, NEW k \in 1 .. Len(v.queue[r])
      PROVE  Orphan(u, v.queue[r][k].client, r)
  <2>1. CASE \E j \in 1 .. Len(t.queue[r]) : v.queue[r][k] = t.queue[r][j]
    BY <1>6, <2>1
  <2>2. CASE /\ b.op = "acquire" /\ b.res = r /\ ~Grantable(t, r, b.mode)
             /\ v.queue[r][k].client = b.client
    <3>1. AnswerOf(t, b) = Answer("queued", 0)
      BY <2>2 DEF AnswerOf
    <3>2. CASE w # None /\ body[w] = b
      <4>1. u.future[w].kind # "granted"
        BY <1>4, <3>1, <3>2 DEF Answer
      <4> QED
        BY <1>3, <1>4, <1>5, <2>2, <3>2, <4>1 DEF Orphan
    <3>3. CASE Orphan(s, b.client, b.res)
      BY <2>2, <3>3, OrphansStay
    <3> QED
      BY <2>2, <3>2, <3>3, AcquireAnswers
  <2> QED
    BY <1>1, <1>2, <2>1, <2>2, TableEffect
<1> QED
  BY <1>8, <1>9 DEF HoldersAsked, v

\* The future of a call that shares its req_id with no other is set when the
\* call is applied.
LEMMA ApplyNotLost ==
  ASSUME NEW s, NEW i, NEW u, NEW b, NEW w, Applies(s, i, u, b, w)
  PROVE  NotLost(u)
PROOF
<1>1. SUFFICES ASSUME NEW c \in Submitted, ~Shared(c)
               PROVE  u.future[c] # NoAnswer \/ u.pending[body[c].id] = c
  BY DEF NotLost
<1>2. c \in Cmd /\ s.pending \in [Cmd -> Cmd \cup {None}]
  BY PositionOf DEF Applies, Kept, Typed
<1>3. body[c].id \in Cmd
  <2>1. body[c] \in Body
    BY <1>2 DEF Applies, Posted
  <2> QED
    BY <2>1, BodyFields
<1>4. CASE s.future[c] # NoAnswer
  BY <1>2, <1>4, ApplyAnswers
<1>5. CASE s.pending[body[c].id] = c
  <2>1. CASE body[c].id # b.id
    BY <1>2, <1>3, <1>5, <2>1 DEF Applies
  <2>2. CASE body[c].id = b.id
    <3>1. w = c /\ w # None
      BY <1>2, <1>5, <2>2, NoneIsNoCall DEF Applies
    <3> QED
      BY <3>1, ApplyAnswers
  <2> QED
    BY <2>1, <2>2
<1> QED
  BY <1>1, <1>4, <1>5 DEF Applies, Kept, NotLost

\* One command applied by the leader.
LEMMA CommandKept ==
  ASSUME LogFits, Posted, NEW s, NEW i \in 1 .. Len(order), Kept(s, i - 1)
  PROVE  /\ Kept(ApplyCmd(s, order[i]), i)
         /\ \A c \in Cmd :
              s.future[c] # NoAnswer => ApplyCmd(s, order[i]).future[c] = s.future[c]
PROOF
<1>1. PICK u : u = ApplyCmd(s, order[i])
  OBVIOUS
<1>2. PICK b : b = body[order[i]]
  OBVIOUS
<1>3. PICK w : w = s.pending[b.id]
  OBVIOUS
<1>4. Applies(s, i, u, b, w)
  BY <1>1, <1>2, <1>3, ApplyFields
<1>5. Kept(u, i)
  BY <1>4, ApplyTyped, ApplyRegistered, ApplyGrantTrue, ApplyNoStray, ApplyHoldersAsked,
     ApplyNotLost DEF Kept
<1>6. \A c \in Cmd : s.future[c] # NoAnswer => u.future[c] = s.future[c]
  BY <1>4, ApplyAnswers
<1> QED
  BY <1>1, <1>5, <1>6

-----------------------------------------------------------------------------
(***************************************************************************)
(* A node applies what it had not applied: induction over the commands.    *)
(***************************************************************************)

\* The leader: its futures and its table stay tied together, and what a future
\* holds stays in it.
LEMMA LeaderApplies ==
  ASSUME LogFits, Posted, leader \in Node,
         NEW last \in Nat, applied[leader] <= last, last <= Len(order),
         Kept(Now(leader), applied[leader]),
         NEW s, s = Applying(leader, applied[leader], last)[last]
  PROVE  /\ Kept(s, last)
         /\ \A c \in Cmd : future[c] # NoAnswer => s.future[c] = future[c]
PROOF
<1> DEFINE first == applied[leader]
           run   == Applying(leader, first, last)
           Good(u, i) == /\ Kept(u, i)
                         /\ \A c \in Cmd : future[c] # NoAnswer => u.future[c] = future[c]
           S     == {i \in first .. last : Good(run[i], i)}
<1>1. first \in Nat /\ Len(order) \in Nat
  BY DEF LogFits
<1> HIDE DEF first
<1>2. PICK r : r = run
  OBVIOUS
<1>3. /\ r[first] = Now(leader)
      /\ \A i \in first + 1 .. last : r[i] = ApplyCmd(r[i - 1], order[i])
  <2>1. first <= last
    BY DEF first
  <2> QED
    BY <1>1, <1>2, <2>1, OneByOne
<1>4. first \in S
  <2>1. Now(leader).future = future
    BY DEF Now
  <2>2. Good(r[first], first)
    BY <1>3, <2>1 DEF first
  <2>3. first \in first .. last
    BY <1>1 DEF first
  <2> QED
    BY <1>2, <2>2, <2>3
<1>5. ASSUME NEW i \in first .. last, i + 1 <= last, i \in S
      PROVE  i + 1 \in S
  <2>1. Good(r[i], i) /\ i \in Nat
    BY <1>1, <1>2, <1>5
  <2>2. i + 1 \in 1 .. Len(order) /\ i + 1 \in first + 1 .. last /\ (i + 1) - 1 = i
    BY <1>1, <1>5
  <2>3. r[i + 1] = ApplyCmd(r[i], order[i + 1])
    BY <1>3, <2>2
  <2>4. PICK k : k = i + 1
    OBVIOUS
  <2>5. PICK u : u = r[i]
    OBVIOUS
  <2>6. Kept(u, k - 1) /\ k \in 1 .. Len(order)
    BY <2>1, <2>2, <2>4, <2>5
  <2>7. /\ Kept(ApplyCmd(u, order[k]), k)
        /\ \A c \in Cmd : u.future[c] # NoAnswer => ApplyCmd(u, order[k]).future[c] = u.future[c]
    BY <2>6, CommandKept
  <2>8. Good(r[i + 1], i + 1)
    BY <2>1, <2>3, <2>4, <2>5, <2>7
  <2>9. i + 1 \in first .. last
    BY <1>1, <1>5
  <2> QED
    BY <1>2, <2>8, <2>9
<1>6. last \in S
  <2>1. last \in first .. last
    BY <1>1 DEF first
  <2> HIDE DEF S
  <2> QED
    BY <1>1, <1>4, <1>5, <2>1, UpTo
<1>7. s = run[last]
  BY DEF first
<1> QED
  BY <1>6, <1>7

\* Any other node has no futures: only its table changes.
LEMMA FollowerApplies ==
  ASSUME LogFits, Posted, NEW n \in Node, pending[n] \in [Cmd -> {None}],
         TableInv(table[n]),
         NEW last \in Nat, applied[n] <= last, last <= Len(order),
         NEW s, s = Applying(n, applied[n], last)[last]
  PROVE  s.future = future /\ s.pending = pending[n] /\ TableInv(s.table)
PROOF
<1> DEFINE first == applied[n]
           run   == Applying(n, first, last)
           Good(u) == u.future = future /\ u.pending = pending[n] /\ TableInv(u.table)
           S     == {i \in first .. last : Good(run[i])}
<1>1. first \in Nat /\ Len(order) \in Nat
  BY DEF LogFits
<1> HIDE DEF first
<1>2. PICK r : r = run
  OBVIOUS
<1>3. /\ r[first] = Now(n)
      /\ \A i \in first + 1 .. last : r[i] = ApplyCmd(r[i - 1], order[i])
  <2>1. first <= last
    BY DEF first
  <2> QED
    BY <1>1, <1>2, <2>1, OneByOne
<1>4. first \in S
  <2>1. Good(r[first])
    BY <1>3 DEF Now
  <2>2. first \in first .. last
    BY <1>1 DEF first
  <2> QED
    BY <1>2, <2>1, <2>2
<1>5. ASSUME NEW i \in first .. last, i + 1 <= last, i \in S
      PROVE  i + 1 \in S
  <2>1. Good(r[i]) /\ i \in Nat
    BY <1>1, <1>2, <1>5
  <2>2. i + 1 \in 1 .. Len(order) /\ i + 1 \in first + 1 .. last /\ (i + 1) - 1 = i
    BY <1>1, <1>5
  <2>3. r[i + 1] = ApplyCmd(r[i], order[i + 1])
    BY <1>3, <2>2
  <2>4. PICK u : u = r[i]
    OBVIOUS
  <2>5. PICK c \in Cmd : c = order[i + 1] /\ c \in Submitted
    BY <2>2 DEF LogFits, Submitted
  <2>6. PICK b \in Body : b = body[c]
    BY <2>5 DEF Posted
  <2>7. b.id \in Cmd
    BY BodyFields
  <2>8. /\ r[i + 1].future = u.future
        /\ r[i + 1].pending = [u.pending EXCEPT ![b.id] = None]
        /\ r[i + 1].table = TableAfter(u.table, b)
    <3>1. u.pending[b.id] = None
      BY <2>1, <2>4, <2>7
    <3> QED
      BY <2>3, <2>4, <2>5, <2>6, <3>1 DEF ApplyCmd
  <2>9. [u.pending EXCEPT ![b.id] = None] = u.pending
    BY <2>1, <2>4, <2>7
  <2>10. TableInv(u.table)
    BY <2>1, <2>4
  <2>11. TableInv(TableAfter(u.table, b))
    BY <2>10, AfterPreserves
  <2>12. Good(r[i + 1])
    BY <2>1, <2>4, <2>8, <2>9, <2>11
  <2>13. i + 1 \in first .. last
    BY <1>1, <1>5
  <2> QED
    BY <1>2, <2>12, <2>13
<1>6. last \in S
  <2>1. last \in first .. last
    BY <1>1 DEF first
  <2> HIDE DEF S
  <2> QED
    BY <1>1, <1>4, <1>5, <2>1, UpTo
<1>7. s = run[last]
  BY DEF first
<1> QED
  BY <1>6, <1>7

\* The tables a log of commands goes through, the same at every node.
TablesOf(h) ==
  /\ h[0] = EmptyTable
  /\ \A i \in 1 .. Len(order) : h[i] = TableAfter(h[i - 1], body[order[i]])

\* A node stays on the way that the log gives.
LEMMA TablesApply ==
  ASSUME LogFits, NEW n \in Node, NEW h, TablesOf(h), table[n] = h[applied[n]],
         NEW last \in Nat, applied[n] <= last, last <= Len(order),
         NEW s, s = Applying(n, applied[n], last)[last]
  PROVE  s.table = h[last]
PROOF
<1> DEFINE first == applied[n]
           run   == Applying(n, first, last)
           S     == {i \in first .. last : run[i].table = h[i]}
<1>1. first \in Nat /\ Len(order) \in Nat
  BY DEF LogFits
<1> HIDE DEF first
<1>2. PICK r : r = run
  OBVIOUS
<1>3. /\ r[first] = Now(n)
      /\ \A i \in first + 1 .. last : r[i] = ApplyCmd(r[i - 1], order[i])
  <2>1. first <= last
    BY DEF first
  <2> QED
    BY <1>1, <1>2, <2>1, OneByOne
<1>4. first \in S
  <2>1. r[first].table = h[first]
    BY <1>3 DEF Now, first
  <2>2. first \in first .. last
    BY <1>1 DEF first
  <2> QED
    BY <1>2, <2>1, <2>2
<1>5. ASSUME NEW i \in first .. last, i + 1 <= last, i \in S
      PROVE  i + 1 \in S
  <2>1. r[i].table = h[i] /\ i \in Nat
    BY <1>1, <1>2, <1>5
  <2>2. i + 1 \in 1 .. Len(order) /\ i + 1 \in first + 1 .. last /\ (i + 1) - 1 = i
    BY <1>1, <1>5
  <2>3. r[i + 1].table = TableAfter(r[i].table, body[order[i + 1]])
    <3>1. PICK u : u = r[i]
      OBVIOUS
    <3>2. PICK c : c = order[i + 1]
      OBVIOUS
    <3>3. r[i + 1] = ApplyCmd(u, c)
      BY <1>3, <2>2, <3>1, <3>2
    <3>4. ApplyCmd(u, c).table = TableAfter(u.table, body[c])
      BY DEF ApplyCmd
    <3> QED
      BY <3>1, <3>2, <3>3, <3>4
  <2>4. h[i + 1] = TableAfter(h[i], body[order[i + 1]])
    BY <2>2 DEF TablesOf
  <2>5. i + 1 \in first .. last
    BY <1>1, <1>5
  <2> QED
    BY <1>2, <2>1, <2>3, <2>4, <2>5
<1>6. last \in S
  <2>1. last \in first .. last
    BY <1>1 DEF first
  <2> HIDE DEF S
  <2> QED
    BY <1>1, <1>4, <1>5, <2>1, UpTo
<1>7. s = run[last]
  BY DEF first
<1> QED
  BY <1>6, <1>7

-----------------------------------------------------------------------------
(***************************************************************************)
(* The inductive invariant.                                                *)
(***************************************************************************)

\* Nodes that do not lead have no futures.
Others == \A n \in Node : n # leader => pending[n] \in [Cmd -> {None}]

LeaderKept ==
  IF leader = None THEN \A c \in Cmd : future[c] = NoAnswer
                   ELSE Kept(Now(leader), applied[leader])

TablesFine == \A n \in Node : TableInv(table[n])

Traced == \E h : TablesOf(h) /\ \A n \in Node : table[n] = h[applied[n]]

\* A token reaches the client of the future that has it.
ToldTrue ==
  \A c \in Cmd :
    /\ told[c].kind = "granted" => told[c] = future[c]
    /\ phase[c] = "new" => told[c] = NoAnswer

ServiceInv ==
  /\ TypeOK /\ LogFits /\ Posted /\ Others /\ LeaderKept
  /\ TablesFine /\ Traced /\ ToldTrue /\ PendingOnlyIfReplaced

\* The table of a node that applied nothing.
LEMMA EmptyFine == TableInv(EmptyTable)
BY FreeIsNoMode
   DEF TableInv, EmptyTable, WellTyped, Table, LockMode, Excludes, ExcludesAt,
       HeadBlocks, HeadBlocksAt, UniqueTokens, EdgesFromQueues

\* Nobody has called yet.
LEMMA ServiceInit == Init => ServiceInv
PROOF
<1>1. SUFFICES ASSUME Init PROVE ServiceInv
  OBVIOUS
<1>2. /\ leader = None /\ order = << >> /\ have = [n \in Node |-> 0]
      /\ applied = [n \in Node |-> 0] /\ result = [c \in Cmd |-> "none"]
      /\ Submitted = {}
  BY <1>1 DEF Init, LogInit, Submitted
<1>3. NoAnswer \in Ans /\ NoAnswer.kind = "none"
  BY DEF NoAnswer, Answer, Ans, Kinds
<1>4. TypeOK
  <2>1. Len(Cluster) \in Nat
    BY ClusterIsTheNodes
  <2>2. DOMAIN table = Node /\ \A n \in Node : WellTyped(table[n])
    BY <1>1, EmptyFine DEF Init, TableInv
  <2>3. pending \in [Node -> [Cmd -> Cmd \cup {None}]]
    BY <1>1 DEF Init
  <2>4. future \in [Cmd -> [kind : Kinds, token : Nat]]
        /\ told \in [Cmd -> [kind : Kinds, token : Nat]]
    BY <1>1, <1>3 DEF Init, Ans
  <2> QED
    BY <1>1, <1>2, <2>1, <2>2, <2>3, <2>4, MaxTimeoutsIsNat DEF Init, TypeOK
<1>5. LogFits
  BY <1>2 DEF LogFits
<1>6. Posted
  BY <1>1, <1>2 DEF Init, Posted
<1>7. Others /\ LeaderKept
  BY <1>1, <1>2 DEF Init, Others, LeaderKept
<1>8. TablesFine
  BY <1>1, EmptyFine DEF Init, TablesFine
<1>9. Traced
  <2> DEFINE h == [i \in {0} |-> EmptyTable]
  <2>1. TablesOf(h)
    BY <1>2 DEF TablesOf
  <2>2. \A n \in Node : table[n] = h[applied[n]]
    BY <1>1, <1>2 DEF Init
  <2> QED
    BY <2>1, <2>2 DEF Traced
<1>10. ToldTrue /\ PendingOnlyIfReplaced
  BY <1>1, <1>3 DEF Init, ToldTrue, PendingOnlyIfReplaced
<1> QED
  BY <1>4, <1>5, <1>6, <1>7, <1>8, <1>9, <1>10 DEF ServiceInv

-----------------------------------------------------------------------------

\* What was posted stays posted.
BodiesStay == \A c \in Cmd : phase[c] # "new" => phase'[c] # "new" /\ body'[c] = body[c]

\* A release that was asked for stays asked for.
LEMMA ReleasedStays ==
  ASSUME BodiesStay, NEW r, NEW token, Released(r, token)
  PROVE  Released(r, token)'
BY DEF Released, BodiesStay

\* The acquire behind a token stays posted.
LEMMA TrueGrantStays ==
  ASSUME BodiesStay, NEW s, NEW c, NEW d \in Cmd, body'[c] = body[c], TrueGrant(s, c, d)
  PROVE  TrueGrant(s, c, d)'
PROOF
<1>1. phase[d] # "new" /\ phase'[d] # "new" /\ body'[d] = body[d]
  BY DEF TrueGrant, BodiesStay
<1> QED
  BY <1>1, ReleasedStays DEF TrueGrant

\* Two bodies with one req_id stay posted.
LEMMA SharedStays ==
  ASSUME BodiesStay, NEW c \in Cmd, phase[c] # "new", ~OneBody(c)
  PROVE  ~OneBody(c)'
PROOF
<1>1. PICK d \in Cmd : SameId(c, d) /\ body[d] # body[c]
  BY DEF OneBody
<1>2. phase[d] # "new"
  BY <1>1 DEF SameId
<1>3. SameId(c, d)' /\ body'[d] # body'[c]
  BY <1>1, <1>2 DEF SameId, BodiesStay
<1> QED
  BY <1>3 DEF OneBody

\* While the log stays, the futures and the table of a node stay tied together.
LEMMA KeptStays ==
  ASSUME LogFits, Posted, order' = order, BodiesStay, NEW s, NEW i, Kept(s, i)
  PROVE  Kept(s, i)'
PROOF
<1>1. /\ Typed(s) /\ Registered(s, i) /\ Answered(s) /\ GrantTrue(s)
      /\ NoStray(s, i) /\ HoldersAsked(s) /\ NotLost(s)
  BY DEF Kept
<1>2. Submitted' = Submitted /\ \A c : Position(c)' = Position(c)
  BY DEF Submitted, Position
<1>3. \A c \in Submitted : c \in Cmd /\ phase[c] # "new" /\ body'[c] = body[c]
  BY PositionOf DEF Posted, BodiesStay
<1>4. Typed(s)'
  BY <1>1 DEF Typed
<1>5. Registered(s, i)' /\ Answered(s)'
  BY <1>1, <1>2, <1>3 DEF Registered, Answered
<1>6. GrantTrue(s)'
  <2>1. SUFFICES ASSUME NEW c \in Cmd, s.future[c].kind = "granted"
                 PROVE  \E d \in Cmd : TrueGrant(s, c, d)'
    BY DEF GrantTrue
  <2>2. PICK d \in Cmd : TrueGrant(s, c, d)
    BY <1>1, <2>1 DEF GrantTrue
  <2>3. body'[c] = body[c]
    <3>1. NoAnswer.kind = "none"
      BY DEF NoAnswer, Answer
    <3> QED
      BY <1>1, <1>3, <2>1, <3>1 DEF Answered
  <2>4. TrueGrant(s, c, d)'
    BY <2>2, <2>3, TrueGrantStays
  <2> QED
    BY <2>4
<1>7. \A c, client, r : Asked(c, client, r) => Asked(c, client, r)' /\ body'[c] = body[c]
  BY <1>2, <1>3 DEF Asked
<1>8. \A client, r : Orphan(s, client, r) => Orphan(s, client, r)'
  BY <1>7, SharedStays DEF Orphan, Asked, Posted
<1>9. NoStray(s, i)'
  BY <1>1, <1>2, <1>3, <1>8 DEF NoStray
<1>10. HoldersAsked(s)'
  BY <1>1, <1>7, <1>8 DEF HoldersAsked
<1>11. NotLost(s)'
  <2>1. \A c \in Submitted : Shared(c) => Shared(c)'
    BY <1>2, <1>3 DEF Shared
  <2> QED
    BY <1>1, <1>2, <1>3, <2>1 DEF NotLost
<1> QED
  BY <1>4, <1>5, <1>6, <1>9, <1>10, <1>11 DEF Kept

-----------------------------------------------------------------------------
(***************************************************************************)
(* A call is posted and submitted.                                         *)
(***************************************************************************)

\* What a client may post has the form of a body (lock_service.py:163-214).
LEMMA BodiesTyped ==
  ASSUME TypeOK, Posted, NEW c \in Cmd, NEW b \in Bodies(c)
  PROVE  b \in Body
PROOF
<1>1. CASE b \in Acquires(c)
  <2>1. UsedIds \subseteq Cmd
    BY BodyFields DEF UsedIds, Posted
  <2> QED
    BY <1>1, <2>1 DEF Acquires, Body
<1>2. CASE b \in Checks(c)
  BY <1>2 DEF Checks, Body
<1>3. CASE b \in Releases(c)
  <2>1. \A n \in Node : 1 .. table[n].counter \subseteq Nat
    BY DEF TypeOK, WellTyped, Table
  <2>2. UNION {1 .. table[n].counter : n \in Node} \subseteq Nat
    BY <2>1
  <2> QED
    BY <1>3, <2>2 DEF Releases, Body
<1> QED
  BY <1>1, <1>2, <1>3 DEF Bodies

\* What a handler at the leader does with the body b of the call c.
Posts(c, b) ==
  /\ leader \in Node /\ c \notin Submitted /\ b \in Body
  /\ phase[c] # "waiting" /\ (phase[c] = "new" \/ body[c] = b)
  /\ leader' = leader /\ applied' = applied /\ table' = table /\ future' = future
  /\ told' = told
  /\ order' = Append(order, c)
  /\ body' = [body EXCEPT ![c] = b]
  /\ phase' = [phase EXCEPT ![c] = "submitting"]
  /\ pending' = [pending EXCEPT ![leader][b.id] = c]

\* The log is longer by one command that was not in it.
LEMMA LogGrows ==
  ASSUME LogFits, NEW c \in Cmd, c \notin Submitted, order' = Append(order, c),
         leader' = leader, leader \in Node, applied' = applied
  PROVE  /\ LogFits'
         /\ Len(order') = Len(order) + 1 /\ Len(order) \in Nat
         /\ \A i \in 1 .. Len(order) : order'[i] = order[i]
         /\ order'[Len(order) + 1] = c
         /\ Submitted' = Submitted \cup {c}
         /\ Position(c)' = Len(order) + 1
         /\ \A d \in Submitted : Position(d)' = Position(d)
PROOF
<1>1. /\ order \in Seq(Cmd) /\ Len(order) \in Nat /\ order' \in Seq(Cmd)
      /\ Len(order') = Len(order) + 1
      /\ order'[Len(order) + 1] = c
      /\ \A i \in 1 .. Len(order) : order'[i] = order[i]
  BY DEF LogFits
<1>2. \A i \in 1 .. Len(order) : order[i] # c
  BY DEF Submitted
<1>3. \A i \in 1 .. Len(order') : i \in 1 .. Len(order) \/ i = Len(order) + 1
  BY <1>1
<1>4. LogFits'
  <2>1. \A i, j \in 1 .. Len(order') : order'[i] = order'[j] => i = j
    BY <1>1, <1>2, <1>3 DEF LogFits
  <2>2. \A n \in Node : applied'[n] <= Len(order')
    BY <1>1 DEF LogFits
  <2> QED
    BY <1>1, <2>1, <2>2, NoneLeadsNot DEF LogFits
<1>5. Submitted' = Submitted \cup {c}
  BY <1>1, <1>3 DEF Submitted
<1>6. ASSUME NEW i \in 1 .. Len(order'), NEW d, order'[i] = d
      PROVE  Position(d)' = i
  BY <1>4, <1>6 DEF LogFits, Position
<1>7. Position(c)' = Len(order) + 1
  <2>1. Len(order) + 1 \in 1 .. Len(order')
    BY <1>1
  <2> QED
    BY <1>1, <1>6, <2>1
<1>8. ASSUME NEW d \in Submitted
      PROVE  Position(d)' = Position(d)
  <2>1. Position(d) \in 1 .. Len(order) /\ order[Position(d)] = d
    BY PositionOf
  <2>2. PICK k \in 1 .. Len(order) : k = Position(d)
    BY <2>1
  <2>3. order'[k] = d /\ k \in 1 .. Len(order')
    BY <1>1, <2>1, <2>2
  <2> QED
    BY <1>6, <2>2, <2>3
<1> QED
  BY <1>1, <1>4, <1>5, <1>7, <1>8

\* A call that was not submitted before has nothing in its future.
LEMMA PostsKept ==
  ASSUME LogFits, Posted, NEW c \in Cmd, NEW b, Posts(c, b),
         NEW s, NEW i \in Nat, i <= Len(order), Kept(s, i),
         NEW u, u.table = s.table, u.future = s.future,
         u.pending = [s.pending EXCEPT ![b.id] = c]
  PROVE  Kept(u, i)'
PROOF
<1>1. /\ Typed(s) /\ Registered(s, i) /\ Answered(s) /\ GrantTrue(s)
      /\ NoStray(s, i) /\ HoldersAsked(s) /\ NotLost(s)
  BY DEF Kept
<1>2. /\ b \in Body /\ b.id \in Cmd /\ c \notin Submitted
      /\ body' = [body EXCEPT ![c] = b]
      /\ phase' = [phase EXCEPT ![c] = "submitting"]
  BY BodyFields DEF Posts
<1>3. /\ Submitted' = Submitted \cup {c}
      /\ Position(c)' = Len(order) + 1 /\ Len(order) \in Nat
      /\ \A d \in Submitted : Position(d)' = Position(d)
  <2>1. /\ order' = Append(order, c) /\ leader' = leader /\ leader \in Node
        /\ applied' = applied
    BY DEF Posts
  <2> QED
    BY <1>2, <2>1, LogGrows
<1>4. /\ \A d \in Submitted : d \in Cmd /\ d # c /\ body'[d] = body[d] /\ body[d].id \in Cmd
      /\ body'[c] = b
  <2>1. \A d \in Submitted : d \in Cmd /\ d # c /\ body'[d] = body[d] /\ body[d] \in Body
    BY <1>2, PositionOf DEF Posted
  <2>2. body'[c] = b
    BY <1>2 DEF Posted
  <2> QED
    BY <2>1, <2>2, BodyFields
<1>5. BodiesStay
  <2>1. \A d \in Cmd : d # c => body'[d] = body[d] /\ (phase[d] # "new" => phase'[d] # "new")
    BY <1>2 DEF Posted
  <2>2. phase[c] # "new" => body'[c] = body[c] /\ phase'[c] # "new"
    BY <1>2, <1>4 DEF Posts
  <2> QED
    BY <2>1, <2>2 DEF BodiesStay
<1>6. /\ s.pending \in [Cmd -> Cmd \cup {None}] /\ s.future \in [Cmd -> Result]
      /\ s.future[c] = NoAnswer
  BY <1>1, <1>2 DEF Typed, Answered
<1>7. u.pending[b.id] = c /\ \A id \in Cmd : id # b.id => u.pending[id] = s.pending[id]
  BY <1>2, <1>6
<1>8. Typed(u)'
  <2>1. u.pending \in [Cmd -> Cmd \cup {None}]
    BY <1>2, <1>6
  <2> QED
    BY <1>1, <2>1 DEF Typed
<1>9. Registered(u, i)'
  <2>1. ASSUME NEW id \in Cmd, u.pending[id] # None, NEW d, d = u.pending[id]
        PROVE  /\ d \in Submitted' /\ Position(d)' > i
               /\ body'[d].id = id /\ u.future[d] = NoAnswer
    <3>1. CASE id = b.id
      BY <1>3, <1>4, <1>6, <1>7, <2>1, <3>1
    <3>2. CASE id # b.id
      BY <1>1, <1>3, <1>4, <1>7, <2>1, <3>2 DEF Registered
    <3> QED
      BY <3>1, <3>2
  <2> QED
    BY <2>1 DEF Registered
<1>10. Answered(u)'
  BY <1>1, <1>3 DEF Answered
<1>11. GrantTrue(u)'
  <2>1. SUFFICES ASSUME NEW e \in Cmd, s.future[e].kind = "granted"
                 PROVE  \E d \in Cmd : TrueGrant(u, e, d)'
    BY DEF GrantTrue
  <2>2. PICK d \in Cmd : TrueGrant(s, e, d)
    BY <1>1, <2>1 DEF GrantTrue
  <2>3. body'[e] = body[e]
    <3>1. NoAnswer.kind = "none"
      BY DEF NoAnswer, Answer
    <3> QED
      BY <1>1, <1>4, <2>1, <3>1 DEF Answered
  <2>4. TrueGrant(u, e, d)
    BY <2>2 DEF TrueGrant
  <2>5. TrueGrant(u, e, d)'
    BY <1>5, <2>3, <2>4, TrueGrantStays
  <2> QED
    BY <2>5
<1>12. \A d, client, r : Asked(d, client, r) =>
         Asked(d, client, r)' /\ body'[d] = body[d] /\ body[d].id \in Cmd /\ d # c
  BY <1>3, <1>4 DEF Asked
<1>13. ASSUME NEW client, NEW r, Orphan(s, client, r)
       PROVE  Orphan(u, client, r)'
  <2>1. PICK d \in Cmd : /\ Asked(d, client, r)
                        /\ \/ ~OneBody(d)
                           \/ s.future[d].kind # "granted" /\ s.pending[body[d].id] # d
    BY <1>13 DEF Orphan
  <2>2. Asked(d, client, r)' /\ body'[d] = body[d] /\ body[d].id \in Cmd /\ d # c
    BY <1>12, <2>1
  <2>3. CASE ~OneBody(d)
    <3>1. phase[d] # "new"
      BY <2>1 DEF Asked, Posted
    <3>2. ~OneBody(d)'
      BY <1>5, <2>3, <3>1, SharedStays
    <3> QED
      BY <2>2, <3>2 DEF Orphan
  <2>4. CASE s.future[d].kind # "granted" /\ s.pending[body[d].id] # d
    <3>1. u.pending[body[d].id] # d
      BY <1>7, <2>2, <2>4
    <3> QED
      BY <2>2, <2>4, <3>1 DEF Orphan
  <2> QED
    BY <2>1, <2>3, <2>4
<1>14. NoStray(u, i)'
  <2>1. SUFFICES ASSUME NEW d \in Submitted', Position(d)' > i,
                        NEW e, e = body'[d], e.op = "acquire"
                 PROVE  u.pending[e.id] = d \/ Orphan(u, e.client, e.res)'
    BY DEF NoStray
  <2>2. CASE d = c
    BY <1>4, <1>7, <2>1, <2>2
  <2>3. CASE d # c
    <3>1. d \in Submitted /\ d \in Cmd /\ Position(d) > i /\ body[d] = e /\ e.id \in Cmd
      BY <1>3, <1>4, <2>1, <2>3
    <3>2. s.pending[e.id] = d \/ Orphan(s, e.client, e.res)
      BY <1>1, <2>1, <3>1 DEF NoStray
    <3>3. CASE Orphan(s, e.client, e.res)
      BY <1>13, <3>3
    <3>4. CASE s.pending[e.id] = d /\ e.id # b.id
      BY <1>7, <3>1, <3>4
    <3>5. CASE s.pending[e.id] = d /\ e.id = b.id
      <4>1. s.future[d] = NoAnswer /\ NoAnswer.kind = "none"
        BY <1>1, <3>1, <3>5, NoneIsNoCall DEF Registered, NoAnswer, Answer
      <4>2. Asked(d, e.client, e.res)'
        BY <1>12, <2>1, <3>1 DEF Asked
      <4>3. u.pending[e.id] # d
        BY <1>7, <2>3, <3>5
      <4> QED
        BY <2>1, <3>1, <4>1, <4>2, <4>3 DEF Orphan
    <3> QED
      BY <3>2, <3>3, <3>4, <3>5
  <2> QED
    BY <2>2, <2>3
<1>15. HoldersAsked(u)'
  BY <1>1, <1>12, <1>13 DEF HoldersAsked
<1>16. NotLost(u)'
  <2>1. SUFFICES ASSUME NEW d \in Submitted', ~Shared(d)'
                 PROVE  u.future[d] # NoAnswer \/ u.pending[body'[d].id] = d
    BY DEF NotLost
  <2>2. CASE d = c
    BY <1>4, <1>7, <2>2
  <2>3. CASE d # c
    <3>1. d \in Submitted /\ body'[d] = body[d] /\ body[d].id \in Cmd
      BY <1>3, <1>4, <2>1, <2>3
    <3>2. ~Shared(d) /\ body[d].id # b.id
      BY <1>3, <1>4, <2>1, <2>3, <3>1 DEF Shared
    <3> QED
      BY <1>1, <1>7, <3>1, <3>2 DEF NotLost
  <2> QED
    BY <2>2, <2>3
<1> QED
  BY <1>8, <1>9, <1>10, <1>11, <1>14, <1>15, <1>16 DEF Kept

\* Posting a body keeps the bodies of the calls that were posted.
LEMMA PostsStay ==
  ASSUME LogFits, Posted, NEW c \in Cmd, NEW b, Posts(c, b)
  PROVE  BodiesStay
PROOF
<1>1. \A d \in Cmd : d # c => body'[d] = body[d] /\ (phase[d] # "new" => phase'[d] # "new")
  BY DEF Posts, Posted
<1>2. phase[c] # "new" => body'[c] = body[c] /\ phase'[c] # "new"
  BY DEF Posts, Posted
<1> QED
  BY <1>1, <1>2 DEF BodiesStay

-----------------------------------------------------------------------------
(***************************************************************************)
(* What a step leaves, part by part.                                       *)
(***************************************************************************)

FuturesStay == \A c \in Cmd : future[c] # NoAnswer => future'[c] = future[c]

\* A client is told what its future holds, or something without a token; it is
\* told to wait on only if its call shares its req_id.
ToldStep ==
  \A c \in Cmd :
    \/ told'[c] = told[c]
    \/ /\ phase[c] # "new"
       /\ told'[c].kind = "granted" => told'[c] = future'[c]
       /\ told'[c].kind = "pending" => Shared(c)

\* An answer stays what it was, and what is told anew comes from the future.
LEMMA ToldKept ==
  ASSUME LogFits, Posted, ToldTrue, PendingOnlyIfReplaced,
         BodiesStay, FuturesStay, ToldStep, Submitted \subseteq Submitted'
  PROVE  ToldTrue' /\ PendingOnlyIfReplaced'
PROOF
<1>1. NoAnswer.kind = "none"
  BY DEF NoAnswer, Answer
<1>2. ToldTrue'
  <2>1. ASSUME NEW c \in Cmd, told'[c].kind = "granted"
        PROVE  told'[c] = future'[c]
    <3>1. CASE told'[c] = told[c]
      <4>1. future[c] = told[c] /\ future[c] # NoAnswer
        BY <1>1, <2>1, <3>1 DEF ToldTrue
      <4> QED
        BY <3>1, <4>1 DEF FuturesStay
    <3> QED
      BY <2>1, <3>1 DEF ToldStep
  <2>2. ASSUME NEW c \in Cmd, phase'[c] = "new"
        PROVE  told'[c] = NoAnswer
    BY <2>2 DEF ToldTrue, ToldStep, BodiesStay
  <2> QED
    BY <2>1, <2>2 DEF ToldTrue
<1>3. ASSUME NEW c \in Cmd, told'[c].kind = "pending"
      PROVE  \E d \in Cmd \ {c} : d \in Submitted' /\ body'[d].id = body'[c].id
  <2>1. phase[c] # "new"
    BY <1>1, <1>3 DEF ToldStep, ToldTrue
  <2>2. body'[c] = body[c]
    BY <2>1 DEF BodiesStay
  <2>3. \E d \in Submitted \ {c} : body[d].id = body[c].id
    BY <1>3 DEF ToldStep, PendingOnlyIfReplaced, Shared
  <2>4. PICK d \in Submitted \ {c} : body[d].id = body[c].id
    BY <2>3
  <2>5. d \in Cmd \ {c} /\ d \in Submitted' /\ phase[d] # "new"
    BY <2>4, PositionOf DEF Posted
  <2> QED
    BY <2>2, <2>4, <2>5 DEF BodiesStay
<1> QED
  BY <1>2, <1>3 DEF PendingOnlyIfReplaced

\* A call that waits waits for what is applied.
LEMMA PostedStays ==
  ASSUME LogFits, Posted, order' = order, body' = body,
         \A c \in Cmd : phase'[c] = "new" <=> phase[c] = "new",
         \A c \in Cmd :
           phase'[c] = "waiting" => c \in Submitted /\ Position(c) <= applied'[leader']
  PROVE  Posted'
PROOF
<1>1. Submitted' = Submitted /\ \A c : Position(c)' = Position(c)
  BY DEF Submitted, Position
<1>2. body' \in [Cmd -> Body \cup {None}]
  BY DEF Posted
<1>3. \A c \in Cmd : phase[c] # "new" => body[c].id \in Cmd
  BY BodyFields DEF Posted
<1> QED
  BY <1>1, <1>2, <1>3 DEF Posted

\* The tables of a log are those of the longer log.
LEMMA TracedStays ==
  ASSUME LogFits, Posted, order' = order, BodiesStay, NEW h, TablesOf(h)
  PROVE  TablesOf(h)'
PROOF
<1>1. \A i \in 1 .. Len(order) : body'[order[i]] = body[order[i]]
  <2>1. \A i \in 1 .. Len(order) : order[i] \in Cmd /\ order[i] \in Submitted
    BY DEF LogFits, Submitted
  <2> QED
    BY <2>1 DEF Posted, BodiesStay
<1> QED
  BY <1>1 DEF TablesOf, TableAfter

\* Nothing happens to the log, the tables and the futures.
LEMMA QuietKept ==
  ASSUME LogFits, Posted, Others, LeaderKept, TablesFine, Traced, BodiesStay,
         UNCHANGED <<leader, order, applied, table, pending, future>>
  PROVE  LogFits' /\ Others' /\ LeaderKept' /\ TablesFine' /\ Traced' /\ FuturesStay
PROOF
<1>1. LogFits' /\ Others' /\ TablesFine' /\ FuturesStay
  BY DEF LogFits, Others, TablesFine, FuturesStay
<1>2. LeaderKept'
  <2>1. CASE leader = None
    BY <2>1 DEF LeaderKept
  <2>2. CASE leader # None
    <3>1. PICK s : s = Now(leader)
      OBVIOUS
    <3>2. PICK i : i = applied[leader]
      OBVIOUS
    <3>3. Kept(s, i)'
      BY <2>2, <3>1, <3>2, KeptStays DEF LeaderKept
    <3>4. s = Now(leader)' /\ i = applied'[leader']
      BY <3>1, <3>2 DEF Now
    <3> QED
      BY <2>2, <3>3, <3>4 DEF LeaderKept
  <2> QED
    BY <2>1, <2>2
<1>3. Traced'
  <2>1. PICK h : TablesOf(h) /\ \A n \in Node : table[n] = h[applied[n]]
    BY DEF Traced
  <2>2. TablesOf(h)'
    BY <2>1, TracedStays
  <2> QED
    BY <2>1, <2>2 DEF Traced
<1> QED
  BY <1>1, <1>2, <1>3

\* A call to the leader is submitted: the parts of the invariant again.
LEMMA PostsAll ==
  ASSUME ServiceInv, NEW c \in Cmd, NEW b, Posts(c, b)
  PROVE  /\ LogFits' /\ Posted' /\ Others' /\ LeaderKept' /\ TablesFine' /\ Traced'
         /\ ToldTrue' /\ PendingOnlyIfReplaced'
PROOF
<1>1. /\ LogFits /\ Posted /\ Others /\ LeaderKept /\ TablesFine /\ Traced /\ ToldTrue
      /\ PendingOnlyIfReplaced /\ pending \in [Node -> [Cmd -> Cmd \cup {None}]]
      /\ DOMAIN phase = Cmd
  BY DEF ServiceInv, TypeOK
<1>2. /\ leader \in Node /\ c \notin Submitted /\ order' = Append(order, c)
      /\ leader' = leader /\ applied' = applied /\ table' = table /\ future' = future
      /\ told' = told /\ b \in Body /\ b.id \in Cmd
      /\ body' = [body EXCEPT ![c] = b]
      /\ phase' = [phase EXCEPT ![c] = "submitting"]
      /\ pending' = [pending EXCEPT ![leader][b.id] = c]
  BY BodyFields DEF Posts
<1>3. BodiesStay
  BY <1>1, PostsStay
<1>4. /\ LogFits'
      /\ Len(order') = Len(order) + 1 /\ Len(order) \in Nat
      /\ \A i \in 1 .. Len(order) : order'[i] = order[i]
      /\ order'[Len(order) + 1] = c
      /\ Submitted' = Submitted \cup {c}
      /\ Position(c)' = Len(order) + 1
      /\ \A d \in Submitted : Position(d)' = Position(d)
  BY <1>1, <1>2, LogGrows
<1>5. \A d \in Submitted : d \in Cmd /\ d # c /\ phase[d] # "new" /\ body'[d] = body[d]
  BY <1>1, <1>2, <1>3, PositionOf DEF Posted, BodiesStay
<1>6. Posted'
  <2>1. body' \in [Cmd -> Body \cup {None}] /\ body'[c] = b
    BY <1>1, <1>2 DEF Posted
  <2>2. ASSUME NEW d \in Cmd, phase'[d] = "new"
        PROVE  d \notin Submitted'
    <3>1. d # c /\ phase[d] = "new"
      BY <1>1, <1>2, <1>3, <2>2 DEF BodiesStay, Posts
    <3> QED
      BY <1>1, <1>4, <3>1 DEF Posted
  <2>3. ASSUME NEW d \in Cmd, phase'[d] # "new"
        PROVE  body'[d] \in Body
    <3>1. CASE d = c
      BY <1>2, <2>1, <3>1
    <3>2. CASE d # c
      <4>1. phase[d] # "new" /\ body'[d] = body[d]
        BY <1>2, <1>3, <2>3, <3>2 DEF BodiesStay
      <4> QED
        BY <1>1, <4>1 DEF Posted
    <3> QED
      BY <3>1, <3>2
  <2>4. ASSUME NEW d \in Cmd, phase'[d] = "waiting"
        PROVE  d \in Submitted' /\ Position(d)' <= applied'[leader']
    <3>1. d # c /\ phase[d] = "waiting"
      BY <1>1, <1>2, <2>4 DEF Posts
    <3> QED
      BY <1>1, <1>2, <1>4, <3>1 DEF Posted
  <2> QED
    BY <2>1, <2>2, <2>3, <2>4 DEF Posted
<1>7. Others'
  BY <1>1, <1>2 DEF Others
<1>8. LeaderKept'
  <2>1. PICK s : s = Now(leader)
    OBVIOUS
  <2>2. PICK i : i = applied[leader]
    OBVIOUS
  <2>3. PICK u : u = [table |-> s.table, pending |-> [s.pending EXCEPT ![b.id] = c],
                      future |-> s.future]
    OBVIOUS
  <2>4. Kept(s, i) /\ leader # None
    BY <1>1, <1>2, <2>1, <2>2, NoneLeadsNot DEF LeaderKept
  <2>5. /\ u.table = s.table /\ u.future = s.future
        /\ u.pending = [s.pending EXCEPT ![b.id] = c]
    BY <2>3
  <2>6. i \in Nat /\ i <= Len(order)
    BY <1>1, <1>2, <2>2 DEF LogFits
  <2>7. Kept(u, i)'
    BY <1>1, <2>4, <2>5, <2>6, PostsKept
  <2>8. u = Now(leader)' /\ i = applied'[leader']
    BY <1>1, <1>2, <2>1, <2>2, <2>3 DEF Now
  <2> QED
    BY <1>2, <2>4, <2>7, <2>8 DEF LeaderKept
<1>9. TablesFine'
  BY <1>1, <1>2 DEF TablesFine
<1>10. Traced'
  <2>1. PICK h : TablesOf(h) /\ \A n \in Node : table[n] = h[applied[n]]
    BY <1>1 DEF Traced
  <2> DEFINE k == Len(order) + 1
  <2>0. PICK g : g = [i \in 0 .. k |-> IF i = k THEN TableAfter(h[i - 1], b) ELSE h[i]]
    OBVIOUS
  <2>2. g[0] = h[0] /\ \A i \in 1 .. Len(order) : g[i] = h[i] /\ g[i - 1] = h[i - 1]
    BY <1>4, <2>0
  <2>3. g[k] = TableAfter(g[k - 1], b) /\ body'[order'[k]] = b
    BY <1>1, <1>2, <1>4, <2>0 DEF Posted
  <2>4. \A i \in 1 .. Len(order) : body'[order'[i]] = body[order[i]]
    BY <1>4, <1>5 DEF Submitted
  <2>5. \A i \in 1 .. Len(order') : i \in 1 .. Len(order) \/ i = k
    BY <1>4
  <2>6. \A n \in Node : applied'[n] \in 0 .. Len(order) /\ applied'[n] = applied[n]
    BY <1>1, <1>2 DEF LogFits
  <2>7. \A n \in Node : table'[n] = g[applied'[n]]
    BY <1>2, <1>4, <2>0, <2>1, <2>6
  <2> HIDE DEF k
  <2>8. TablesOf(g)'
    <3>1. g[0] = EmptyTable
      BY <2>1, <2>2 DEF TablesOf
    <3>2. ASSUME NEW i \in 1 .. Len(order'), NEW e, e = body'[order'[i]]
          PROVE  g[i] = TableAfter(g[i - 1], e)
      <4>1. CASE i = k
        BY <2>3, <3>2, <4>1
      <4>2. CASE i \in 1 .. Len(order)
        <5>1. h[i] = TableAfter(h[i - 1], body[order[i]])
          BY <2>1, <4>2 DEF TablesOf
        <5> QED
          BY <2>2, <2>4, <3>2, <4>2, <5>1
      <4> QED
        BY <2>5, <4>1, <4>2
    <3> QED
      BY <3>1, <3>2 DEF TablesOf
  <2> QED
    BY <2>7, <2>8 DEF Traced
<1>11. ToldTrue' /\ PendingOnlyIfReplaced'
  <2>1. FuturesStay /\ ToldStep
    BY <1>2 DEF FuturesStay, ToldStep
  <2> QED
    BY <1>1, <1>3, <1>4, <2>1, ToldKept
<1> QED
  BY <1>4, <1>6, <1>7, <1>8, <1>9, <1>10, <1>11

\* A node that does not lead takes entries and applies commands: its table
\* stays on the way of the log, and nothing else changes.
LEMMA ReplicateAll ==
  ASSUME ServiceInv, NEW n \in Node, Replicate(n)
  PROVE  /\ LogFits' /\ Posted' /\ Others' /\ LeaderKept' /\ TablesFine' /\ Traced'
         /\ ToldTrue' /\ PendingOnlyIfReplaced'
         /\ have' \in [Node -> Nat] /\ table' \in [Node -> Table]
         /\ pending' = pending /\ future' = future
PROOF
<1>1. /\ LogFits /\ Posted /\ Others /\ LeaderKept /\ TablesFine /\ Traced /\ ToldTrue
      /\ PendingOnlyIfReplaced /\ pending \in [Node -> [Cmd -> Cmd \cup {None}]]
      /\ have \in [Node -> Nat] /\ DOMAIN table = Node
  BY DEF ServiceInv, TypeOK
<1>2. /\ leader # None /\ n # leader /\ leader' = leader /\ order' = order
      /\ UNCHANGED callVars /\ ApplyNew(n)
  BY DEF Replicate, Receive
<1>3. PICK len \in {have[n], have[n] + 1}, done \in applied[n] .. applied[leader] :
        /\ len <= Len(order) /\ done <= len
        /\ have' = [have EXCEPT ![n] = len]
        /\ applied' = [applied EXCEPT ![n] = done]
  BY DEF Replicate, Receive
<1>4. /\ leader \in Node /\ applied[n] \in Nat /\ applied[leader] \in Nat /\ Len(order) \in Nat
      /\ done \in Nat /\ applied[n] <= done /\ done <= Len(order) /\ len \in Nat
      /\ applied'[n] = done
  <2>1. leader \in Node /\ applied[n] \in Nat /\ applied[leader] \in Nat /\ Len(order) \in Nat
    BY <1>1, <1>2 DEF LogFits
  <2>2. len \in Nat
    BY <1>1, <1>3
  <2> QED
    BY <1>1, <1>3, <2>1, <2>2 DEF LogFits
<1>5. PICK s : s = Applying(n, applied[n], done)[done]
  OBVIOUS
<1>6. pending[n] \in [Cmd -> {None}] /\ TableInv(table[n])
  BY <1>1, <1>2 DEF Others, TablesFine
<1>7. s.future = future /\ s.pending = pending[n] /\ TableInv(s.table)
  <2>1. LogFits /\ Posted
    BY <1>1
  <2>2. applied[n] <= done /\ done <= Len(order) /\ done \in Nat
    BY <1>4
  <2> QED
    BY <1>5, <1>6, <2>1, <2>2, FollowerApplies
<1>8. /\ table' = [table EXCEPT ![n] = s.table]
      /\ pending' = [pending EXCEPT ![n] = s.pending]
      /\ future' = s.future
  BY <1>2, <1>4, <1>5 DEF ApplyNew, Becomes
<1>9. pending' = pending /\ future' = future
  BY <1>1, <1>7, <1>8
<1>10. BodiesStay /\ body' = body /\ phase' = phase /\ told' = told
  BY <1>2 DEF BodiesStay, callVars
<1>11. LogFits' /\ have' \in [Node -> Nat]
  BY <1>1, <1>2, <1>3, <1>4 DEF LogFits
<1>12. table'[n] = s.table /\ \A m \in Node : m # n => table'[m] = table[m]
  BY <1>1, <1>8
<1>13. TablesFine'
  BY <1>1, <1>7, <1>12 DEF TablesFine
<1>14. table' \in [Node -> Table]
  BY <1>1, <1>8, <1>13 DEF TablesFine, TableInv, WellTyped
<1>15. Others'
  BY <1>1, <1>2, <1>9 DEF Others
<1>16. applied'[leader] = applied[leader] /\ leader' = leader
  BY <1>1, <1>2, <1>3, <1>4 DEF LogFits
<1>17. Posted'
  <2>1. \A c \in Cmd :
          phase'[c] = "waiting" => c \in Submitted /\ Position(c) <= applied'[leader']
    BY <1>1, <1>10, <1>16 DEF Posted
  <2> QED
    BY <1>1, <1>2, <1>10, <2>1, PostedStays
<1>18. LeaderKept'
  <2>1. PICK u : u = Now(leader)
    OBVIOUS
  <2>2. PICK i : i = applied[leader]
    OBVIOUS
  <2>3. Kept(u, i)
    BY <1>1, <1>2, <2>1, <2>2 DEF LeaderKept
  <2>4. Kept(u, i)'
    BY <1>1, <1>2, <1>10, <2>3, KeptStays
  <2>5. u = Now(leader)' /\ i = applied'[leader']
    BY <1>2, <1>4, <1>9, <1>12, <1>16, <2>1, <2>2 DEF Now
  <2> QED
    BY <1>2, <2>4, <2>5 DEF LeaderKept
<1>19. Traced'
  <2>1. PICK h : TablesOf(h) /\ \A m \in Node : table[m] = h[applied[m]]
    BY <1>1 DEF Traced
  <2>2. s.table = h[done]
    BY <1>1, <1>4, <1>5, <2>1, TablesApply
  <2>3. \A m \in Node : table'[m] = h[applied'[m]]
    BY <1>1, <1>3, <1>4, <1>12, <2>1, <2>2 DEF LogFits
  <2>4. TablesOf(h)'
    BY <1>1, <1>2, <1>10, <2>1, TracedStays
  <2> QED
    BY <2>3, <2>4 DEF Traced
<1>20. ToldTrue' /\ PendingOnlyIfReplaced'
  <2>1. FuturesStay /\ ToldStep /\ Submitted' = Submitted
    BY <1>2, <1>9, <1>10 DEF FuturesStay, ToldStep, Submitted
  <2> QED
    BY <1>1, <1>10, <2>1, ToldKept
<1> QED
  BY <1>9, <1>11, <1>13, <1>14, <1>15, <1>17, <1>18, <1>19, <1>20

\* What Tell tells.
LEMMA TellTells ==
  ASSUME NEW c \in Cmd, NEW ans \in Ans, told \in [Cmd -> Ans], Tell(c, ans)
  PROVE  /\ told' \in [Cmd -> Ans]
         /\ \A d \in Cmd : d # c => told'[d] = told[d]
         /\ told'[c] \in {told[c], Answer("error", 0), ans}
PROOF
<1>1. Answer("error", 0) \in Ans
  BY DEF Answer, Ans, Kinds
<1> QED
  BY <1>1 DEF Tell

\* The leader applies everything and answers.
LEMMA SucceedAll ==
  ASSUME ServiceInv, NEW c \in Cmd, SubmitSucceeds(c)
  PROVE  /\ LogFits' /\ Posted' /\ Others' /\ LeaderKept' /\ TablesFine' /\ Traced'
         /\ ToldTrue' /\ PendingOnlyIfReplaced'
         /\ table' \in [Node -> Table]
         /\ pending' \in [Node -> [Cmd -> Cmd \cup {None}]]
         /\ future' \in [Cmd -> Ans] /\ told' \in [Cmd -> Ans]
PROOF
<1>1. /\ LogFits /\ Posted /\ Others /\ LeaderKept /\ TablesFine /\ Traced /\ ToldTrue
      /\ PendingOnlyIfReplaced /\ pending \in [Node -> [Cmd -> Cmd \cup {None}]]
      /\ DOMAIN table = Node /\ told \in [Cmd -> Ans] /\ DOMAIN phase = Cmd
  BY DEF ServiceInv, TypeOK, Ans
<1>2. /\ c \in Submitted /\ leader' = leader /\ order' = order
      /\ applied' = [applied EXCEPT ![leader] = Len(order)]
      /\ ApplyNew(leader) /\ body' = body
      /\ IF future'[c] # NoAnswer
           THEN Tell(c, future'[c]) /\ phase' = [phase EXCEPT ![c] = "done"]
           ELSE phase' = [phase EXCEPT ![c] = "waiting"] /\ UNCHANGED told
  BY DEF SubmitSucceeds, Succeed, Pending
<1>3. /\ leader \in Node /\ leader # None /\ applied[leader] \in Nat /\ Len(order) \in Nat
      /\ applied[leader] <= Len(order) /\ applied'[leader] = Len(order)
      /\ phase[c] # "new"
  <2>1. order # << >>
    BY <1>2 DEF Submitted
  <2>2. leader \in Node /\ leader # None
    BY <1>1, <2>1 DEF LogFits
  <2> QED
    BY <1>1, <1>2, <2>2 DEF LogFits, Posted
<1>4. PICK s : s = Applying(leader, applied[leader], Len(order))[Len(order)]
  OBVIOUS
<1>5. Kept(Now(leader), applied[leader])
  BY <1>1, <1>3 DEF LeaderKept
<1>6. /\ Kept(s, Len(order))
      /\ \A d \in Cmd : future[d] # NoAnswer => s.future[d] = future[d]
  BY <1>1, <1>3, <1>4, <1>5, LeaderApplies
<1>7. Typed(s)
  BY <1>6 DEF Kept
<1>8. /\ table' = [table EXCEPT ![leader] = s.table]
      /\ pending' = [pending EXCEPT ![leader] = s.pending]
      /\ future' = s.future
  BY <1>2, <1>3, <1>4 DEF ApplyNew, Becomes
<1>9. FuturesStay /\ future' \in [Cmd -> Result] /\ future' \in [Cmd -> Ans]
  <2>1. Result \subseteq Ans
    BY DEF Result, Ans, Kinds
  <2> QED
    BY <1>6, <1>7, <1>8, <2>1 DEF FuturesStay, Typed
<1>10. BodiesStay /\ \A d \in Cmd : phase'[d] = "new" <=> phase[d] = "new"
  BY <1>1, <1>2, <1>3 DEF BodiesStay
<1>11. LogFits'
  BY <1>1, <1>2, <1>3 DEF LogFits
<1>12. /\ table'[leader] = s.table /\ \A m \in Node : m # leader => table'[m] = table[m]
       /\ pending'[leader] = s.pending
       /\ \A m \in Node : m # leader => pending'[m] = pending[m]
  BY <1>1, <1>3, <1>8
<1>13. TablesFine'
  BY <1>1, <1>7, <1>12 DEF TablesFine, Typed
<1>14. table' \in [Node -> Table]
  BY <1>1, <1>8, <1>13 DEF TablesFine, TableInv, WellTyped
<1>15. pending' \in [Node -> [Cmd -> Cmd \cup {None}]]
  BY <1>1, <1>7, <1>8 DEF Typed
<1>16. Others'
  BY <1>1, <1>2, <1>12 DEF Others
<1>17. Posted'
  <2>1. ASSUME NEW d \in Cmd, phase'[d] = "waiting"
        PROVE  d \in Submitted /\ Position(d) <= applied'[leader']
    <3>1. d = c \/ phase[d] = "waiting"
      BY <1>1, <1>2, <2>1
    <3>2. d \in Submitted
      BY <1>1, <1>2, <3>1 DEF Posted
    <3>3. Position(d) \in 1 .. Len(order)
      BY <1>1, <3>2, PositionOf
    <3> QED
      BY <1>2, <1>3, <3>2, <3>3
  <2> QED
    BY <1>1, <1>2, <1>10, <2>1, PostedStays
<1>18. LeaderKept'
  <2>1. PICK i : i = Len(order)
    OBVIOUS
  <2>2. Kept(s, i)'
    BY <1>1, <1>2, <1>6, <1>10, <2>1, KeptStays
  <2>3. s = Now(leader)'
    <3>1. s = [table |-> s.table, pending |-> s.pending, future |-> s.future]
      <4>1. PICK u : u = Applying(leader, applied[leader], Len(order))
        OBVIOUS
      <4>2. /\ u[applied[leader]] = Now(leader)
            /\ \A k \in applied[leader] + 1 .. Len(order) : u[k] = ApplyCmd(u[k - 1], order[k])
        BY <1>3, <4>1, OneByOne
      <4>3. CASE applied[leader] = Len(order)
        BY <1>4, <4>1, <4>2, <4>3 DEF Now
      <4>4. CASE applied[leader] # Len(order)
        <5>1. Len(order) \in applied[leader] + 1 .. Len(order)
          BY <1>3, <4>4
        <5>2. s = ApplyCmd(u[Len(order) - 1], order[Len(order)])
          BY <1>4, <4>1, <4>2, <5>1
        <5> QED
          BY <5>2 DEF ApplyCmd
      <4> QED
        BY <4>3, <4>4
    <3> QED
      BY <1>2, <1>8, <1>12, <3>1 DEF Now
  <2> QED
    BY <1>2, <1>3, <2>1, <2>2, <2>3 DEF LeaderKept
<1>19. Traced'
  <2>1. PICK h : TablesOf(h) /\ \A m \in Node : table[m] = h[applied[m]]
    BY <1>1 DEF Traced
  <2>2. s.table = h[Len(order)]
    BY <1>1, <1>3, <1>4, <2>1, TablesApply
  <2>3. \A m \in Node : table'[m] = h[applied'[m]]
    BY <1>1, <1>2, <1>3, <1>12, <2>1, <2>2 DEF LogFits
  <2>4. TablesOf(h)'
    BY <1>1, <1>2, <1>10, <2>1, TracedStays
  <2> QED
    BY <2>3, <2>4 DEF Traced
<1>20. told' \in [Cmd -> Ans] /\ ToldStep
  <2>1. CASE future'[c] # NoAnswer
    <3>1. Tell(c, future'[c]) /\ future'[c] \in Ans
      BY <1>2, <1>9, <2>1
    <3>2. PICK a \in Ans : a = future'[c]
      BY <3>1
    <3>3. /\ told' \in [Cmd -> Ans]
          /\ \A d \in Cmd : d # c => told'[d] = told[d]
          /\ told'[c] \in {told[c], Answer("error", 0), a}
      BY <1>1, <3>1, <3>2, TellTells
    <3>4. a.kind # "pending"
      BY <1>9, <3>2 DEF Result
    <3>5. Answer("error", 0).kind = "error"
      BY DEF Answer
    <3> QED
      BY <1>3, <3>2, <3>3, <3>4, <3>5 DEF ToldStep
  <2>2. CASE future'[c] = NoAnswer
    BY <1>1, <1>2, <2>2 DEF ToldStep
  <2> QED
    BY <2>1, <2>2
<1>21. ToldTrue' /\ PendingOnlyIfReplaced'
  <2>1. Submitted' = Submitted
    BY <1>2 DEF Submitted
  <2> QED
    BY <1>1, <1>9, <1>10, <1>20, <2>1, ToldKept
<1> QED
  BY <1>9, <1>11, <1>13, <1>14, <1>15, <1>16, <1>17, <1>18, <1>19, <1>20, <1>21

-----------------------------------------------------------------------------
(***************************************************************************)
(* The actions.                                                            *)
(***************************************************************************)

\* A node that becomes the leader has nothing to its name.
LEMMA ElectedInv ==
  ASSUME ServiceInv, NEW n \in Node, Elected(n)
  PROVE  ServiceInv'
PROOF
<1>1. /\ TypeOK /\ LogFits /\ Posted /\ Others /\ LeaderKept /\ TablesFine /\ Traced
      /\ ToldTrue /\ PendingOnlyIfReplaced
  BY DEF ServiceInv
<1>2. /\ leader = None /\ leader' = n
      /\ UNCHANGED <<order, have, applied, result, table, pending, future>>
      /\ UNCHANGED callVars
  BY DEF Elected, Elect
<1>3. UNCHANGED <<body, phase, asking, relayed, told, timeouts>>
  BY <1>2 DEF callVars
<1>4. order = << >> /\ Submitted = {} /\ Submitted' = {}
  BY <1>1, <1>2 DEF LogFits, Submitted
<1>5. TypeOK'
  BY <1>1, <1>2, <1>3 DEF TypeOK
<1>6. LogFits' /\ BodiesStay /\ FuturesStay /\ ToldStep
  BY <1>1, <1>2, <1>3, <1>4 DEF LogFits, BodiesStay, FuturesStay, ToldStep
<1>7. Posted'
  <2>1. \A c \in Cmd : phase[c] # "waiting"
    BY <1>1, <1>4 DEF Posted
  <2>2. \A c \in Cmd : phase[c] # "new" => body[c] \in Body /\ body[c].id \in Cmd
    BY <1>1, BodyFields DEF Posted
  <2> QED
    BY <1>1, <1>3, <1>4, <2>1, <2>2 DEF Posted
<1>8. \A m \in Node : pending[m] \in [Cmd -> {None}]
  BY <1>1, <1>2, NoneLeadsNot DEF Others
<1>9. Others'
  BY <1>2, <1>8 DEF Others
<1>10. Traced' /\ table[n] = EmptyTable /\ applied[n] = 0
  <2>1. PICK h : TablesOf(h) /\ \A m \in Node : table[m] = h[applied[m]]
    BY <1>1 DEF Traced
  <2>2. TablesOf(h)'
    BY <1>1, <1>2, <1>6, <2>1, TracedStays
  <2>3. applied[n] = 0
    BY <1>1, <1>4 DEF LogFits
  <2>4. h[0] = EmptyTable
    BY <2>1 DEF TablesOf
  <2> QED
    BY <1>2, <2>1, <2>2, <2>3, <2>4 DEF Traced
<1>11. LeaderKept'
  <2>1. PICK u : u = Now(n)
    OBVIOUS
  <2>2. /\ u.table = EmptyTable /\ u.pending \in [Cmd -> {None}]
        /\ u.future = future /\ future \in [Cmd -> [kind : Kinds, token : Nat]]
    BY <1>1, <1>8, <1>10, <2>1 DEF Now, TypeOK
  <2>3. \A c \in Cmd : u.future[c] = NoAnswer
    BY <1>1, <1>2, <2>2 DEF LeaderKept
  <2>4. NoAnswer.kind = "none" /\ NoAnswer \in Result
    BY DEF NoAnswer, Answer, Result
  <2>5. Typed(u)
    <3>1. u.future \in [Cmd -> Result]
      BY <2>2, <2>3, <2>4
    <3>2. u.pending \in [Cmd -> Cmd \cup {None}]
      BY <2>2
    <3> QED
      BY <2>2, <3>1, <3>2, EmptyFine DEF Typed
  <2>6. Registered(u, 0) /\ Answered(u)
    BY <2>2, <2>3 DEF Registered, Answered
  <2>7. GrantTrue(u)
    BY <2>3, <2>4 DEF GrantTrue
  <2>8. NoStray(u, 0) /\ NotLost(u)
    BY <1>4 DEF NoStray, NotLost
  <2>9. HoldersAsked(u)
    <3>1. \A r \in Resource : u.table.holders[r] = {} /\ u.table.queue[r] = << >>
      BY <2>2 DEF EmptyTable
    <3> QED
      BY <3>1 DEF HoldersAsked
  <2>10. Kept(u, 0)
    BY <2>5, <2>6, <2>7, <2>8, <2>9 DEF Kept
  <2>11. Kept(u, 0)'
    BY <1>1, <1>2, <1>6, <2>10, KeptStays
  <2>12. u = Now(leader)' /\ applied'[leader'] = 0 /\ leader' # None
    BY <1>2, <1>10, <2>1, NoneLeadsNot DEF Now
  <2> QED
    BY <2>11, <2>12 DEF LeaderKept
<1>12. TablesFine'
  BY <1>1, <1>2 DEF TablesFine
<1>13. ToldTrue' /\ PendingOnlyIfReplaced'
  BY <1>1, <1>4, <1>6, ToldKept
<1> QED
  BY <1>5, <1>6, <1>7, <1>9, <1>10, <1>11, <1>12, <1>13 DEF ServiceInv

\* A node that does not lead takes entries.
LEMMA ReplicateInv ==
  ASSUME ServiceInv, NEW n \in Node, Replicate(n)
  PROVE  ServiceInv'
PROOF
<1>1. /\ LogFits' /\ Posted' /\ Others' /\ LeaderKept' /\ TablesFine' /\ Traced'
      /\ ToldTrue' /\ PendingOnlyIfReplaced'
      /\ have' \in [Node -> Nat] /\ table' \in [Node -> Table]
      /\ pending' = pending /\ future' = future
  BY ReplicateAll
<1>2. UNCHANGED <<leader, order, result, body, phase, asking, relayed, told, timeouts>>
  BY DEF Replicate, Receive, callVars
<1>3. applied' \in [Node -> Nat] /\ \A m \in Node : WellTyped(table'[m])
  BY <1>1 DEF LogFits, TablesFine, TableInv
<1>4. TypeOK'
  BY <1>1, <1>2, <1>3 DEF ServiceInv, TypeOK
<1> QED
  BY <1>1, <1>4 DEF ServiceInv

\* The leader's submit succeeds.
LEMMA SucceedsInv ==
  ASSUME ServiceInv, NEW c \in Cmd, SubmitSucceeds(c)
  PROVE  ServiceInv'
PROOF
<1>1. /\ LogFits' /\ Posted' /\ Others' /\ LeaderKept' /\ TablesFine' /\ Traced'
      /\ ToldTrue' /\ PendingOnlyIfReplaced'
      /\ table' \in [Node -> Table]
      /\ pending' \in [Node -> [Cmd -> Cmd \cup {None}]]
      /\ future' \in [Cmd -> Ans] /\ told' \in [Cmd -> Ans]
  BY SucceedAll
<1>2. UNCHANGED <<leader, order, have, body, asking, relayed, timeouts>>
      /\ result' = [result EXCEPT ![c] = "ok"]
  BY DEF SubmitSucceeds, Succeed
<1>3. phase' = [phase EXCEPT ![c] = "done"] \/ phase' = [phase EXCEPT ![c] = "waiting"]
  BY DEF SubmitSucceeds
<1>4. applied' \in [Node -> Nat] /\ \A m \in Node : WellTyped(table'[m])
  BY <1>1 DEF LogFits, TablesFine, TableInv
<1>5. TypeOK'
  BY <1>1, <1>2, <1>3, <1>4 DEF ServiceInv, TypeOK, Ans
<1> QED
  BY <1>1, <1>5 DEF ServiceInv

\* A handler at the leader starts.
LEMMA PostsInv ==
  ASSUME ServiceInv, NEW c \in Cmd, NEW b, Posts(c, b),
         have' = [have EXCEPT ![leader] = Len(order) + 1],
         UNCHANGED <<result, asking, relayed, timeouts>>
  PROVE  ServiceInv'
PROOF
<1>1. /\ LogFits' /\ Posted' /\ Others' /\ LeaderKept' /\ TablesFine' /\ Traced'
      /\ ToldTrue' /\ PendingOnlyIfReplaced'
  BY PostsAll
<1>2. /\ table' = table /\ future' = future /\ told' = told /\ leader' = leader
      /\ applied' = applied /\ leader \in Node /\ b \in Body /\ b.id \in Cmd
      /\ body' = [body EXCEPT ![c] = b]
      /\ phase' = [phase EXCEPT ![c] = "submitting"]
      /\ pending' = [pending EXCEPT ![leader][b.id] = c]
  BY BodyFields DEF Posts
<1>3. order' \in Seq(Cmd) /\ Len(order) \in Nat
  BY <1>1 DEF LogFits, ServiceInv
<1>4. have' \in [Node -> Nat]
  <2>1. have \in [Node -> Nat] /\ Len(order) + 1 \in Nat
    BY <1>3 DEF ServiceInv, TypeOK
  <2> QED
    BY <2>1
<1>5. pending' \in [Node -> [Cmd -> Cmd \cup {None}]]
  BY <1>2 DEF ServiceInv, TypeOK
<1>6. body' \in [Cmd -> Body \cup {None}]
  BY <1>2 DEF ServiceInv, TypeOK
<1>7. TypeOK'
  BY <1>2, <1>3, <1>4, <1>5, <1>6 DEF ServiceInv, TypeOK
<1> QED
  BY <1>1, <1>7 DEF ServiceInv

\* A client posts at the leader.
LEMMA CallLeaderInv ==
  ASSUME ServiceInv, NEW c \in Cmd, NEW b \in Bodies(c), CallLeader(c, b)
  PROVE  ServiceInv'
PROOF
<1>1. TypeOK /\ Posted /\ LogFits
  BY DEF ServiceInv
<1>2. b \in Body
  BY <1>1, BodiesTyped
<1>3. leader \in Node
  BY <1>1 DEF CallLeader, Accept, Submit, LogFits
<1>4. Posts(c, b)
  BY <1>2, <1>3 DEF CallLeader, Accept, Submit, Posts
<1> QED
  BY <1>4, PostsInv DEF CallLeader, Accept, Submit

\* A forwarded call arrives at the leader.
LEMMA ForwardArrivesInv ==
  ASSUME ServiceInv, NEW c \in Cmd, ForwardArrives(c)
  PROVE  ServiceInv'
PROOF
<1>1. TypeOK /\ Posted /\ LogFits
  BY DEF ServiceInv
<1>2. phase[c] = "forwarding"
  BY DEF ForwardArrives
<1>3. PICK b : b = body[c]
  OBVIOUS
<1>4. b \in Body
  BY <1>1, <1>2, <1>3 DEF Posted
<1>5. leader \in Node
  BY <1>1 DEF ForwardArrives, Accept, Submit, LogFits
<1>6. body' = [body EXCEPT ![c] = b]
  BY <1>1, <1>3 DEF ForwardArrives, Posted
<1>7. Posts(c, b)
  BY <1>2, <1>3, <1>4, <1>5, <1>6 DEF ForwardArrives, Accept, Submit, Posts
<1> QED
  BY <1>7, PostsInv DEF ForwardArrives, Accept, Submit

-----------------------------------------------------------------------------

\* Steps of a handler that concern nobody but its client.
LEMMA QuietInv ==
  ASSUME ServiceInv, UNCHANGED <<leader, order, applied, table, pending, future>>,
         BodiesStay, TypeOK', Posted', ToldStep
  PROVE  ServiceInv'
PROOF
<1>1. LogFits' /\ Others' /\ LeaderKept' /\ TablesFine' /\ Traced' /\ FuturesStay
  BY QuietKept DEF ServiceInv
<1>2. Submitted' = Submitted
  BY DEF Submitted
<1>3. ToldTrue' /\ PendingOnlyIfReplaced'
  BY <1>1, <1>2, ToldKept DEF ServiceInv
<1> QED
  BY <1>1, <1>3 DEF ServiceInv

\* A call moves on: its body stays, and it waits for what is applied only.
LEMMA MovesInv ==
  ASSUME ServiceInv, UNCHANGED <<leader, order, applied, table, pending, future, body>>,
         NEW c \in Cmd, phase[c] # "new",
         NEW p, p \notin {"new", "waiting"},
         phase' = phase \/ phase' = [phase EXCEPT ![c] = p],
         TypeOK', ToldStep
  PROVE  ServiceInv'
PROOF
<1>1. DOMAIN phase = Cmd /\ LogFits /\ Posted
  BY DEF ServiceInv, TypeOK
<1>2. /\ \A d \in Cmd : phase'[d] = "new" <=> phase[d] = "new"
      /\ \A d \in Cmd : phase'[d] = "waiting" => phase[d] = "waiting"
  BY <1>1
<1>3. BodiesStay
  BY <1>2 DEF BodiesStay
<1>4. Posted'
  <2>1. \A d \in Cmd :
          phase'[d] = "waiting" => d \in Submitted /\ Position(d) <= applied'[leader']
    BY <1>1, <1>2 DEF Posted
  <2> QED
    BY <1>1, <1>2, <2>1, PostedStays
<1> QED
  BY <1>3, <1>4, QuietInv

\* An answer without a token in it.
LEMMA PlainAnswer ==
  ASSUME NEW kind \in {"no_leader", "error", "failed", "pending"}
  PROVE  Answer(kind, 0) \in Ans /\ Answer(kind, 0).kind = kind
BY DEF Answer, Ans, Kinds

\* A client posts at a node that does not lead.
LEMMA CallOtherInv ==
  ASSUME ServiceInv, NEW c \in Cmd, NEW b \in Bodies(c), CallOther(c, b)
  PROVE  ServiceInv'
PROOF
<1>1. TypeOK /\ LogFits /\ Posted
  BY DEF ServiceInv
<1>2. /\ phase[c] = "new"
      /\ body' = [body EXCEPT ![c] = b] /\ phase' = [phase EXCEPT ![c] = "finding"]
      /\ asking' = [asking EXCEPT ![c] = 1]
      /\ UNCHANGED <<leader, order, have, applied, result>>
      /\ UNCHANGED <<table, pending, future, relayed, told, timeouts>>
  BY DEF CallOther, logState
<1>3. b \in Body
  BY <1>1, BodiesTyped
<1>4. BodiesStay
  BY <1>1, <1>2 DEF BodiesStay, TypeOK
<1>5. 1 \in 0 .. Len(Cluster)
  <2>1. Cluster \in Seq(Node) /\ Cluster # << >>
    BY ClusterIsTheNodes
  <2> QED
    BY <2>1
<1>6. TypeOK'
  <2>1. asking' \in [Cmd -> 0 .. Len(Cluster)]
    BY <1>1, <1>2, <1>5 DEF TypeOK
  <2>2. body' \in [Cmd -> Body \cup {None}]
    BY <1>1, <1>2, <1>3 DEF TypeOK
  <2> QED
    BY <1>1, <1>2, <2>1, <2>2 DEF TypeOK
<1>7. Submitted' = Submitted /\ \A d : Position(d)' = Position(d)
  BY <1>2 DEF Submitted, Position
<1>8. Posted'
  <2>1. body' \in [Cmd -> Body \cup {None}] /\ body'[c] = b /\ phase'[c] = "finding"
        /\ c \notin Submitted
    BY <1>1, <1>2, <1>3 DEF Posted, TypeOK
  <2>2. \A d \in Cmd : d # c => phase'[d] = phase[d] /\ body'[d] = body[d]
    BY <1>1, <1>2 DEF TypeOK
  <2>3. ASSUME NEW d \in Cmd, phase'[d] # "new"
        PROVE  body'[d] \in Body
    <3>1. CASE d = c
      BY <1>3, <2>1, <3>1
    <3>2. CASE d # c
      <4>1. phase[d] # "new" /\ body'[d] = body[d]
        BY <2>2, <2>3, <3>2
      <4> QED
        BY <1>1, <4>1 DEF Posted
    <3> QED
      BY <3>1, <3>2
  <2>4. ASSUME NEW d \in Cmd, phase'[d] = "waiting"
        PROVE  d \in Submitted' /\ Position(d)' <= applied'[leader']
    <3>1. d # c /\ phase[d] = "waiting"
      BY <2>1, <2>2, <2>4
    <3> QED
      BY <1>1, <1>2, <1>7, <3>1 DEF Posted
  <2>5. \A d \in Cmd : phase'[d] = "new" => d \notin Submitted'
    BY <1>1, <1>7, <2>1, <2>2 DEF Posted
  <2> QED
    BY <2>1, <2>3, <2>4, <2>5 DEF Posted
<1>9. ToldStep
  BY <1>2 DEF ToldStep
<1> QED
  BY <1>2, <1>4, <1>6, <1>8, <1>9, QuietInv

\* The next node is asked for its role, or there is none left.
LEMMA AskNextInv ==
  ASSUME ServiceInv, NEW c \in Cmd, phase[c] = "finding", AskNext(c),
         timeouts' \in 0 .. MaxTimeouts
  PROVE  ServiceInv'
PROOF
<1>1. TypeOK /\ Len(Cluster) \in Nat
  BY ClusterIsTheNodes DEF ServiceInv
<1>2. /\ UNCHANGED <<leader, order, have, applied, result>>
      /\ UNCHANGED <<table, pending, future, body, relayed>>
  BY DEF AskNext, logState
<1>3. Answer("no_leader", 0) \in Ans /\ Answer("no_leader", 0).kind = "no_leader"
  BY PlainAnswer
<1>4. CASE asking[c] < Len(Cluster)
  <2>1. asking' = [asking EXCEPT ![c] = @ + 1] /\ phase' = phase /\ told' = told
    BY <1>4 DEF AskNext
  <2>2. asking[c] + 1 \in 0 .. Len(Cluster) /\ asking \in [Cmd -> 0 .. Len(Cluster)]
    BY <1>1, <1>4 DEF TypeOK
  <2>3. asking' \in [Cmd -> 0 .. Len(Cluster)]
    BY <2>1, <2>2
  <2>4. TypeOK'
    BY <1>1, <1>2, <2>1, <2>3 DEF TypeOK
  <2>5. ToldStep
    BY <2>1 DEF ToldStep
  <2> QED
    BY <1>2, <2>1, <2>4, <2>5, MovesInv
<1>5. CASE ~(asking[c] < Len(Cluster))
  <2>1. /\ phase' = [phase EXCEPT ![c] = "done"]
        /\ told' = [told EXCEPT ![c] = Answer("no_leader", 0)] /\ asking' = asking
    BY <1>5 DEF AskNext
  <2>2. told \in [Cmd -> Ans] /\ told' \in [Cmd -> Ans]
    BY <1>1, <1>3, <2>1 DEF TypeOK, Ans
  <2>3. TypeOK'
    BY <1>1, <1>2, <2>1, <2>2 DEF TypeOK, Ans
  <2>4. ToldStep
    BY <1>3, <2>1, <2>2 DEF ToldStep
  <2> QED
    BY <1>2, <2>1, <2>3, <2>4, MovesInv
<1> QED
  BY <1>4, <1>5

\* A node answers whether it leads.
LEMMA AskReturnsInv ==
  ASSUME ServiceInv, NEW c \in Cmd, AskReturns(c)
  PROVE  ServiceInv'
PROOF
<1>1. TypeOK /\ phase[c] = "finding" /\ timeouts' = timeouts
  BY DEF ServiceInv, AskReturns
<1>2. CASE Cluster[asking[c]] = leader
  <2>1. /\ phase' = [phase EXCEPT ![c] = "forwarding"]
        /\ relayed' = [relayed EXCEPT ![c] = TRUE]
        /\ UNCHANGED <<leader, order, have, applied, result>>
        /\ UNCHANGED <<table, pending, future, body, asking, told>>
    BY <1>2 DEF AskReturns, logState
  <2>2. TypeOK'
    BY <1>1, <2>1 DEF TypeOK
  <2>3. ToldStep
    BY <2>1 DEF ToldStep
  <2> QED
    BY <1>1, <2>1, <2>2, <2>3, MovesInv
<1>3. CASE Cluster[asking[c]] # leader
  <2>1. AskNext(c)
    BY <1>3 DEF AskReturns
  <2>2. timeouts' \in 0 .. MaxTimeouts
    BY <1>1 DEF TypeOK
  <2> QED
    BY <1>1, <2>1, <2>2, AskNextInv
<1> QED
  BY <1>2, <1>3

\* A node does not answer in time.
LEMMA AskTimesOutInv ==
  ASSUME ServiceInv, NEW c \in Cmd, AskTimesOut(c)
  PROVE  ServiceInv'
PROOF
<1>1. phase[c] = "finding" /\ AskNext(c) /\ timeouts < MaxTimeouts /\ timeouts' = timeouts + 1
  BY DEF AskTimesOut
<1>2. timeouts' \in 0 .. MaxTimeouts
  BY <1>1, MaxTimeoutsIsNat DEF ServiceInv, TypeOK
<1> QED
  BY <1>1, <1>2, AskNextInv

\* The node that forwarded a call gives up.
LEMMA ForwardTimesOutInv ==
  ASSUME ServiceInv, NEW c \in Cmd, ForwardTimesOut(c)
  PROVE  ServiceInv'
PROOF
<1>1. /\ phase[c] # "new" /\ timeouts < MaxTimeouts /\ timeouts' = timeouts + 1
      /\ told' = [told EXCEPT ![c] = Answer("error", 0)]
      /\ UNCHANGED <<leader, order, have, applied, result>>
      /\ UNCHANGED <<table, pending, future, body, phase, asking, relayed>>
  BY DEF ForwardTimesOut, logState
<1>2. TypeOK /\ told \in [Cmd -> Ans]
  BY DEF ServiceInv, TypeOK, Ans
<1>3. Answer("error", 0) \in Ans /\ Answer("error", 0).kind = "error"
  BY PlainAnswer
<1>4. told' \in [Cmd -> Ans]
  BY <1>1, <1>2, <1>3
<1>5. timeouts' \in 0 .. MaxTimeouts
  BY <1>1, <1>2, MaxTimeoutsIsNat DEF TypeOK
<1>6. TypeOK'
  BY <1>1, <1>2, <1>4, <1>5 DEF TypeOK, Ans
<1>7. ToldStep
  BY <1>1, <1>2, <1>3 DEF ToldStep
<1> QED
  BY <1>1, <1>6, <1>7, MovesInv

\* The leader's submit fails.
LEMMA SubmitFailsInv ==
  ASSUME ServiceInv, NEW c \in Cmd, SubmitFails(c)
  PROVE  ServiceInv'
PROOF
<1>1. /\ c \in Submitted /\ Tell(c, Answer("failed", 0))
      /\ phase' = [phase EXCEPT ![c] = "done"]
      /\ result' = [result EXCEPT ![c] = "failed"]
      /\ UNCHANGED <<leader, order, have, applied>>
      /\ UNCHANGED <<table, pending, future, body, asking, relayed, timeouts>>
  BY DEF SubmitFails, Fail, Pending
<1>2. TypeOK /\ told \in [Cmd -> Ans] /\ phase[c] # "new"
  BY <1>1 DEF ServiceInv, TypeOK, Ans, Posted
<1>3. /\ Answer("failed", 0) \in Ans /\ Answer("failed", 0).kind = "failed"
      /\ Answer("error", 0).kind = "error"
  BY PlainAnswer
<1>4. PICK a \in Ans : a = Answer("failed", 0)
  BY <1>3
<1>5. /\ told' \in [Cmd -> Ans]
      /\ \A d \in Cmd : d # c => told'[d] = told[d]
      /\ told'[c] \in {told[c], Answer("error", 0), a}
  BY <1>1, <1>2, <1>4, TellTells
<1>6. TypeOK'
  BY <1>1, <1>2, <1>5 DEF TypeOK, Ans
<1>7. ToldStep
  BY <1>2, <1>3, <1>4, <1>5 DEF ToldStep
<1> QED
  BY <1>1, <1>2, <1>6, <1>7, MovesInv

\* wait_for ends: nothing in the future of a command that is applied means that
\* another call took its req_id (lock_service.py:137-140, 176-179).
LEMMA WaitEndsInv ==
  ASSUME ServiceInv, NEW c \in Cmd, WaitEnds(c)
  PROVE  ServiceInv'
PROOF
<1>1. /\ phase[c] = "waiting"
      /\ Tell(c, IF future[c] # NoAnswer THEN future[c] ELSE Answer("pending", 0))
      /\ phase' = [phase EXCEPT ![c] = "done"]
      /\ UNCHANGED <<leader, order, have, applied, result>>
      /\ UNCHANGED <<table, pending, future, body, asking, relayed, timeouts>>
  BY DEF WaitEnds, logState
<1>2. /\ TypeOK /\ told \in [Cmd -> Ans] /\ LogFits /\ Posted /\ LeaderKept
      /\ future[c] \in Ans
  BY DEF ServiceInv, TypeOK, Ans
<1>3. c \in Submitted /\ Position(c) <= applied[leader]
  BY <1>1, <1>2 DEF Posted
<1>4. leader \in Node /\ leader # None
  <2>1. order # << >>
    BY <1>3 DEF Submitted
  <2> QED
    BY <1>2, <2>1 DEF LogFits
<1>5. Kept(Now(leader), applied[leader])
  BY <1>2, <1>4 DEF LeaderKept
<1>6. future[c] = NoAnswer => Shared(c)
  <2>1. \/ future[c] # NoAnswer \/ Shared(c)
        \/ pending[leader][body[c].id] = c
    BY <1>3, <1>5 DEF Kept, NotLost, Now
  <2>2. ASSUME pending[leader][body[c].id] = c PROVE FALSE
    <3>1. body[c].id \in Cmd /\ c # None
      <4>1. body[c] \in Body
        BY <1>1, <1>2 DEF Posted
      <4> QED
        BY <4>1, BodyFields, NoneIsNoCall
    <3>2. Position(c) > applied[leader]
      BY <1>5, <2>2, <3>1 DEF Kept, Registered, Now
    <3>3. Position(c) \in Nat /\ applied[leader] \in Nat
      <4>1. Position(c) \in 1 .. Len(order)
        BY <1>2, <1>3, PositionOf
      <4> QED
        BY <1>2, <1>4, <4>1 DEF LogFits
    <3> QED
      BY <1>3, <3>2, <3>3
  <2> QED
    BY <2>1, <2>2
<1>7. PICK a \in Ans : a = IF future[c] # NoAnswer THEN future[c] ELSE Answer("pending", 0)
  BY <1>2, PlainAnswer
<1>8. /\ told' \in [Cmd -> Ans]
      /\ \A d \in Cmd : d # c => told'[d] = told[d]
      /\ told'[c] \in {told[c], Answer("error", 0), a}
  BY <1>1, <1>2, <1>7, TellTells
<1>9. TypeOK'
  BY <1>1, <1>2, <1>8 DEF TypeOK, Ans
<1>10. a.kind = "granted" => a = future[c]
  BY <1>7, PlainAnswer
<1>11. a.kind = "pending" => Shared(c)
  <2>1. CASE future[c] = NoAnswer
    BY <1>6, <2>1
  <2>2. CASE future[c] # NoAnswer
    <3>1. Now(leader).future \in [Cmd -> Result]
      BY <1>5 DEF Kept, Typed
    <3>2. future[c] \in Result
      BY <3>1 DEF Now
    <3> QED
      BY <1>7, <2>2, <3>2 DEF Result
  <2> QED
    BY <2>1, <2>2
<1>12. ToldStep
  <2>1. Answer("error", 0).kind = "error"
    BY PlainAnswer
  <2> QED
    BY <1>1, <1>8, <1>10, <1>11, <2>1 DEF ToldStep
<1> QED
  BY <1>1, <1>9, <1>12, MovesInv

\* Nothing happens.
LEMMA StutterInv ==
  ASSUME ServiceInv, UNCHANGED vars
  PROVE  ServiceInv'
PROOF
<1>1. /\ UNCHANGED <<leader, order, have, applied, result, table, pending, future>>
      /\ UNCHANGED <<body, phase, asking, relayed, told, timeouts>>
  BY DEF vars, logState, callVars
<1>2. TypeOK /\ LogFits /\ Posted
  BY DEF ServiceInv
<1>3. TypeOK'
  BY <1>1, <1>2 DEF TypeOK
<1>4. BodiesStay /\ ToldStep
  BY <1>1 DEF BodiesStay, ToldStep
<1>5. Posted'
  BY <1>1, <1>2 DEF Posted, Submitted, Position
<1> QED
  BY <1>1, <1>3, <1>4, <1>5, QuietInv

\* Every step of the service keeps the invariant.
LEMMA ServiceNext == ServiceInv /\ [Next]_vars => ServiceInv'
PROOF
<1> SUFFICES ASSUME ServiceInv, [Next]_vars PROVE ServiceInv'
  OBVIOUS
<1>1. ASSUME NEW n \in Node, Elected(n) PROVE ServiceInv'
  BY <1>1, ElectedInv
<1>2. ASSUME NEW n \in Node, Replicate(n) PROVE ServiceInv'
  BY <1>2, ReplicateInv
<1>3. ASSUME NEW c \in Cmd, NEW b \in Bodies(c), CallLeader(c, b) PROVE ServiceInv'
  BY <1>3, CallLeaderInv
<1>4. ASSUME NEW c \in Cmd, NEW b \in Bodies(c), CallOther(c, b) PROVE ServiceInv'
  BY <1>4, CallOtherInv
<1>5. ASSUME NEW c \in Cmd, AskReturns(c) PROVE ServiceInv'
  BY <1>5, AskReturnsInv
<1>6. ASSUME NEW c \in Cmd, AskTimesOut(c) PROVE ServiceInv'
  BY <1>6, AskTimesOutInv
<1>7. ASSUME NEW c \in Cmd, ForwardArrives(c) PROVE ServiceInv'
  BY <1>7, ForwardArrivesInv
<1>8. ASSUME NEW c \in Cmd, ForwardTimesOut(c) PROVE ServiceInv'
  BY <1>8, ForwardTimesOutInv
<1>9. ASSUME NEW c \in Cmd, SubmitSucceeds(c) PROVE ServiceInv'
  BY <1>9, SucceedsInv
<1>10. ASSUME NEW c \in Cmd, SubmitFails(c) PROVE ServiceInv'
  BY <1>10, SubmitFailsInv
<1>11. ASSUME NEW c \in Cmd, WaitEnds(c) PROVE ServiceInv'
  BY <1>11, WaitEndsInv
<1>12. CASE UNCHANGED vars
  BY <1>12, StutterInv
<1> QED
  BY <1>1, <1>2, <1>3, <1>4, <1>5, <1>6, <1>7, <1>8, <1>9, <1>10, <1>11, <1>12 DEF Next

\* The inductive invariant holds in every behaviour.
THEOREM ServiceInvariant == Spec => []ServiceInv
PROOF
<1>1. ServiceInv /\ [Next]_vars => ServiceInv'
  BY ServiceNext
<1> QED
  BY ServiceInit, <1>1, PTL DEF Spec

-----------------------------------------------------------------------------
(***************************************************************************)
(* What the service promises.                                              *)
(***************************************************************************)

\* The types of the handlers' state and of the replicated state machine.
THEOREM ServiceTypeOK == Spec => []TypeOK
PROOF
<1>1. ServiceInv => TypeOK
  BY DEF ServiceInv
<1> QED
  BY ServiceInvariant, <1>1, PTL

\* Nodes that applied equally many commands have the same table, however the
\* commands came to them (raft.py:145-148, lock_service.py:128-135).
THEOREM NodesAgree == Spec => []TablesAgree
PROOF
<1>1. ServiceInv => TablesAgree
  <2> SUFFICES ASSUME ServiceInv,
                      NEW m \in Node, NEW n \in Node, applied[m] = applied[n]
               PROVE  table[m] = table[n]
    BY DEF TablesAgree
  <2>1. PICK h : \A x \in Node : table[x] = h[applied[x]]
    BY DEF ServiceInv, Traced
  <2> QED
    BY <2>1
<1> QED
  BY ServiceInvariant, <1>1, PTL

\* What is in the log was posted.
LEMMA LogBodies ==
  ASSUME LogFits, Posted, NEW i \in 1 .. Len(order)
  PROVE  body[order[i]] \in Body
PROOF
<1>1. order[i] \in Cmd /\ order[i] \in Submitted
  BY DEF LogFits, Submitted
<1> QED
  BY <1>1 DEF Posted

\* The tables that the commands of the log lead to.
LEMMA TracedFine ==
  ASSUME LogFits, Posted, NEW h, TablesOf(h)
  PROVE  \A i \in 0 .. Len(order) : TableInv(h[i])
PROOF
<1> DEFINE last == Len(order)
           T == {i \in 0 .. last : TableInv(h[i])}
<1>1. last \in Nat /\ 0 \in Nat
  BY DEF LogFits
<1>2. 0 \in T
  BY <1>1, EmptyFine DEF TablesOf
<1>3. ASSUME NEW i \in 0 .. last, i + 1 <= last, i \in T
      PROVE  i + 1 \in T
  <2>1. i + 1 \in 1 .. last /\ i + 1 \in 0 .. last /\ (i + 1) - 1 = i
    BY <1>1, <1>3
  <2>2. body[order[i + 1]] \in Body
    BY <2>1, LogBodies
  <2>3. TableInv(TableAfter(h[i], body[order[i + 1]]))
    BY <1>3, <2>2, AfterPreserves
  <2>4. h[i + 1] = TableAfter(h[i], body[order[i + 1]])
    BY <2>1 DEF TablesOf
  <2> QED
    BY <2>1, <2>3, <2>4
<1> HIDE DEF T
<1>4. \A i \in 0 .. last : i \in T
  BY <1>1, <1>2, <1>3, UpTo
<1> QED
  BY <1>4 DEF T

\* A command is a step of a readers-writer lock, or changes no lock.
LEMMA AfterIsLockStep ==
  ASSUME NEW t, TableInv(t), NEW b \in Body
  PROVE  LockStep(t, TableAfter(t, b))
PROOF
<1>1. CASE b.op = "acquire"
  <2>1. TableAfter(t, b) = Acquire(t, b.client, b.res, b.mode)
    BY <1>1 DEF TableAfter
  <2> QED
    BY <1>1, <2>1, AcquireEffect, BodyFields DEF LockStep
<1>2. CASE b.op = "release"
  <2>1. TableAfter(t, b) = Release(t, b.res, b.token)
    BY <1>2 DEF TableAfter
  <2> QED
    BY <1>2, <2>1, ReleaseEffect, BodyFields DEF LockStep
<1>3. CASE b.op = "check"
  BY <1>3 DEF TableAfter, LockStep, SameLocks
<1> QED
  BY <1>1, <1>2, <1>3, BodyFields

\* The commands of the log, one after the other, take a readers-writer lock
\* from table to table, and every node is at one of these tables.
OneLock ==
  \E h :
    /\ TablesOf(h)
    /\ \A i \in 1 .. Len(order) : LockStep(h[i - 1], h[i])
    /\ \A n \in Node : applied[n] \in 0 .. Len(order) /\ table[n] = h[applied[n]]

\* The replicated service is one readers-writer lock, of which every node shows
\* a moment: what the handlers submit, however they were reached, retried or
\* lost, moves the lock as RWLock.tla allows, and no node's table is off that
\* line (raft.py:145-148, lock_service.py:37-94 behind 128-135).
THEOREM ServiceIsRWLock == Spec => []OneLock
PROOF
<1>1. ServiceInv => OneLock
  <2> SUFFICES ASSUME ServiceInv PROVE OneLock
    OBVIOUS
  <2>1. LogFits /\ Posted
    BY DEF ServiceInv
  <2>2. PICK h : TablesOf(h) /\ \A n \in Node : table[n] = h[applied[n]]
    BY DEF ServiceInv, Traced
  <2>3. ASSUME NEW i \in 1 .. Len(order)
        PROVE  LockStep(h[i - 1], h[i])
    <3>1. i - 1 \in 0 .. Len(order)
      BY <2>1 DEF LogFits
    <3>2. TableInv(h[i - 1])
      BY <2>1, <2>2, <3>1, TracedFine
    <3>3. body[order[i]] \in Body
      BY <2>1, LogBodies
    <3>4. h[i] = TableAfter(h[i - 1], body[order[i]])
      BY <2>2 DEF TablesOf
    <3> QED
      BY <3>2, <3>3, <3>4, AfterIsLockStep
  <2>4. ASSUME NEW n \in Node
        PROVE  applied[n] \in 0 .. Len(order)
    BY <2>1 DEF LogFits
  <2> QED
    BY <2>2, <2>3, <2>4 DEF OneLock
<1> QED
  BY ServiceInvariant, <1>1, PTL

\* The log is left alone or appended to, and no command is taken back.
Grown == order' = order \/ \E c \in Cmd : order' = Append(order, c)
More  == \A n \in Node : applied[n] <= applied'[n]

LogKept == BodiesStay /\ Grown /\ More

\* That is so in every step, and what was posted is kept.
LEMMA StepKeepsLog == ServiceInv /\ [Next]_vars => LogKept
PROOF
<1> SUFFICES ASSUME ServiceInv, [Next]_vars PROVE LogKept
  OBVIOUS
<1>1. /\ phase \in [Cmd -> {"new", "finding", "forwarding", "submitting", "waiting", "done"}]
      /\ body \in [Cmd -> Body \cup {None}] /\ applied \in [Node -> Nat]
      /\ order \in Seq(Cmd) /\ Len(order) \in Nat /\ leader \in Node \cup {None}
      /\ \A n \in Node : applied[n] <= Len(order)
  BY DEF ServiceInv, TypeOK, LogFits
<1>2. body' = body /\ phase' = phase => BodiesStay
  BY DEF BodiesStay
<1>3. order' = order /\ applied' = applied => Grown /\ More
  BY <1>1 DEF Grown, More
<1>4. ASSUME NEW n \in Node, Elected(n) PROVE LogKept
  BY <1>2, <1>3, <1>4 DEF Elected, Elect, callVars, LogKept
<1>5. ASSUME NEW n \in Node, Replicate(n) PROVE LogKept
  <2>1. BodiesStay /\ order' = order
    BY <1>2, <1>5 DEF Replicate, Receive, callVars
  <2>2. PICK done \in applied[n] .. applied[leader] : applied' = [applied EXCEPT ![n] = done]
    BY <1>5 DEF Replicate, Receive
  <2>3. leader \in Node
    BY <1>1, <1>5 DEF Replicate, Receive
  <2>4. More
    BY <1>1, <2>2, <2>3 DEF More
  <2> QED
    BY <2>1, <2>4 DEF Grown, LogKept
<1>6. ASSUME NEW c \in Cmd, phase[c] = "new", Submit(c) \/ UNCHANGED logState,
             NEW b, body' = [body EXCEPT ![c] = b], NEW p, phase' = [phase EXCEPT ![c] = p]
      PROVE  LogKept
  <2>1. \A d \in Cmd : d # c => body'[d] = body[d] /\ phase'[d] = phase[d]
    BY <1>1, <1>6
  <2>2. BodiesStay
    BY <1>6, <2>1 DEF BodiesStay
  <2>3. applied' = applied /\ Grown
    BY <1>6 DEF Submit, logState, Grown
  <2> QED
    BY <1>1, <2>2, <2>3 DEF More, LogKept
<1>7. ASSUME NEW c \in Cmd, NEW b \in Bodies(c), CallLeader(c, b) \/ CallOther(c, b)
      PROVE  LogKept
  BY <1>6, <1>7 DEF CallLeader, Accept, CallOther
<1>8. ASSUME NEW c \in Cmd, body' = body,
             NEW p \in {"forwarding", "submitting", "waiting", "done"},
             phase' = [phase EXCEPT ![c] = p]
      PROVE  BodiesStay
  <2>1. \A d \in Cmd : d # c => phase'[d] = phase[d]
    BY <1>1, <1>8
  <2>2. phase[c] # "new" => phase'[c] # "new"
    BY <1>1, <1>8
  <2> QED
    BY <1>8, <2>1, <2>2 DEF BodiesStay
<1>9. ASSUME NEW c \in Cmd, AskReturns(c) \/ AskTimesOut(c) PROVE LogKept
  <2>1. body' = body /\ order' = order /\ applied' = applied
    BY <1>9 DEF AskReturns, AskTimesOut, AskNext, logState
  <2>2. \/ phase' = phase
        \/ \E p \in {"forwarding", "done"} : phase' = [phase EXCEPT ![c] = p]
    BY <1>9 DEF AskReturns, AskTimesOut, AskNext
  <2> QED
    BY <1>2, <1>3, <1>8, <2>1, <2>2 DEF LogKept
<1>10. ASSUME NEW c \in Cmd, ForwardArrives(c) PROVE LogKept
  <2>1. body' = body /\ phase' = [phase EXCEPT ![c] = "submitting"] /\ Submit(c)
    BY <1>10 DEF ForwardArrives, Accept
  <2>2. applied' = applied /\ Grown
    BY <2>1 DEF Submit, Grown
  <2>3. BodiesStay
    BY <1>8, <2>1
  <2>4. More
    BY <1>1, <2>2 DEF More
  <2> QED
    BY <2>2, <2>3, <2>4 DEF LogKept
<1>11. ASSUME NEW c \in Cmd, ForwardTimesOut(c) PROVE LogKept
  BY <1>2, <1>3, <1>11 DEF ForwardTimesOut, logState, LogKept
<1>12. ASSUME NEW c \in Cmd, SubmitSucceeds(c) PROVE LogKept
  <2>1. /\ body' = body /\ order' = order
        /\ applied' = [applied EXCEPT ![leader] = Len(order)]
    BY <1>12 DEF SubmitSucceeds, Succeed
  <2>2. \E p \in {"waiting", "done"} : phase' = [phase EXCEPT ![c] = p]
    BY <1>12 DEF SubmitSucceeds
  <2>3. More
    BY <1>1, <2>1 DEF More
  <2> QED
    BY <1>8, <2>1, <2>2, <2>3 DEF Grown, LogKept
<1>13. ASSUME NEW c \in Cmd, SubmitFails(c) \/ WaitEnds(c) PROVE LogKept
  <2>1. /\ body' = body /\ phase' = [phase EXCEPT ![c] = "done"]
        /\ order' = order /\ applied' = applied
    BY <1>13 DEF SubmitFails, Fail, WaitEnds, logState
  <2> QED
    BY <1>3, <1>8, <2>1 DEF LogKept
<1>14. CASE UNCHANGED vars
  BY <1>2, <1>3, <1>14 DEF vars, logState, callVars, LogKept
<1>15. CASE Next
  <2>1. ASSUME NEW n \in Node, Elected(n) \/ Replicate(n) PROVE LogKept
    BY <1>4, <1>5, <2>1
  <2>2. ASSUME NEW c \in Cmd, NEW b \in Bodies(c), CallLeader(c, b) \/ CallOther(c, b)
        PROVE  LogKept
    BY <1>7, <2>2
  <2>3. ASSUME NEW c \in Cmd,
               \/ AskReturns(c) \/ AskTimesOut(c) \/ ForwardArrives(c) \/ ForwardTimesOut(c)
               \/ SubmitSucceeds(c) \/ SubmitFails(c) \/ WaitEnds(c)
        PROVE  LogKept
    BY <1>9, <1>10, <1>11, <1>12, <1>13, <2>3
  <2> QED
    BY <1>15, <2>1, <2>2, <2>3 DEF Next
<1> QED
  BY <1>14, <1>15

\* A line of tables of the longer log is one of the log before.
LEMMA LineBefore ==
  ASSUME LogFits, Posted, LogKept, NEW h, TablesOf(h)'
  PROVE  TablesOf(h)
PROOF
<1>1. \A i \in 1 .. Len(order) : i \in 1 .. Len(order') /\ order'[i] = order[i]
  BY DEF LogFits, LogKept, Grown
<1>2. \A i \in 1 .. Len(order) : body'[order[i]] = body[order[i]]
  <2>1. \A i \in 1 .. Len(order) : order[i] \in Cmd /\ order[i] \in Submitted
    BY DEF LogFits, Submitted
  <2> QED
    BY <2>1 DEF Posted, LogKept, BodiesStay
<1>3. h[0] = EmptyTable
  BY DEF TablesOf
<1>4. ASSUME NEW i \in 1 .. Len(order)
      PROVE  h[i] = TableAfter(h[i - 1], body[order[i]])
  <2>1. h[i] = TableAfter(h[i - 1], body'[order'[i]])
    BY <1>1 DEF TablesOf, TableAfter
  <2> QED
    BY <1>1, <1>2, <2>1
<1> QED
  BY <1>3, <1>4 DEF TablesOf

\* The line is only made longer.
LineStands == (\A h : TablesOf(h)' => TablesOf(h)) /\ More

\* Time only lengthens the line of tables of ServiceIsRWLock, and a node only
\* goes forward on it: nothing that was replicated is undone or put in another
\* order (raft.py:131-148, lock_service.py:128-135).
THEOREM LineOnlyGrows == Spec => [][LineStands]_vars
PROOF
<1>1. LogFits /\ Posted /\ LogKept => LineStands
  BY LineBefore DEF LogKept, LineStands
<1>2. ServiceInv => LogFits /\ Posted
  BY DEF ServiceInv
<1> QED
  BY <1>1, <1>2, StepKeepsLog, ServiceInvariant, PTL DEF Spec

\* A token that a client was told is the one in its future, and that of an
\* acquire with the same req_id.
LEMMA ToldGrant ==
  ASSUME ServiceInv, NEW c \in Cmd, told[c].kind = "granted"
  PROVE  /\ leader \in Node /\ leader # None
         /\ phase[c] # "new" /\ told[c] = future[c]
         /\ \E d \in Cmd : TrueGrant(Now(leader), c, d)
PROOF
<1>1. LogFits /\ Posted /\ LeaderKept /\ ToldTrue /\ NoAnswer.kind = "none"
  BY DEF ServiceInv, NoAnswer, Answer
<1>2. phase[c] # "new" /\ told[c] = future[c] /\ future[c].kind = "granted"
  BY <1>1 DEF ToldTrue
<1>3. leader # None
  BY <1>1, <1>2 DEF LeaderKept
<1>4. leader \in Node
  BY <1>1, <1>3 DEF LogFits
<1>5. GrantTrue(Now(leader))
  BY <1>1, <1>3 DEF LeaderKept, Kept
<1>6. Now(leader).future = future
  BY DEF Now
<1> QED
  BY <1>2, <1>3, <1>4, <1>5, <1>6 DEF GrantTrue

\* When nobody else used the req_id the acquire is its own: while it holds, its
\* client is in the leader's table, in the mode that it asked for.
LEMMA GivenHolds ==
  ASSUME ServiceInv, NEW c \in Cmd, Holds(c), OneBody(c)
  PROVE  /\ leader \in Node
         /\ body[c].res \in Resource /\ body[c].mode \in LockMode
         /\ [client |-> body[c].client, token |-> told[c].token]
              \in table[leader].holders[body[c].res]
         /\ table[leader].mode[body[c].res] = body[c].mode
PROOF
<1>1. phase[c] # "new" /\ body[c].op = "acquire" /\ told[c].kind = "granted"
      /\ ~Released(body[c].res, told[c].token)
  BY DEF Holds, Given
<1>2. leader \in Node /\ told[c] = future[c]
  BY <1>1, ToldGrant
<1>3. PICK d \in Cmd : TrueGrant(Now(leader), c, d)
  BY <1>1, ToldGrant
<1>4. body[d] = body[c]
  BY <1>1, <1>3 DEF TrueGrant, OneBody, SameId
<1>5. Now(leader).table = table[leader] /\ Now(leader).future = future
  BY DEF Now
<1>6. body[c].res \in Resource /\ body[c].mode \in LockMode
  <2>1. body[c] \in Body
    BY <1>1 DEF ServiceInv, Posted
  <2> QED
    BY <1>1, <2>1, BodyFields
<1> QED
  BY <1>1, <1>2, <1>3, <1>4, <1>5, <1>6 DEF TrueGrant

\* A token that is told is that of a holder in the leader's table until somebody
\* asks to release it, whatever was retried, lost or late: the holder is the
\* client of an acquire with the same req_id, whichever bodies clients sent
\* under it (lock_service.py:128-140, 163-182).
THEOREM TokensStand == Spec => []GrantStands
PROOF
<1>1. ServiceInv => GrantStands
  <2> SUFFICES ASSUME ServiceInv, NEW c \in Cmd, told[c].kind = "granted"
               PROVE  \E d \in Cmd :
                        /\ SameId(c, d) /\ body[d].op = "acquire"
                        /\ \/ [client |-> body[d].client, token |-> told[c].token]
                                \in table[leader].holders[body[d].res]
                           \/ Released(body[d].res, told[c].token)
    BY DEF GrantStands
  <2>1. PICK d \in Cmd : TrueGrant(Now(leader), c, d)
    BY ToldGrant
  <2>2. phase[c] # "new" /\ told[c] = future[c]
    BY ToldGrant
  <2>3. Now(leader).table = table[leader] /\ Now(leader).future = future
    BY DEF Now
  <2> QED
    BY <2>1, <2>2, <2>3 DEF TrueGrant, SameId
<1> QED
  BY ServiceInvariant, <1>1, PTL

\* Two clients that were both told they have a resource, whose tokens nobody
\* asked to release and whose req_ids came with one body only, both asked for a
\* shared lock (lock_service.py:45-54, 68-94 behind 163-182).
THEOREM NoSharedExclusive == Spec => []ClientsExclude
PROOF
<1>1. ServiceInv => ClientsExclude
  <2> SUFFICES ASSUME ServiceInv, NEW c \in Cmd, NEW d \in Cmd,
                      Holds(c), Holds(d), OneBody(c), OneBody(d),
                      body[c].res = body[d].res, body[c].client # body[d].client
               PROVE  body[c].mode = "shared" /\ body[d].mode = "shared"
    BY DEF ClientsExclude
  <2>1. PICK h1 : h1 = [client |-> body[c].client, token |-> told[c].token]
    OBVIOUS
  <2>2. PICK h2 : h2 = [client |-> body[d].client, token |-> told[d].token]
    OBVIOUS
  <2>4. PICK r \in Resource : r = body[c].res
    BY GivenHolds
  <2>5. /\ h1 \in table[leader].holders[r] /\ h2 \in table[leader].holders[r]
        /\ leader \in Node
        /\ table[leader].mode[r] = body[c].mode /\ table[leader].mode[r] = body[d].mode
        /\ body[c].mode \in LockMode
    BY <2>1, <2>2, <2>4, GivenHolds
  <2>6. h1 # h2
    BY <2>1, <2>2
  <2>7. TableInv(table[leader])
    BY <2>5 DEF ServiceInv, TablesFine
  <2>8. table[leader].mode[r] # "exclusive"
    BY <2>5, <2>6, <2>7 DEF TableInv, Excludes, ExcludesAt
  <2> QED
    BY <2>5, <2>8 DEF LockMode
<1> QED
  BY ServiceInvariant, <1>1, PTL

\* A future that outlives its handler goes with the commit of its command, and
\* only the leader has any (lock_service.py:132, 139, 173-175).
THEOREM LeaksEnd == Spec => []LeakEnds
PROOF
<1>1. ServiceInv => LeakEnds
  <2> SUFFICES ASSUME ServiceInv, NEW n \in Node, NEW i \in Cmd, pending[n][i] # None
               PROVE  /\ n = leader /\ pending[n][i] \in Submitted
                      /\ Position(pending[n][i]) > applied[n]
    BY DEF LeakEnds
  <2>1. n = leader
    BY DEF ServiceInv, Others
  <2>2. leader # None
    BY <2>1, NoneLeadsNot
  <2>3. Registered(Now(leader), applied[leader])
    BY <2>2 DEF ServiceInv, LeaderKept, Kept
  <2>4. Now(leader).pending = pending[leader]
    BY DEF Now
  <2> QED
    BY <2>1, <2>3, <2>4 DEF Registered
<1> QED
  BY ServiceInvariant, <1>1, PTL

\* "pending" is answered only to a call whose future another call with the
\* same req_id replaced (lock_service.py:137-140, 176-179).
THEOREM NobodyWaitsInVain == Spec => []PendingOnlyIfReplaced
PROOF
<1>1. ServiceInv => PendingOnlyIfReplaced
  BY DEF ServiceInv
<1> QED
  BY ServiceInvariant, <1>1, PTL

\* A lock is held by a client that knows its token, or that has an acquire
\* whose answer does not say so, or one whose req_id came with another body as
\* well (lock_service.py:128-140, 163-182).
THEOREM LocksAreAsked == Spec => []NoLockUnasked
PROOF
<1>1. ServiceInv => NoLockUnasked
  <2> SUFFICES ASSUME ServiceInv, leader # None, NEW r \in Resource,
                      NEW h \in table[leader].holders[r]
               PROVE  \/ \E c \in Cmd : Given(c) /\ body[c].res = r
                                        /\ told[c].token = h.token
                                        /\ body[c].client = h.client
                      \/ \E c \in Submitted :
                           body[c].op = "acquire" /\ body[c].res = r
                           /\ body[c].client = h.client
                           /\ (told[c].kind # "granted" \/ ~OneBody(c))
    BY DEF NoLockUnasked
  <2>1. /\ LogFits /\ Posted /\ ToldTrue /\ HoldersAsked(Now(leader))
    BY DEF ServiceInv, LeaderKept, Kept
  <2>2. Now(leader).table = table[leader] /\ Now(leader).future = future
    BY DEF Now
  <2>3. PICK c \in Cmd :
          /\ Asked(c, h.client, r)
          /\ \/ future[c] = Answer("granted", h.token) \/ future[c].kind # "granted"
             \/ ~OneBody(c)
    <3>1. \/ \E c \in Cmd : Asked(c, h.client, r) /\ future[c] = Answer("granted", h.token)
          \/ Orphan(Now(leader), h.client, r)
      BY <2>1, <2>2 DEF HoldersAsked
    <3> QED
      BY <2>2, <3>1 DEF Orphan
  <2>4. c \in Submitted /\ body[c].op = "acquire" /\ body[c].client = h.client /\ body[c].res = r
    BY <2>3 DEF Asked
  <2>5. phase[c] # "new"
    BY <2>1, <2>4 DEF Posted
  <2>6. CASE told[c].kind = "granted" /\ OneBody(c)
    <3>1. told[c] = future[c]
      BY <2>1, <2>6 DEF ToldTrue
    <3>2. told[c].token = h.token
      <4>1. Answer("granted", h.token).token = h.token
        BY DEF Answer
      <4> QED
        BY <2>3, <2>6, <3>1, <4>1
    <3> QED
      BY <2>4, <2>5, <2>6, <3>2 DEF Given
  <2>7. CASE told[c].kind # "granted" \/ ~OneBody(c)
    BY <2>4, <2>7
  <2> QED
    BY <2>6, <2>7
<1> QED
  BY ServiceInvariant, <1>1, PTL
=============================================================================
