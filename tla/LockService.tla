---------------------------- MODULE LockService ----------------------------
(***************************************************************************)
(* The lock service of src/lock/lock_service.py: the HTTP handlers of      *)
(* acquire, release and deadlock, the state machine they replicate (class  *)
(* LockRsm), and the way a request finds the leader.  The handlers sit on  *)
(* top of submit and apply_fn of the replication core, taken here as the   *)
(* log of CommandLog.tla: one leader, its first term, no restart.          *)
(*                                                                         *)
(* A call is one POST of a client.  It is served by the handler of the     *)
(* node it was sent to, and when that node does not lead, by a second      *)
(* handler at the leader for which the first one waits.  A call that       *)
(* reaches submit is the command it submits.                               *)
(*                                                                         *)
(* Left out: roles and API keys, the audit record of an answered call, the *)
(* text of an answer beyond its kind and its token (the granted_batch of a *)
(* release among it), and the verdict of deadlock_check, which is          *)
(* DeadlockDfs.tla.                                                        *)
(***************************************************************************)
EXTENDS CommandLog, LockOps

CONSTANTS Cluster,     \* CLUSTER_NODES, the order in which a leader is sought
          MaxTimeouts  \* bound: HTTP timeouts in one behaviour

ASSUME ClusterIsTheNodes ==
  /\ Cluster \in Seq(Node)
  /\ {Cluster[i] : i \in 1 .. Len(Cluster)} = Node
  /\ Node # {}

ASSUME MaxTimeoutsIsNat == MaxTimeouts \in Nat
ASSUME NoneIsNoCall     == None \notin Cmd

VARIABLES
  table,    \* the LockTable of each node
  pending,  \* LockRsm._pending of each node: whose future a req_id names
  future,   \* the result in the future of a call, if it was set
  body,     \* what was posted
  phase,    \* how far the call got
  asking,   \* the index in Cluster of the node asked for its role
  relayed,  \* another node's handler waits for the answer
  told,     \* the answer the client got
  timeouts  \* HTTP timeouts so far

callVars == <<body, phase, asking, relayed, told, timeouts>>
vars == <<logState, table, pending, future, callVars>>

Answer(kind, token) == [kind |-> kind, token |-> token]

NoAnswer == Answer("none", 0)

(***************************************************************************)
(* The body of a call.  id is req_id, named after the first call that has  *)
(* it: a new one, or for an acquire any that an acquire came with before,  *)
(* whoever sent that one and for whatever lock; nothing ties a req_id to a *)
(* client or to a body.  Releases and checks get a new one at the leader.  *)
(***************************************************************************)
UsedIds == {body[d].id : d \in {x \in Cmd : phase[x] # "new" /\ body[x].op = "acquire"}}

Acquires(c) ==
  [op : {"acquire"}, client : Client, res : Resource, mode : LockMode, id : {c} \cup UsedIds]

\* GET /lock/state of any node shows the tokens of its table.
Releases(c) ==
  [op : {"release"}, res : Resource, id : {c},
   token : UNION {1 .. table[n].counter : n \in Node}]

Checks(c) == [op : {"check"}, id : {c}]

Init ==
  /\ LogInit
  /\ table    = [n \in Node |-> EmptyTable]
  /\ pending  = [n \in Node |-> [i \in Cmd |-> None]]
  /\ future   = [c \in Cmd |-> NoAnswer]
  /\ body     = [c \in Cmd |-> None]
  /\ phase    = [c \in Cmd |-> "new"]
  /\ asking   = [c \in Cmd |-> 0]
  /\ relayed  = [c \in Cmd |-> FALSE]
  /\ told     = [c \in Cmd |-> NoAnswer]
  /\ timeouts = 0

-----------------------------------------------------------------------------
(***************************************************************************)
(* LockRsm: commands are applied to the table of a node, one by one.       *)
(***************************************************************************)

TableAfter(t, b) ==
  CASE b.op = "acquire" -> Acquire(t, b.client, b.res, b.mode)
    [] b.op = "release" -> Release(t, b.res, b.token)
    [] OTHER -> t

\* Mutant: the token before the new one is answered.
AnswerOld(t, b) ==
  IF b.op = "acquire" /\ Grantable(t, b.res, b.mode)
    THEN Answer("granted", t.counter) ELSE Answer("queued", 0)

AnswerOf(t, b) ==
  CASE b.op = "acquire" ->
         IF Grantable(t, b.res, b.mode) THEN Answer("granted", t.counter + 1)
                                            ELSE Answer("queued", 0)
    [] b.op = "release" -> Answer("released", 0)
    [] OTHER -> Answer("verdict", 0)

\* Mutant: the future stays registered.
ApplyKept(s, c) ==
  LET b       == body[c]
      waiting == s.pending[b.id]
  IN  [table   |-> TableAfter(s.table, b),
       pending |-> s.pending,
       future  |-> IF waiting = None
                     THEN s.future
                     ELSE [s.future EXCEPT ![waiting] = AnswerOf(s.table, b)]]

\* apply_cmd: the result goes to whatever future the req_id names by now.
ApplyCmd(s, c) ==
  LET b       == body[c]
      waiting == s.pending[b.id]
  IN  [table   |-> TableAfter(s.table, b),
       pending |-> [s.pending EXCEPT ![b.id] = None],
       future  |-> IF waiting = None
                     THEN s.future
                     ELSE [s.future EXCEPT ![waiting] = AnswerOf(s.table, b)]]

Now(n) == [table |-> table[n], pending |-> pending[n], future |-> future]

\* The states of node n while it applies the commands behind position first.
Applying(n, first, last) ==
  LET run[i \in first .. last] ==
        IF i = first THEN Now(n) ELSE ApplyCmd(run[i - 1], order[i])
  IN  run

Becomes(n, s) ==
  /\ table'   = [table EXCEPT ![n] = s.table]
  /\ pending' = [pending EXCEPT ![n] = s.pending]
  /\ future'  = s.future

\* Mutant: the last command that was applied is applied again.
ApplyAgain(n) ==
  LET first == IF applied[n] = 0 THEN 0 ELSE applied[n] - 1
  IN  Becomes(n, Applying(n, first, applied'[n])[applied'[n]])

\* Node n applies the commands it had not applied before.
ApplyNew(n) == Becomes(n, Applying(n, applied[n], applied'[n])[applied'[n]])

-----------------------------------------------------------------------------
(***************************************************************************)
(* The handlers.  Between the start of a handler at the leader and the     *)
(* first append request of its submit nothing is awaited.                  *)
(***************************************************************************)

\* The answer ans of the handler that submits reaches the client, unless the
\* node in between gave up; what is no answer there is an error here.
Tell(c, ans) ==
  told' = [told EXCEPT ![c] = IF @ # NoAnswer THEN @
                              ELSE IF relayed[c] /\ ans.kind = "failed"
                                     THEN Answer("error", 0) ELSE ans]

\* Mutant: the future is registered when the submit has succeeded.
AcceptLate(c, b) ==
  /\ Submit(c)
  /\ phase' = [phase EXCEPT ![c] = "submitting"]
  /\ UNCHANGED <<table, pending, future>>

\* The handler at the leader registers a future and submits.
Accept(c, b) ==
  /\ Submit(c)
  /\ pending' = [pending EXCEPT ![leader][b.id] = c]
  /\ phase'   = [phase EXCEPT ![c] = "submitting"]
  /\ UNCHANGED <<table, future>>

\* A client posts b at the leader.
CallLeader(c, b) ==
  /\ phase[c] = "new"
  /\ Accept(c, b)
  /\ body' = [body EXCEPT ![c] = b]
  /\ UNCHANGED <<asking, relayed, told, timeouts>>

\* A client posts b at a node that does not lead: all the nodes are asked.
CallOther(c, b) ==
  /\ phase[c] = "new"
  /\ body'   = [body EXCEPT ![c] = b]
  /\ phase'  = [phase EXCEPT ![c] = "finding"]
  /\ asking' = [asking EXCEPT ![c] = 1]
  /\ UNCHANGED <<logState, table, pending, future, relayed, told, timeouts>>

\* Mutant: the search starts over at the first node.
AskForEver(c) ==
  /\ asking' = [asking EXCEPT ![c] = (@ % Len(Cluster)) + 1]
  /\ UNCHANGED <<logState, table, pending, future, body, phase, relayed, told>>

\* The node asked is not the leader, or does not say so in time.
AskNext(c) ==
  /\ IF asking[c] < Len(Cluster)
       THEN asking' = [asking EXCEPT ![c] = @ + 1] /\ UNCHANGED <<phase, told>>
       ELSE /\ phase' = [phase EXCEPT ![c] = "done"]
            /\ told'  = [told EXCEPT ![c] = Answer("no_leader", 0)]
            /\ UNCHANGED asking
  /\ UNCHANGED <<logState, table, pending, future, body, relayed>>

AskReturns(c) ==
  /\ phase[c] = "finding"
  /\ IF Cluster[asking[c]] = leader
       THEN /\ phase'   = [phase EXCEPT ![c] = "forwarding"]
            /\ relayed' = [relayed EXCEPT ![c] = TRUE]
            /\ UNCHANGED <<logState, table, pending, future, body, asking, told>>
       ELSE AskNext(c)
  /\ UNCHANGED timeouts

AskTimesOut(c) ==
  /\ phase[c] = "finding"
  /\ timeouts < MaxTimeouts
  /\ timeouts' = timeouts + 1
  /\ AskNext(c)

\* The forwarded post starts a handler at the leader, in time or not.
ForwardArrives(c) ==
  /\ phase[c] = "forwarding"
  /\ Accept(c, body[c])
  /\ UNCHANGED <<body, asking, relayed, told, timeouts>>

\* 2.5 seconds are over for the node that forwarded; the handler at the leader,
\* which may take longer, goes on, and the post may still be under way.
ForwardTimesOut(c) ==
  /\ phase[c] \in {"forwarding", "submitting", "waiting"}
  /\ relayed[c] /\ told[c] = NoAnswer
  /\ timeouts < MaxTimeouts
  /\ timeouts' = timeouts + 1
  /\ told' = [told EXCEPT ![c] = Answer("error", 0)]
  /\ UNCHANGED <<logState, table, pending, future, body, phase, asking, relayed>>

\* A node takes entries and applies what the leader has applied.
Replicate(n) ==
  /\ Receive(n)
  /\ ApplyNew(n)
  /\ UNCHANGED callVars

\* submit returns True: everything in the log is applied by now, and the
\* handler has its result, unless its future is not the one that was set.
SubmitSucceeds(c) ==
  /\ Succeed(c)
  /\ ApplyNew(leader)
  /\ IF future'[c] # NoAnswer
       THEN Tell(c, future'[c]) /\ phase' = [phase EXCEPT ![c] = "done"]
       ELSE phase' = [phase EXCEPT ![c] = "waiting"] /\ UNCHANGED told
  /\ UNCHANGED <<body, asking, relayed, timeouts>>

\* submit returns False; the future stays registered.
SubmitFails(c) ==
  /\ Fail(c)
  /\ Tell(c, Answer("failed", 0))
  /\ phase' = [phase EXCEPT ![c] = "done"]
  /\ UNCHANGED <<table, pending, future, body, asking, relayed, timeouts>>

\* wait_for ends, with the result or after its 2 seconds.
WaitEnds(c) ==
  /\ phase[c] = "waiting"
  /\ Tell(c, IF future[c] # NoAnswer THEN future[c] ELSE Answer("pending", 0))
  /\ phase' = [phase EXCEPT ![c] = "done"]
  /\ UNCHANGED <<logState, table, pending, future, body, asking, relayed, timeouts>>

Elected(n) == Elect(n) /\ UNCHANGED <<table, pending, future, callVars>>

Bodies(c) == Acquires(c) \cup Releases(c) \cup Checks(c)

Next ==
  \/ \E n \in Node : Elected(n) \/ Replicate(n)
  \/ \E c \in Cmd :
       \/ \E b \in Bodies(c) : CallLeader(c, b) \/ CallOther(c, b)
       \/ AskReturns(c) \/ AskTimesOut(c) \/ ForwardArrives(c) \/ ForwardTimesOut(c)
       \/ SubmitSucceeds(c) \/ SubmitFails(c) \/ WaitEnds(c)

Spec == Init /\ [][Next]_vars

(***************************************************************************)
(* Every await of a handler ends: the calls to other nodes have timeouts,  *)
(* and submit makes one call per peer.                                     *)
(***************************************************************************)
Proceeds(c) ==
  \/ AskReturns(c) \/ ForwardArrives(c) \/ SubmitFails(c) \/ SubmitSucceeds(c)
  \/ WaitEnds(c)

FairSpec == Spec /\ \A c \in Cmd : WF_vars(Proceeds(c))

-----------------------------------------------------------------------------

Kinds == {"none", "granted", "queued", "released", "verdict", "no_leader", "error", "failed",
          "pending"}

Body == [op : {"acquire"}, client : Client, res : Resource, mode : LockMode, id : Cmd]
        \cup [op : {"release"}, res : Resource, token : Nat, id : Cmd]
        \cup [op : {"check"}, id : Cmd]

\* Type invariant.
TypeOK ==
  /\ leader \in Node \cup {None}
  /\ order \in Seq(Cmd)
  /\ have \in [Node -> Nat] /\ applied \in [Node -> Nat]
  /\ result \in [Cmd -> {"none", "ok", "failed"}]
  /\ DOMAIN table = Node /\ \A n \in Node : WellTyped(table[n])
  /\ pending \in [Node -> [Cmd -> Cmd \cup {None}]]
  /\ future \in [Cmd -> [kind : Kinds, token : Nat]]
  /\ told \in [Cmd -> [kind : Kinds, token : Nat]]
  /\ body \in [Cmd -> Body \cup {None}]
  /\ phase \in [Cmd -> {"new", "finding", "forwarding", "submitting", "waiting", "done"}]
  /\ asking \in [Cmd -> 0 .. Len(Cluster)]
  /\ relayed \in [Cmd -> BOOLEAN]
  /\ timeouts \in 0 .. MaxTimeouts

\* Nodes that applied equally many commands have the same table, tokens and
\* waiting edges included, whatever the sizes of the steps in which they got
\* there (raft.py:145-148, lock_service.py:128-135).
TablesAgree ==
  \A m, n \in Node : applied[m] = applied[n] => table[m] = table[n]

SameId(c, d) == phase[c] # "new" /\ phase[d] # "new" /\ body[c].id = body[d].id

\* No other body was posted with the req_id of call c.
OneBody(c) == \A d \in Cmd : SameId(c, d) => body[d] = body[c]

Given(c) == phase[c] # "new" /\ body[c].op = "acquire" /\ told[c].kind = "granted"

Released(res, token) ==
  \E d \in Cmd : phase[d] # "new" /\ body[d].op = "release"
                 /\ body[d].res = res /\ body[d].token = token

\* A token that is told is that of a holder in the leader's table until
\* somebody asks to release it, whatever was retried, lost or late on the way:
\* the holder is the client of an acquire with the same req_id, and so the one
\* that is told unless clients share a req_id (lines 128-140, 163-182).
GrantStands ==
  \A c \in Cmd : told[c].kind = "granted" =>
    \E d \in Cmd :
      /\ SameId(c, d) /\ body[d].op = "acquire"
      /\ \/ [client |-> body[d].client, token |-> told[c].token]
              \in table[leader].holders[body[d].res]
         \/ Released(body[d].res, told[c].token)

Holds(c) == Given(c) /\ ~Released(body[c].res, told[c].token)

\* Two clients that were both told they have the same resource, whose tokens
\* nobody asked to release, both asked for a shared lock, unless one of them
\* used a req_id that came with another body as well (lines 45-54, 68-94
\* behind lines 163-182).
ClientsExclude ==
  \A c, d \in Cmd :
    /\ Holds(c) /\ Holds(d) /\ OneBody(c) /\ OneBody(d)
    /\ body[c].res = body[d].res /\ body[c].client # body[d].client
    => body[c].mode = "shared" /\ body[d].mode = "shared"

\* The future of a call outlives its handler only as long as the command is
\* in the log and not applied: what a failed replication leaves in _pending
\* goes with the next commit (lines 132, 139, 173-175).
LeakEnds ==
  \A n \in Node, i \in Cmd :
    pending[n][i] # None =>
      /\ n = leader /\ pending[n][i] \in Submitted
      /\ Position(pending[n][i]) > applied[n]

\* "pending" is answered only to a call whose future was replaced by another
\* call with the same req_id: nobody else waits in vain (lines 137-140,
\* 176-179).
PendingOnlyIfReplaced ==
  \A c \in Cmd : told[c].kind = "pending" =>
    \E d \in Cmd \ {c} : d \in Submitted /\ body[d].id = body[c].id

\* A lock is held by a client that knows its token, or that has an acquire
\* without a token in its answer: still under way, queued, or failed, lost
\* and timed out on the way back; or its acquire had a req_id that came with
\* another body as well, and then nobody may know the token (lines 128-140,
\* 163-182).
NoLockUnasked ==
  leader # None => \A r \in Resource : \A h \in table[leader].holders[r] :
    \/ \E c \in Cmd : Given(c) /\ body[c].res = r /\ told[c].token = h.token
                      /\ body[c].client = h.client
    \/ \E c \in Submitted : body[c].op = "acquire" /\ body[c].res = r
                            /\ body[c].client = h.client
                            /\ (told[c].kind # "granted" \/ ~OneBody(c))

\* Every call is answered: whatever is under way, there comes a moment when
\* nobody waits (lines 143-151, 163-222; the calls are finitely many).
CallsAnswered == []<>(\A c \in Cmd : phase[c] # "new" => told[c] # NoAnswer)
=============================================================================
