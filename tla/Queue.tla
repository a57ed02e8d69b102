-------------------------------- MODULE Queue --------------------------------
(***************************************************************************)
(* The distributed queue of src/dist_queue/queue_service.py for one topic  *)
(* and key: QueueStore on a shared Redis, and the tasks of the queue nodes *)
(* that call it.  Ring.owners names the owners of the topic; every owner   *)
(* keeps a copy of a message of its own, which only its own process pops   *)
(* and requeues, while an ack deals with the copies of all owners.         *)
(*                                                                         *)
(* Each Redis command is one step, and the process that issues it is one   *)
(* of many asyncio tasks: publish per message, QueueStore.publish per      *)
(* message and owner, consume and ack per request, one reaper per node.  A *)
(* task's at is the command it issues next.                                *)
(*                                                                         *)
(* Left out: scores (ready is a set, and any of its messages may be the    *)
(* lowest; a deadline passes at some moment), payload contents, the set    *)
(* q2:topics (the topic is in it before the first message is stored), and  *)
(* max > 1 in a consume, which is a series of consumes with one reply.     *)
(***************************************************************************)
EXTENDS Naturals, Sequences, SequencesExt, FiniteSets

CONSTANTS Node,        \* the queue nodes
          Owners,      \* ring.owners(topic, key, QUEUE_REPLICA_FACTOR)
          Msg,         \* messages, each published once
          Consumer,    \* consume requests that may be under way at once
          Acker,       \* ack requests that may be under way at once
          None,        \* Python's None
          MaxRestarts  \* bound: restarts of nodes

ASSUME OwnersAreNodes ==
  /\ Owners \in Seq(Node)
  /\ Owners # << >>
  /\ \A i, j \in 1 .. Len(Owners) : Owners[i] = Owners[j] => i = j

ASSUME NoneIsNothing == None \notin Node \cup Msg

ASSUME RestartBoundIsNat == MaxRestarts \in Nat

VARIABLES
  body,      \* messages whose q2:msg:<id> exists
  copies,    \* q2:owners:<id>
  ready,     \* q2:<topic>:<owner>:ready
  inflight,  \* q2:<topic>:<owner>:inflight
  due,       \* the part of inflight whose deadline has passed
  publish,   \* POST /queue/publish, per message
  store,     \* QueueStore.publish, per message and owner
  consume,   \* QueueStore.consume, per request
  reaper,    \* QueueStore.requeue_expired, per node
  ack,       \* QueueStore.ack_any or ack_owner, per request
  delivered, \* messages a client has received
  acked,     \* messages whose POST /queue/ack was answered with True
  restarts,  \* restarts so far
  touched,   \* history: messages with an ack started
  raced,     \* history: messages that a task carried during an ack
  dropped    \* history: <<m, o>> when o's copy was lost with a task

redisVars   == <<body, copies, ready, inflight, due>>
taskVars    == <<publish, store, consume, reaper, ack>>
historyVars == <<touched, dropped>>
vars == <<redisVars, taskVars, delivered, acked, restarts, historyVars, raced>>

Owner == ToSet(Owners)

NoConsume == [at |-> "idle", owner |-> None, msg |-> None]
NoReap    == [at |-> "idle", todo |-> {}, msg |-> None]
NoAck     == [at |-> "idle", node |-> None, msg |-> None, todo |-> {},
              owner |-> None, removed |-> FALSE, any |-> FALSE, whole |-> FALSE]

Init ==
  /\ body      = {}
  /\ copies    = [m \in Msg |-> {}]
  /\ ready     = [o \in Owner |-> {}]
  /\ inflight  = [o \in Owner |-> {}]
  /\ due       = [o \in Owner |-> {}]
  /\ publish   = [m \in Msg |-> [at |-> "new", node |-> None, i |-> 0]]
  /\ store     = [m \in Msg |-> [o \in Owner |-> "none"]]
  /\ consume   = [c \in Consumer |-> NoConsume]
  /\ reaper    = [o \in Owner |-> NoReap]
  /\ ack       = [a \in Acker |-> NoAck]
  /\ delivered = {}
  /\ acked     = {}
  /\ restarts  = 0
  /\ touched   = {}
  /\ raced     = {}
  /\ dropped   = {}

-----------------------------------------------------------------------------
(***************************************************************************)
(* POST /queue/publish: the owners are served one after the other.         *)
(***************************************************************************)

PublishStart(m, n) ==
  /\ publish[m].at = "new"
  /\ publish' = [publish EXCEPT ![m] = [at |-> "busy", node |-> n, i |-> 1]]
  /\ store'   = [store EXCEPT ![m][Owners[1]] = "body"]
  /\ UNCHANGED <<redisVars, consume, reaper, ack, delivered, acked, restarts, historyVars>>

PublishNext(m) ==
  LET i == publish[m].i
  IN  /\ publish[m].at = "busy"
      /\ store[m][Owners[i]] = "stored"
      /\ IF i < Len(Owners)
           THEN /\ publish' = [publish EXCEPT ![m].i = i + 1]
                /\ store'   = [store EXCEPT ![m][Owners[i + 1]] = "body"]
           ELSE publish' = [publish EXCEPT ![m].at = "done"] /\ UNCHANGED store
      /\ UNCHANGED <<redisVars, consume, reaper, ack, delivered, acked, restarts, historyVars>>

\* publish_internal on another node took too long, or never answered; it may
\* still be at work there.
PublishTimesOut(m) ==
  /\ publish[m].at = "busy"
  /\ publish[m].node # Owners[publish[m].i]
  /\ publish' = [publish EXCEPT ![m].at = "failed"]
  /\ UNCHANGED <<redisVars, store, consume, reaper, ack, delivered, acked, restarts,
                 historyVars>>

-----------------------------------------------------------------------------
(***************************************************************************)
(* QueueStore.publish, run by the owner.                                   *)
(***************************************************************************)

StoreBody(m, o) ==
  /\ store[m][o] = "body"
  /\ body'  = body \cup {m}
  /\ store' = [store EXCEPT ![m][o] = "owner"]
  /\ UNCHANGED <<copies, ready, inflight, due>>

StoreOwner(m, o) ==
  /\ store[m][o] = "owner"
  /\ copies' = [copies EXCEPT ![m] = @ \cup {o}]
  /\ store'  = [store EXCEPT ![m][o] = "ready"]
  /\ UNCHANGED <<body, ready, inflight, due>>

StoreReady(m, o) ==
  /\ store[m][o] = "ready"
  /\ ready' = [ready EXCEPT ![o] = @ \cup {m}]
  /\ store' = [store EXCEPT ![m][o] = "stored"]
  /\ UNCHANGED <<body, copies, inflight, due>>

StoreStep(m, o) ==
  /\ StoreBody(m, o) \/ StoreOwner(m, o) \/ StoreReady(m, o)
  /\ UNCHANGED <<publish, consume, reaper, ack, delivered, acked, restarts, historyVars>>

-----------------------------------------------------------------------------
(***************************************************************************)
(* QueueStore.consume, run by the owner.  The front node that forwards a   *)
(* consume adds only a reply that may be lost.                             *)
(***************************************************************************)

ConsumePop(c, o) ==
  /\ consume[c] = NoConsume
  /\ \E m \in ready[o] :
       /\ ready'   = [ready EXCEPT ![o] = @ \ {m}]
       /\ consume' = [consume EXCEPT ![c] = [at |-> "inflight", owner |-> o, msg |-> m]]
  /\ UNCHANGED <<body, copies, inflight, due, publish, store, reaper, ack,
                 delivered, acked, restarts, historyVars>>

ConsumeInflight(c) ==
  LET o == consume[c].owner
  IN  /\ consume[c].at = "inflight"
      /\ inflight' = [inflight EXCEPT ![o] = @ \cup {consume[c].msg}]
      /\ due'      = [due EXCEPT ![o] = @ \ {consume[c].msg}]
      /\ consume'  = [consume EXCEPT ![c].at = "payload"]
      /\ UNCHANGED <<body, copies, ready, publish, store, reaper, ack,
                     delivered, acked, restarts, historyVars>>

\* The payload is read and the reply is sent; it may not arrive.
ConsumeReply(c) ==
  /\ consume[c].at = "payload"
  /\ consume' = [consume EXCEPT ![c] = NoConsume]
  /\ \E arrives \in BOOLEAN :
       delivered' = IF arrives THEN delivered \cup {consume[c].msg} ELSE delivered
  /\ UNCHANGED <<redisVars, publish, store, reaper, ack, acked, restarts, historyVars>>

-----------------------------------------------------------------------------
(***************************************************************************)
(* requeue_expired, run by the owner's reaper.                             *)
(***************************************************************************)

DeadlinePasses(o, m) ==
  /\ m \in inflight[o] \ due[o]
  /\ due' = [due EXCEPT ![o] = @ \cup {m}]
  /\ UNCHANGED <<body, copies, ready, inflight, taskVars, delivered, acked, restarts,
                 historyVars>>

\* Mutant: the loop is entered with nothing to do.
ScanAlways(S) == TRUE

SomeExpired(S) == S # {}

ReapScan(o) ==
  /\ reaper[o] = NoReap
  /\ SomeExpired(due[o])
  /\ reaper' = [reaper EXCEPT ![o] = [at |-> "remove", todo |-> due[o], msg |-> None]]
  /\ UNCHANGED redisVars

\* Mutant: an expired message is not taken out of inflight.
KeepInflight(S, m) == S

DropInflight(S, m) == S \ {m}

\* Whether ZREM found the message is not looked at.
ReapRemove(o, m) ==
  /\ reaper[o].at = "remove"
  /\ m \in reaper[o].todo
  /\ inflight' = [inflight EXCEPT ![o] = DropInflight(@, m)]
  /\ due'      = [due EXCEPT ![o] = @ \ {m}]
  /\ reaper'   = [reaper EXCEPT ![o].at = "ready", ![o].msg = m]
  /\ UNCHANGED <<body, copies, ready>>

\* Mutant: an expired message is only removed.
Unqueued(S, m) == S

Requeued(S, m) == S \cup {m}

ReapReady(o) ==
  LET left == reaper[o].todo \ {reaper[o].msg}
  IN  /\ reaper[o].at = "ready"
      /\ ready'  = [ready EXCEPT ![o] = Requeued(@, reaper[o].msg)]
      /\ reaper' = [reaper EXCEPT ![o] =
                      IF left = {} THEN NoReap
                                   ELSE [at |-> "remove", todo |-> left, msg |-> None]]
      /\ UNCHANGED <<body, copies, inflight, due>>

ReapStep(o) ==
  /\ ReapScan(o) \/ ReapReady(o) \/ \E m \in Msg : ReapRemove(o, m)
  /\ UNCHANGED <<publish, store, consume, ack, delivered, acked, restarts, historyVars>>

-----------------------------------------------------------------------------
(***************************************************************************)
(* ack_any over the owners that SMEMBERS returned (POST /queue/ack and     *)
(* /queue/ack_owner), or ack_owner for one owner (ack_owner_internal).     *)
(***************************************************************************)

StartAck(a, n, m, targets, whole) ==
  /\ ack[a] = NoAck
  /\ m \in delivered
  /\ targets # {}
  /\ ack' = [ack EXCEPT ![a] = [NoAck EXCEPT !.at = "inflight", !.node = n, !.msg = m,
                                             !.todo = targets, !.whole = whole]]
  /\ touched' = touched \cup {m}
  /\ UNCHANGED <<redisVars, publish, store, consume, reaper, delivered, acked, restarts,
                 dropped>>

AckAny(a, n, m)           == StartAck(a, n, m, copies[m], TRUE)
AckOwnerInternal(a, n, m) == n \in Owner /\ StartAck(a, n, m, {n}, FALSE)

\* The owner at hand is dealt with: on to the next, or to the answer.
NextOwner(a) ==
  LET k    == ack[a]
      left == k.todo \ {k.owner}
      any  == k.any \/ k.removed
  IN  IF left # {}
        THEN /\ ack' = [ack EXCEPT ![a].at = "inflight", ![a].todo = left, ![a].any = any]
             /\ UNCHANGED acked
        ELSE /\ ack'   = [ack EXCEPT ![a] = NoAck]
             /\ acked' = IF any /\ k.whole THEN acked \cup {k.msg} ELSE acked

AckInflight(a, o) ==
  LET m == ack[a].msg
  IN  /\ ack[a].at = "inflight"
      /\ o \in ack[a].todo
      /\ inflight' = [inflight EXCEPT ![o] = @ \ {m}]
      /\ due'      = [due EXCEPT ![o] = @ \ {m}]
      /\ ack'      = [ack EXCEPT ![a].at = "ready", ![a].owner = o,
                                 ![a].removed = (m \in inflight[o])]
      /\ UNCHANGED <<body, copies, ready, acked>>

\* Mutant: a copy that is ready again is left there.
StayReady(S, m) == S

LeaveReady(S, m) == S \ {m}

\* A copy that was not in flight leaves its owner in q2:owners.
AckReady(a) ==
  /\ ack[a].at = "ready"
  /\ ready' = [ready EXCEPT ![ack[a].owner] = LeaveReady(@, ack[a].msg)]
  /\ IF ack[a].removed
       THEN ack' = [ack EXCEPT ![a].at = "owner"] /\ UNCHANGED acked
       ELSE NextOwner(a)
  /\ UNCHANGED <<body, copies, inflight, due>>

AckOwner(a) ==
  /\ ack[a].at = "owner"
  /\ copies' = [copies EXCEPT ![ack[a].msg] = @ \ {ack[a].owner}]
  /\ ack'    = [ack EXCEPT ![a].at = "count"]
  /\ UNCHANGED <<body, ready, inflight, due, acked>>

\* Mutant: the payload goes with the first copy.
AnyCopy(S) == TRUE

LastCopy(S) == S = {}

AckCount(a) ==
  /\ ack[a].at = "count"
  /\ IF LastCopy(copies[ack[a].msg])
       THEN ack' = [ack EXCEPT ![a].at = "body"] /\ UNCHANGED acked
       ELSE NextOwner(a)
  /\ UNCHANGED redisVars

AckBody(a) ==
  /\ ack[a].at = "body"
  /\ body' = body \ {ack[a].msg}
  /\ ack'  = [ack EXCEPT ![a].at = "owners"]
  /\ UNCHANGED <<copies, ready, inflight, due, acked>>

AckOwners(a) ==
  /\ ack[a].at = "owners"
  /\ copies' = [copies EXCEPT ![ack[a].msg] = {}]
  /\ NextOwner(a)
  /\ UNCHANGED <<body, ready, inflight, due>>

AckStep(a) ==
  /\ \/ \E o \in Owner : AckInflight(a, o)
     \/ AckReady(a)
     \/ AckOwner(a)
     \/ AckCount(a)
     \/ AckBody(a)
     \/ AckOwners(a)
  /\ UNCHANGED <<publish, store, consume, reaper, delivered, restarts, historyVars>>

-----------------------------------------------------------------------------
(***************************************************************************)
(* A node restarts: its tasks are gone, Redis keeps what it had.  A task   *)
(* that ends because a Redis call raises leaves the same traces.           *)
(***************************************************************************)

Holds(c, o, m) == consume[c] = [at |-> "inflight", owner |-> o, msg |-> m]
Reaping(o, m)  == reaper[o].at = "ready" /\ reaper[o].msg = m

Restart(n) ==
  /\ restarts < MaxRestarts
  /\ restarts' = restarts + 1
  /\ publish' = [m \in Msg |-> IF publish[m].at = "busy" /\ publish[m].node = n
                                 THEN [publish[m] EXCEPT !.at = "failed"] ELSE publish[m]]
  /\ store'   = [m \in Msg |-> [o \in Owner |->
                   IF o = n /\ store[m][o] # "stored" THEN "none" ELSE store[m][o]]]
  /\ consume' = [c \in Consumer |->
                   IF consume[c].owner = n THEN NoConsume ELSE consume[c]]
  /\ reaper'  = [o \in Owner |-> IF o = n THEN NoReap ELSE reaper[o]]
  /\ ack'     = [a \in Acker |-> IF ack[a].node = n THEN NoAck ELSE ack[a]]
  /\ dropped' = dropped \cup
       {x \in Msg \X (Owner \cap {n}) :
          Reaping(x[2], x[1]) \/ \E c \in Consumer : Holds(c, x[2], x[1])}
  /\ UNCHANGED <<redisVars, delivered, acked, touched>>

-----------------------------------------------------------------------------

\* Some task may still put a copy of m somewhere.
Carried(m) ==
  \/ publish[m].at = "busy"
  \/ \E o \in Owner : store[m][o] \in {"body", "owner", "ready"} \/ m \in reaper[o].todo
  \/ \E c \in Consumer : consume[c].at = "inflight" /\ consume[c].msg = m

Racing == {m \in Msg : Carried(m) /\ \E a \in Acker : ack[a].msg = m}

Step ==
  \/ \E m \in Msg, n \in Node : PublishStart(m, n)
  \/ \E m \in Msg : PublishNext(m) \/ PublishTimesOut(m)
  \/ \E m \in Msg, o \in Owner : StoreStep(m, o) \/ DeadlinePasses(o, m)
  \/ \E c \in Consumer, o \in Owner : ConsumePop(c, o)
  \/ \E c \in Consumer : ConsumeInflight(c) \/ ConsumeReply(c)
  \/ \E o \in Owner : ReapStep(o)
  \/ \E a \in Acker, n \in Node, m \in Msg : AckAny(a, n, m) \/ AckOwnerInternal(a, n, m)
  \/ \E a \in Acker : AckStep(a)
  \/ \E n \in Node : Restart(n)

Next == Step /\ raced' = raced \cup Racing'

Spec == Init /\ [][Next]_vars

(***************************************************************************)
(* The reaper loop swallows exceptions and goes on for ever (lines         *)
(* 146-153); nothing is assumed of clients.                                *)
(***************************************************************************)
FairSpec == Spec /\ \A o \in Owner : WF_vars(ReapStep(o) /\ raced' = raced \cup Racing')

-----------------------------------------------------------------------------

\* Type invariant.
TypeOK ==
  /\ body \subseteq Msg
  /\ copies \in [Msg -> SUBSET Owner]
  /\ ready \in [Owner -> SUBSET Msg]
  /\ inflight \in [Owner -> SUBSET Msg]
  /\ \A o \in Owner : due[o] \subseteq inflight[o]
  /\ publish \in [Msg -> [at : {"new", "busy", "done", "failed"},
                          node : Node \cup {None}, i : 0 .. Len(Owners)]]
  /\ store \in [Msg -> [Owner -> {"none", "body", "owner", "ready", "stored"}]]
  /\ consume \in [Consumer -> [at : {"idle", "inflight", "payload"},
                               owner : Owner \cup {None}, msg : Msg \cup {None}]]
  /\ reaper \in [Owner -> [at : {"idle", "remove", "ready"}, todo : SUBSET Msg,
                           msg : Msg \cup {None}]]
  /\ \A o \in Owner : reaper[o].todo = {} => reaper[o] = NoReap
  /\ ack \in [Acker -> [at : {"idle", "inflight", "ready", "owner", "count", "body", "owners"},
                        node : Node \cup {None}, msg : Msg \cup {None},
                        todo : SUBSET Owner, owner : Owner \cup {None},
                        removed : BOOLEAN, any : BOOLEAN, whole : BOOLEAN]]
  /\ delivered \subseteq Msg /\ acked \subseteq touched /\ touched \subseteq delivered
  /\ raced \subseteq touched
  /\ dropped \subseteq Msg \X Owner
  /\ restarts \in 0 .. MaxRestarts

\* Where o's copy of m is, in Redis or in the hands of a task.
Places(o, m) ==
  {p \in {"ready", "inflight", "reaper"} :
     \/ p = "ready"    /\ m \in ready[o]
     \/ p = "inflight" /\ m \in inflight[o]
     \/ p = "reaper"   /\ Reaping(o, m)}
  \cup {<<c>> : c \in {x \in Consumer : Holds(x, o, m)}}

\* An owner's copy is in one place at most: consumers, the reaper and acks
\* that cross never double it, so one visibility timeout runs for it at a time
\* (lines 88-93 against 120-127 and 101-102).
OnePlace == \A o \in Owner, m \in Msg : Cardinality(Places(o, m)) <= 1

\* Nothing but an ack or the death of a task loses a copy: once stored it is
\* somewhere until somebody asks to ack the message (lines 88-93, 120-127).
CopyKept ==
  \A m \in Msg, o \in Owner :
    store[m][o] = "stored" /\ m \notin touched /\ <<m, o>> \notin dropped
      => Places(o, m) # {}

\* The payload outlives every copy: who gets a message gets its payload,
\* unless a task carried the message while it was being acked (lines 77-81
\* against 103-107: the owners set counts the copies).
BodyKept ==
  \A m \in Msg \ raced : (\E o \in Owner : Places(o, m) # {}) => m \in body

\* An ack answered with True is final: no owner has the message any more,
\* unless a task carried it during the ack (lines 110-115).
AckIsFinal == \A m \in acked \ raced, o \in Owner : Places(o, m) = {}

\* Owner o is counted as holding a copy of m, which it does not, and no task is
\* about to give it one or to end the count.
Leftover(o, m) ==
  /\ m \in body /\ o \in copies[m]
  /\ Places(o, m) = {}
  /\ store[m][o] \in {"none", "stored"} /\ m \notin reaper[o].todo
  /\ \A a \in Acker : ack[a].msg = m =>
       /\ ack[a].at \notin {"body", "owners"}
       /\ ack[a].owner = o => ~ack[a].removed

\* Nothing cleans up behind a copy that was acked while it was ready, or was
\* lost with a task: its owner stays in q2:owners and the payload stays with
\* it, whatever acks, reapers and restarts follow (lines 101-107).
LeftoverStays ==
  [][\A m \in Msg, o \in Owner : Leftover(o, m) => Leftover(o, m)']_vars

\* A message whose visibility timeout has passed is ready again in the end, or
\* acked by somebody, or lost with a task (lines 117-129, 146-153).
ExpiredReturns ==
  \A m \in Msg, o \in Owner :
    m \in due[o] ~> m \in ready[o] \/ m \in touched \/ <<m, o>> \in dropped
=============================================================================
