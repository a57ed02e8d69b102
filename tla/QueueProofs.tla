---------------------------- MODULE QueueProofs ----------------------------
(***************************************************************************)
(* The queue for any number of nodes, owners, messages, consumers and      *)
(* acks: an owner's copy of a message is in one place at a time, and only  *)
(* an ack or the death of a task loses it.  What acks may rely on while    *)
(* other tasks run comes at the end.                                       *)
(***************************************************************************)
EXTENDS Queue, FiniteSetTheorems, TLAPS

PublishRec == [at : {"new", "busy", "done", "failed"}, node : Node \cup {None},
               i : 0 .. Len(Owners)]
ConsumeRec == [at : {"idle", "inflight", "payload"}, owner : Owner \cup {None},
               msg : Msg \cup {None}]
ReapRec    == [at : {"idle", "remove", "ready"}, todo : SUBSET Msg, msg : Msg \cup {None}]
AckRec     == [at : {"idle", "inflight", "ready", "owner", "count", "body", "owners"},
               node : Node \cup {None}, msg : Msg \cup {None},
               todo : SUBSET Owner, owner : Owner \cup {None},
               removed : BOOLEAN, any : BOOLEAN, whole : BOOLEAN]

\* The parts of the type invariant, with what every task knows of its message.
RedisOK ==
  /\ body \subseteq Msg
  /\ copies \in [Msg -> SUBSET Owner]
  /\ ready \in [Owner -> SUBSET Msg]
  /\ inflight \in [Owner -> SUBSET Msg]
  /\ due \in [Owner -> SUBSET Msg]
  /\ \A o \in Owner : due[o] \subseteq inflight[o]

PublishOK ==
  /\ publish \in [Msg -> PublishRec]
  /\ store \in [Msg -> [Owner -> {"none", "body", "owner", "ready", "stored"}]]
  /\ \A m \in Msg : publish[m].at = "busy" => publish[m].i >= 1

ConsumeOK ==
  /\ consume \in [Consumer -> ConsumeRec]
  /\ \A c \in Consumer : consume[c].at # "idle" =>
       consume[c].owner \in Owner /\ consume[c].msg \in Msg

ReaperOK ==
  /\ reaper \in [Owner -> ReapRec]
  /\ \A o \in Owner :
       /\ reaper[o].todo = {} => reaper[o] = NoReap
       /\ reaper[o].at = "ready" => reaper[o].msg \in reaper[o].todo

AckOK ==
  /\ ack \in [Acker -> AckRec]
  /\ \A a \in Acker :
       /\ ack[a].at = "idle" => ack[a] = NoAck
       /\ ack[a].at # "idle" => ack[a].msg \in touched
       /\ ack[a].at \notin {"idle", "inflight"} => ack[a].owner \in Owner

HistoryOK ==
  /\ delivered \subseteq Msg /\ acked \subseteq touched /\ touched \subseteq delivered
  /\ dropped \subseteq Msg \X Owner
  /\ restarts \in 0 .. MaxRestarts

Storing(o, m) == store[m][o] \in {"body", "owner", "ready"}

\* publish has not come to owner o yet.
Ahead(o, m) ==
  \/ publish[m].at = "new"
  \/ publish[m].at = "busy" /\ \E j \in 1 .. Len(Owners) : publish[m].i < j /\ Owners[j] = o

\* Owner o has nothing of m.
Nowhere(o, m) ==
  /\ m \notin ready[o] /\ m \notin inflight[o] /\ m \notin reaper[o].todo
  /\ \A c \in Consumer : ~Holds(c, o, m)

\* o's copy of m is in one place, is stored once, and a reaper that was told
\* to requeue it finds it in flight or not at all.
OneCopy(o, m) ==
  /\ m \in ready[o] => m \notin inflight[o] /\ m \notin reaper[o].todo
  /\ Reaping(o, m) => m \notin inflight[o]
  /\ \A c \in Consumer : Holds(c, o, m) =>
       /\ m \notin ready[o] /\ m \notin inflight[o] /\ m \notin reaper[o].todo
       /\ \A d \in Consumer : Holds(d, o, m) => d = c
  /\ Storing(o, m) => Nowhere(o, m)
  /\ Ahead(o, m) => store[m][o] = "none" /\ Nowhere(o, m)

Typed == RedisOK /\ PublishOK /\ ConsumeOK /\ ReaperOK /\ AckOK /\ HistoryOK

QueueInv ==
  /\ Typed /\ raced \subseteq touched
  /\ \A o \in Owner, m \in Msg : OneCopy(o, m)

-----------------------------------------------------------------------------
(***************************************************************************)
(* Owners, and steps that put no copy anywhere.                            *)
(***************************************************************************)

\* The list of owners names each owner once.
LEMMA OwnersListed ==
  /\ Len(Owners) \in Nat /\ Len(Owners) >= 1
  /\ \A i \in 1 .. Len(Owners) : Owners[i] \in Owner /\ Owners[i] \in Node
  /\ \A i, j \in 1 .. Len(Owners) : Owners[i] = Owners[j] => i = j
PROOF
<1>1. Owners \in Seq(Node) /\ Owners # << >>
  BY OwnersAreNodes
<1>2. Len(Owners) \in Nat /\ Len(Owners) >= 1 /\ DOMAIN Owners = 1 .. Len(Owners)
  BY <1>1
<1>3. \A i \in 1 .. Len(Owners) : Owners[i] \in Owner /\ Owners[i] \in Node
  BY <1>1, <1>2 DEF Owner, ToSet
<1> QED
  BY <1>2, <1>3, OwnersAreNodes

\* Nothing of m comes to o, and what is still ahead of o stays ahead.
NoMore(o, m) ==
  /\ m \in ready'[o] => m \in ready[o]
  /\ m \in inflight'[o] => m \in inflight[o]
  /\ m \in reaper'[o].todo => m \in reaper[o].todo
  /\ Reaping(o, m)' => Reaping(o, m)
  /\ \A c \in Consumer : Holds(c, o, m)' => Holds(c, o, m)
  /\ Storing(o, m)' => Storing(o, m)
  /\ Ahead(o, m)' => Ahead(o, m) /\ store'[m][o] \in {store[m][o], "none"}

\* A copy that goes nowhere stays one copy.
LEMMA FewerCopies ==
  ASSUME NEW o, NEW m, OneCopy(o, m), NoMore(o, m)
  PROVE  OneCopy(o, m)'
BY DEF OneCopy, NoMore, Nowhere

-----------------------------------------------------------------------------
(***************************************************************************)
(* Publishing and storing.                                                 *)
(***************************************************************************)

Preserved == Typed' /\ \A o \in Owner, m \in Msg : OneCopy(o, m)'

\* The first owner has nothing of the message yet.
LEMMA PublishStartStep ==
  ASSUME QueueInv, NEW m \in Msg, NEW n \in Node, PublishStart(m, n)
  PROVE  Preserved
PROOF
<1>1. Typed /\ \A o \in Owner, x \in Msg : OneCopy(o, x)
  BY DEF QueueInv
<1>2. /\ publish[m].at = "new"
      /\ publish' = [publish EXCEPT ![m] = [at |-> "busy", node |-> n, i |-> 1]]
      /\ store'   = [store EXCEPT ![m][Owners[1]] = "body"]
      /\ UNCHANGED <<body, copies, ready, inflight, due, consume, reaper, ack,
                     delivered, acked, restarts, touched, dropped>>
  BY DEF PublishStart, redisVars, historyVars
<1>3. Owners[1] \in Owner /\ 1 \in 0 .. Len(Owners)
  BY OwnersListed
<1>4. PublishOK'
  <2>1. publish \in [Msg -> PublishRec]
        /\ store \in [Msg -> [Owner -> {"none", "body", "owner", "ready", "stored"}]]
        /\ \A x \in Msg : publish[x].at = "busy" => publish[x].i >= 1
    BY <1>1 DEF Typed, PublishOK
  <2>2. [at |-> "busy", node |-> n, i |-> 1] \in PublishRec
    BY <1>3 DEF PublishRec
  <2>3. publish' \in [Msg -> PublishRec]
    BY <1>2, <2>1, <2>2
  <2>4. store' \in [Msg -> [Owner -> {"none", "body", "owner", "ready", "stored"}]]
    BY <1>2, <1>3, <2>1
  <2>5. \A x \in Msg : publish'[x].at = "busy" => publish'[x].i >= 1
    BY <1>2, <2>1
  <2> QED
    BY <2>3, <2>4, <2>5 DEF PublishOK
<1>5. Typed'
  BY <1>1, <1>2, <1>4 DEF Typed, RedisOK, ConsumeOK, ReaperOK, AckOK, HistoryOK
<1>6. ASSUME NEW o \in Owner, NEW x \in Msg PROVE OneCopy(o, x)'
  <2>1. OneCopy(o, x)
    BY <1>1
  <2>2. /\ publish \in [Msg -> PublishRec]
        /\ store \in [Msg -> [Owner -> {"none", "body", "owner", "ready", "stored"}]]
    BY <1>1 DEF Typed, PublishOK
  <2>3. CASE x # m
    <3>1. publish'[x] = publish[x] /\ store'[x] = store[x]
      BY <1>2, <2>2, <2>3
    <3>2. NoMore(o, x)
      BY <1>2, <3>1 DEF NoMore, Reaping, Holds, Storing, Ahead
    <3> QED
      BY <2>1, <3>2, FewerCopies
  <2>4. CASE x = m /\ o # Owners[1]
    <3>1. store'[x][o] = store[x][o]
      BY <1>2, <2>2, <2>4
    <3>2. Ahead(o, x)
      BY <1>2, <2>4 DEF Ahead
    <3>3. NoMore(o, x)
      BY <1>2, <3>1, <3>2 DEF NoMore, Reaping, Holds, Storing
    <3> QED
      BY <2>1, <3>3, FewerCopies
  <2>5. CASE x = m /\ o = Owners[1]
    <3>1. Nowhere(o, x)
      BY <1>2, <2>1, <2>5 DEF OneCopy, Ahead
    <3>2. Nowhere(o, x)'
      BY <1>2, <3>1 DEF Nowhere, Holds
    <3>3. publish'[m] = [at |-> "busy", node |-> n, i |-> 1]
      BY <1>2, <2>2
    <3>4. ~Ahead(o, x)'
      <4>1. \A j \in 1 .. Len(Owners) : Owners[j] = o => ~(1 < j)
        BY <2>5, OwnersListed
      <4> QED
        BY <2>5, <3>3, <4>1 DEF Ahead
    <3>5. ~Reaping(o, x)'
      BY <1>1, <1>2, <3>1 DEF Reaping, Nowhere, Typed, ReaperOK
    <3> QED
      BY <3>2, <3>4, <3>5 DEF OneCopy, Nowhere
  <2> QED
    BY <2>3, <2>4, <2>5
<1> QED
  BY <1>5, <1>6 DEF Preserved

\* Neither has the next one.
LEMMA PublishNextStep ==
  ASSUME QueueInv, NEW m \in Msg, PublishNext(m)
  PROVE  Preserved
PROOF
<1> PICK i : i = publish[m].i
  OBVIOUS
<1>1. /\ Typed /\ \A o \in Owner, x \in Msg : OneCopy(o, x)
      /\ publish \in [Msg -> PublishRec]
      /\ store \in [Msg -> [Owner -> {"none", "body", "owner", "ready", "stored"}]]
      /\ \A x \in Msg : publish[x].at = "busy" => publish[x].i >= 1
  BY DEF QueueInv, Typed, PublishOK
<1>2. /\ publish[m].at = "busy" /\ store[m][Owners[i]] = "stored"
      /\ UNCHANGED <<body, copies, ready, inflight, due, consume, reaper, ack,
                     delivered, acked, restarts, touched, dropped>>
  BY DEF PublishNext, redisVars, historyVars
<1>3. i \in 1 .. Len(Owners) /\ Len(Owners) \in Nat /\ publish[m] \in PublishRec
  BY <1>1, <1>2, OwnersListed DEF PublishRec
<1>4. ASSUME NEW o \in Owner, NEW x \in Msg PROVE ~Nowhere(o, x) \/ ~Reaping(o, x)
  BY <1>1 DEF Reaping, Nowhere, Typed, ReaperOK
<1>5. CASE i < Len(Owners)
  <2>1. /\ publish' = [publish EXCEPT ![m].i = i + 1]
        /\ store'   = [store EXCEPT ![m][Owners[i + 1]] = "body"]
    BY <1>5 DEF PublishNext
  <2>2. Owners[i + 1] \in Owner /\ i + 1 \in 1 .. Len(Owners) /\ i + 1 \in 0 .. Len(Owners)
    BY <1>3, <1>5, OwnersListed
  <2>3. /\ publish' = [publish EXCEPT ![m] = [publish[m] EXCEPT !.i = i + 1]]
        /\ [publish[m] EXCEPT !.i = i + 1] \in PublishRec
        /\ [publish[m] EXCEPT !.i = i + 1].i = i + 1
        /\ [publish[m] EXCEPT !.i = i + 1].at = "busy"
    BY <1>1, <1>2, <1>3, <2>1, <2>2 DEF PublishRec
  <2>4. Typed'
    <3>1. publish' \in [Msg -> PublishRec]
      BY <1>1, <2>3
    <3>2. store' \in [Msg -> [Owner -> {"none", "body", "owner", "ready", "stored"}]]
      BY <1>1, <2>1, <2>2
    <3>3. \A x \in Msg : publish'[x].at = "busy" => publish'[x].i >= 1
      BY <1>1, <1>3, <2>3
    <3>4. PublishOK'
      BY <3>1, <3>2, <3>3 DEF PublishOK
    <3> QED
      BY <1>1, <1>2, <3>4 DEF Typed, RedisOK, ConsumeOK, ReaperOK, AckOK, HistoryOK
  <2>5. ASSUME NEW o \in Owner, NEW x \in Msg PROVE OneCopy(o, x)'
    <3>1. OneCopy(o, x)
      BY <1>1
    <3>2. CASE x # m
      <4>1. publish'[x] = publish[x] /\ store'[x] = store[x]
        BY <1>1, <2>1, <3>2
      <4>2. NoMore(o, x)
        BY <1>2, <4>1 DEF NoMore, Reaping, Holds, Storing, Ahead
      <4> QED
        BY <3>1, <4>2, FewerCopies
    <3>3. CASE x = m /\ o # Owners[i + 1]
      <4>1. store'[x][o] = store[x][o]
        BY <1>1, <2>1, <3>3
      <4>2. publish'[x].at = "busy" /\ publish'[x].i = i + 1
        BY <1>1, <2>3, <3>3
      <4>3. Ahead(o, x)' => Ahead(o, x)
        BY <1>2, <1>3, <3>3, <4>2 DEF Ahead
      <4>4. NoMore(o, x)
        BY <1>2, <4>1, <4>3 DEF NoMore, Reaping, Holds, Storing
      <4> QED
        BY <3>1, <4>4, FewerCopies
    <3>4. CASE x = m /\ o = Owners[i + 1]
      <4>1. Nowhere(o, x)
        BY <1>2, <1>3, <2>2, <3>1, <3>4 DEF OneCopy, Ahead
      <4>2. Nowhere(o, x)'
        BY <1>2, <4>1 DEF Nowhere, Holds
      <4>3. publish'[x].at = "busy" /\ publish'[x].i = i + 1
        BY <1>1, <2>3, <3>4
      <4>4. ~Ahead(o, x)'
        <5>1. \A j \in 1 .. Len(Owners) : Owners[j] = o => j = i + 1
          BY <2>2, <3>4, OwnersListed
        <5> QED
          BY <1>3, <4>3, <5>1 DEF Ahead
      <4>5. ~Reaping(o, x)'
        BY <1>2, <1>4, <4>1 DEF Reaping
      <4> QED
        BY <4>2, <4>4, <4>5 DEF OneCopy, Nowhere
    <3> QED
      BY <3>2, <3>3, <3>4
  <2> QED
    BY <2>4, <2>5 DEF Preserved
<1>6. CASE ~(i < Len(Owners))
  <2>1. publish' = [publish EXCEPT ![m].at = "done"] /\ UNCHANGED store
    BY <1>6 DEF PublishNext
  <2>2. /\ publish' = [publish EXCEPT ![m] = [publish[m] EXCEPT !.at = "done"]]
        /\ [publish[m] EXCEPT !.at = "done"] \in PublishRec
        /\ [publish[m] EXCEPT !.at = "done"].at = "done"
    BY <1>1, <1>3, <2>1 DEF PublishRec
  <2>3. Typed'
    <3>1. PublishOK'
      BY <1>1, <2>1, <2>2 DEF PublishOK
    <3> QED
      BY <1>1, <1>2, <3>1 DEF Typed, RedisOK, ConsumeOK, ReaperOK, AckOK, HistoryOK
  <2>4. ASSUME NEW o \in Owner, NEW x \in Msg PROVE OneCopy(o, x)'
    <3>1. Ahead(o, x)' => Ahead(o, x)
      BY <1>1, <2>2 DEF Ahead
    <3>2. NoMore(o, x)
      BY <1>2, <2>1, <3>1 DEF NoMore, Reaping, Holds, Storing
    <3> QED
      BY <1>1, <3>2, FewerCopies
  <2> QED
    BY <2>3, <2>4 DEF Preserved
<1> QED
  BY <1>5, <1>6

\* A publish that gives up leaves what is stored.
LEMMA PublishTimesOutStep ==
  ASSUME QueueInv, NEW m \in Msg, PublishTimesOut(m)
  PROVE  Preserved
PROOF
<1>1. /\ Typed /\ \A o \in Owner, x \in Msg : OneCopy(o, x)
      /\ PublishOK /\ publish \in [Msg -> PublishRec]
  BY DEF QueueInv, Typed, PublishOK
<1>2. /\ publish' = [publish EXCEPT ![m].at = "failed"]
      /\ UNCHANGED <<body, copies, ready, inflight, due, store, consume, reaper, ack,
                     delivered, acked, restarts, touched, dropped>>
  BY DEF PublishTimesOut, redisVars, historyVars
<1>3. /\ publish' = [publish EXCEPT ![m] = [publish[m] EXCEPT !.at = "failed"]]
      /\ [publish[m] EXCEPT !.at = "failed"] \in PublishRec
      /\ [publish[m] EXCEPT !.at = "failed"].at = "failed"
  BY <1>1, <1>2 DEF PublishRec
<1>4. Typed'
  <2>1. PublishOK'
    BY <1>1, <1>2, <1>3 DEF PublishOK
  <2> QED
    BY <1>1, <1>2, <2>1 DEF Typed, RedisOK, ConsumeOK, ReaperOK, AckOK, HistoryOK
<1>5. ASSUME NEW o \in Owner, NEW x \in Msg PROVE OneCopy(o, x)'
  <2>1. Ahead(o, x)' => Ahead(o, x)
    BY <1>1, <1>3 DEF Ahead
  <2>2. NoMore(o, x)
    BY <1>2, <2>1 DEF NoMore, Reaping, Holds, Storing
  <2> QED
    BY <1>1, <2>2, FewerCopies
<1> QED
  BY <1>4, <1>5 DEF Preserved

\* An owner that stores a message has nothing of it before.
LEMMA StoreStepStep ==
  ASSUME QueueInv, NEW m \in Msg, NEW p \in Owner, StoreStep(m, p)
  PROVE  Preserved
PROOF
<1>1. /\ Typed /\ \A o \in Owner, x \in Msg : OneCopy(o, x)
      /\ RedisOK /\ PublishOK /\ ReaperOK
      /\ store \in [Msg -> [Owner -> {"none", "body", "owner", "ready", "stored"}]]
  BY DEF QueueInv, Typed, PublishOK
<1>2. /\ UNCHANGED <<inflight, due, publish, consume, reaper, ack,
                     delivered, acked, restarts, touched, dropped>>
      /\ Storing(p, m)
  BY DEF StoreStep, StoreBody, StoreOwner, StoreReady, Storing, historyVars
<1>3. PICK s \in {"owner", "ready", "stored"} :
        /\ store' = [store EXCEPT ![m][p] = s]
        /\ IF s = "stored" THEN ready' = [ready EXCEPT ![p] = @ \cup {m}]
                           ELSE UNCHANGED ready
  BY DEF StoreStep, StoreBody, StoreOwner, StoreReady
<1>4. /\ body' \in {body, body \cup {m}}
      /\ copies' \in {copies, [copies EXCEPT ![m] = @ \cup {p}]}
  BY DEF StoreStep, StoreBody, StoreOwner, StoreReady
<1>5. Typed'
  <2>1. RedisOK'
    <3>1. ready' \in [Owner -> SUBSET Msg]
      BY <1>1, <1>3 DEF RedisOK
    <3>2. copies' \in [Msg -> SUBSET Owner]
      BY <1>1, <1>4 DEF RedisOK
    <3>3. body' \subseteq Msg
      BY <1>1, <1>4 DEF RedisOK
    <3> QED
      BY <1>1, <1>2, <3>1, <3>2, <3>3 DEF RedisOK
  <2>2. PublishOK'
    <3>1. store' \in [Msg -> [Owner -> {"none", "body", "owner", "ready", "stored"}]]
      BY <1>1, <1>3
    <3> QED
      BY <1>1, <1>2, <3>1 DEF PublishOK
  <2> QED
    BY <1>1, <1>2, <2>1, <2>2 DEF Typed, ConsumeOK, ReaperOK, AckOK, HistoryOK
<1>6. ASSUME NEW o \in Owner, NEW x \in Msg PROVE OneCopy(o, x)'
  <2>1. OneCopy(o, x)
    BY <1>1
  <2>2. Ahead(o, x)' <=> Ahead(o, x)
    BY <1>2 DEF Ahead
  <2>3. CASE x # m \/ o # p
    <3>1. store'[x][o] = store[x][o] /\ (x \in ready'[o] => x \in ready[o])
      BY <1>1, <1>3, <2>3 DEF RedisOK
    <3>2. NoMore(o, x)
      BY <1>2, <2>2, <3>1 DEF NoMore, Reaping, Holds, Storing
    <3> QED
      BY <2>1, <3>2, FewerCopies
  <2>4. CASE x = m /\ o = p
    <3>1. Nowhere(o, x) /\ ~Ahead(o, x)
      BY <1>2, <2>1, <2>4 DEF OneCopy, Storing
    <3>2. ~Reaping(o, x)'
      BY <1>1, <1>2, <3>1 DEF Reaping, Nowhere, ReaperOK
    <3>3. CASE s # "stored"
      <4>1. Nowhere(o, x)'
        BY <1>2, <1>3, <3>1, <3>3 DEF Nowhere, Holds
      <4> QED
        BY <2>2, <3>1, <3>2, <4>1 DEF OneCopy, Nowhere
    <3>4. CASE s = "stored"
      <4>1. ~Storing(o, x)'
        BY <1>1, <1>3, <2>4, <3>4 DEF Storing
      <4>2. /\ x \notin inflight'[o] /\ x \notin reaper'[o].todo
            /\ \A c \in Consumer : ~Holds(c, o, x)'
        BY <1>2, <3>1 DEF Nowhere, Holds
      <4> QED
        BY <2>2, <3>1, <3>2, <4>1, <4>2 DEF OneCopy
    <3> QED
      BY <3>3, <3>4
  <2> QED
    BY <2>3, <2>4
<1> QED
  BY <1>5, <1>6 DEF Preserved

-----------------------------------------------------------------------------
(***************************************************************************)
(* Consuming and requeueing.                                               *)
(***************************************************************************)

\* A popped message was nowhere but in ready.
LEMMA ConsumePopStep ==
  ASSUME QueueInv, NEW c \in Consumer, NEW p \in Owner, ConsumePop(c, p)
  PROVE  Preserved
PROOF
<1>1. /\ Typed /\ \A o \in Owner, x \in Msg : OneCopy(o, x)
      /\ RedisOK /\ ConsumeOK /\ ReaperOK
  BY DEF QueueInv, Typed
<1>2. PICK m \in ready[p] :
        /\ ready'   = [ready EXCEPT ![p] = @ \ {m}]
        /\ consume' = [consume EXCEPT ![c] = [at |-> "inflight", owner |-> p, msg |-> m]]
  BY DEF ConsumePop
<1>3. UNCHANGED <<body, copies, inflight, due, publish, store, reaper, ack,
                  delivered, acked, restarts, touched, dropped>>
  BY DEF ConsumePop, historyVars
<1>4. m \in Msg
  BY <1>1 DEF RedisOK
<1>5. Typed'
  <2>1. RedisOK'
    BY <1>1, <1>2, <1>3 DEF RedisOK
  <2>2. ConsumeOK'
    <3>1. [at |-> "inflight", owner |-> p, msg |-> m] \in ConsumeRec
      BY <1>4 DEF ConsumeRec
    <3>2. consume' \in [Consumer -> ConsumeRec]
      BY <1>1, <1>2, <3>1 DEF ConsumeOK
    <3> QED
      BY <1>1, <1>2, <1>4, <3>2 DEF ConsumeOK
  <2> QED
    BY <1>1, <1>3, <2>1, <2>2 DEF Typed, PublishOK, ReaperOK, AckOK, HistoryOK
<1>6. ASSUME NEW o \in Owner, NEW x \in Msg PROVE OneCopy(o, x)'
  <2>1. OneCopy(o, x)
    BY <1>1
  <2>2. \A d \in Consumer : Holds(d, o, x)' => Holds(d, o, x) \/ (d = c /\ o = p /\ x = m)
    BY <1>1, <1>2 DEF Holds, ConsumeOK
  <2>3. (Ahead(o, x)' <=> Ahead(o, x)) /\ (Storing(o, x)' <=> Storing(o, x))
    BY <1>3 DEF Ahead, Storing
  <2>4. CASE x # m \/ o # p
    <3>1. x \in ready'[o] => x \in ready[o]
      BY <1>1, <1>2 DEF RedisOK
    <3>2. NoMore(o, x)
      BY <1>3, <2>2, <2>3, <2>4, <3>1 DEF NoMore, Reaping
    <3> QED
      BY <2>1, <3>2, FewerCopies
  <2>5. CASE x = m /\ o = p
    <3>1. /\ x \notin inflight[o] /\ x \notin reaper[o].todo
          /\ \A d \in Consumer : ~Holds(d, o, x)
      BY <2>1, <2>5 DEF OneCopy
    <3>2. ~Storing(o, x) /\ ~Ahead(o, x)
      BY <2>1, <2>5 DEF OneCopy, Nowhere
    <3>3. x \notin ready'[o]
      BY <1>1, <1>2, <2>5 DEF RedisOK
    <3>4. ~Reaping(o, x)'
      BY <1>1, <1>3, <3>1 DEF Reaping, ReaperOK
    <3> QED
      BY <1>3, <2>2, <2>3, <3>1, <3>2, <3>3, <3>4 DEF OneCopy
  <2> QED
    BY <2>4, <2>5
<1> QED
  BY <1>5, <1>6 DEF Preserved

\* What a consumer holds comes to be in flight.
LEMMA ConsumeInflightStep ==
  ASSUME QueueInv, NEW c \in Consumer, ConsumeInflight(c)
  PROVE  Preserved
PROOF
<1> PICK p : p = consume[c].owner
  OBVIOUS
<1> PICK m : m = consume[c].msg
  OBVIOUS
<1>1. /\ Typed /\ \A o \in Owner, x \in Msg : OneCopy(o, x)
      /\ RedisOK /\ ConsumeOK /\ ReaperOK
  BY DEF QueueInv, Typed
<1>2. /\ consume[c].at = "inflight"
      /\ inflight' = [inflight EXCEPT ![p] = @ \cup {m}]
      /\ due'      = [due EXCEPT ![p] = @ \ {m}]
      /\ consume'  = [consume EXCEPT ![c].at = "payload"]
      /\ UNCHANGED <<body, copies, ready, publish, store, reaper, ack,
                     delivered, acked, restarts, touched, dropped>>
  BY DEF ConsumeInflight, historyVars
<1>3. p \in Owner /\ m \in Msg /\ consume[c] \in ConsumeRec
  BY <1>1, <1>2 DEF ConsumeOK
<1>4. Holds(c, p, m)
  BY <1>2, <1>3 DEF Holds, ConsumeRec
<1>5. /\ consume' = [consume EXCEPT ![c] = [consume[c] EXCEPT !.at = "payload"]]
      /\ [consume[c] EXCEPT !.at = "payload"] \in ConsumeRec
      /\ [consume[c] EXCEPT !.at = "payload"].at = "payload"
      /\ [consume[c] EXCEPT !.at = "payload"].owner = p
      /\ [consume[c] EXCEPT !.at = "payload"].msg = m
  BY <1>1, <1>2, <1>3 DEF ConsumeOK, ConsumeRec
<1>6. Typed'
  <2>1. RedisOK'
    <3>1. inflight' \in [Owner -> SUBSET Msg] /\ due' \in [Owner -> SUBSET Msg]
      BY <1>1, <1>2, <1>3 DEF RedisOK
    <3>2. \A o \in Owner : due'[o] \subseteq inflight'[o]
      BY <1>1, <1>2, <1>3 DEF RedisOK
    <3> QED
      BY <1>1, <1>2, <3>1, <3>2 DEF RedisOK
  <2>2. ConsumeOK'
    BY <1>1, <1>3, <1>5 DEF ConsumeOK
  <2> QED
    BY <1>1, <1>2, <2>1, <2>2 DEF Typed, PublishOK, ReaperOK, AckOK, HistoryOK
<1>7. ASSUME NEW o \in Owner, NEW x \in Msg PROVE OneCopy(o, x)'
  <2>1. OneCopy(o, x)
    BY <1>1
  <2>2. \A d \in Consumer : Holds(d, o, x)' => Holds(d, o, x) /\ d # c
    BY <1>1, <1>5 DEF Holds, ConsumeOK
  <2>3. (Ahead(o, x)' <=> Ahead(o, x)) /\ (Storing(o, x)' <=> Storing(o, x))
    BY <1>2 DEF Ahead, Storing
  <2>4. CASE x # m \/ o # p
    <3>1. x \in inflight'[o] => x \in inflight[o]
      BY <1>1, <1>2, <2>4 DEF RedisOK
    <3>2. NoMore(o, x)
      BY <1>2, <2>2, <2>3, <3>1 DEF NoMore, Reaping
    <3> QED
      BY <2>1, <3>2, FewerCopies
  <2>5. CASE x = m /\ o = p
    <3>1. /\ x \notin ready[o] /\ x \notin reaper[o].todo
          /\ \A d \in Consumer : Holds(d, o, x) => d = c
      BY <1>4, <2>1, <2>5 DEF OneCopy
    <3>2. ~Storing(o, x) /\ ~Ahead(o, x)
      BY <1>4, <2>1, <2>5 DEF OneCopy, Nowhere
    <3>3. ~Reaping(o, x)'
      BY <1>1, <1>2, <3>1 DEF Reaping, ReaperOK
    <3> QED
      BY <1>2, <2>2, <2>3, <3>1, <3>2, <3>3 DEF OneCopy
  <2> QED
    BY <2>4, <2>5
<1> QED
  BY <1>6, <1>7 DEF Preserved

\* The reply changes nothing in the queue.
LEMMA ConsumeReplyStep ==
  ASSUME QueueInv, NEW c \in Consumer, ConsumeReply(c)
  PROVE  Preserved
PROOF
<1>1. /\ Typed /\ \A o \in Owner, x \in Msg : OneCopy(o, x)
      /\ ConsumeOK /\ HistoryOK
  BY DEF QueueInv, Typed
<1>2. /\ consume[c].at = "payload"
      /\ consume' = [consume EXCEPT ![c] = NoConsume]
      /\ delivered' \in {delivered, delivered \cup {consume[c].msg}}
      /\ UNCHANGED <<body, copies, ready, inflight, due, publish, store, reaper, ack,
                     acked, restarts, touched, dropped>>
  BY DEF ConsumeReply, redisVars, historyVars
<1>3. consume[c].msg \in Msg
  BY <1>1, <1>2 DEF ConsumeOK
<1>4. NoConsume \in ConsumeRec /\ NoConsume.at = "idle"
  BY DEF NoConsume, ConsumeRec
<1>5. Typed'
  <2>1. ConsumeOK'
    BY <1>1, <1>2, <1>4 DEF ConsumeOK
  <2>2. HistoryOK'
    BY <1>1, <1>2, <1>3 DEF HistoryOK
  <2> QED
    BY <1>1, <1>2, <2>1, <2>2 DEF Typed, RedisOK, PublishOK, ReaperOK, AckOK
<1>6. ASSUME NEW o \in Owner, NEW x \in Msg PROVE OneCopy(o, x)'
  <2>1. \A d \in Consumer : Holds(d, o, x)' => Holds(d, o, x)
    BY <1>1, <1>2, <1>4 DEF Holds, ConsumeOK
  <2>2. NoMore(o, x)
    BY <1>2, <2>1 DEF NoMore, Reaping, Storing, Ahead
  <2> QED
    BY <1>1, <2>2, FewerCopies
<1> QED
  BY <1>5, <1>6 DEF Preserved

\* A deadline changes only what the reaper will see.
LEMMA DeadlineStep ==
  ASSUME QueueInv, NEW p \in Owner, NEW m \in Msg, DeadlinePasses(p, m)
  PROVE  Preserved
PROOF
<1>1. Typed /\ RedisOK /\ \A o \in Owner, x \in Msg : OneCopy(o, x)
  BY DEF QueueInv, Typed
<1>2. /\ m \in inflight[p]
      /\ due' = [due EXCEPT ![p] = @ \cup {m}]
      /\ UNCHANGED <<body, copies, ready, inflight, publish, store, consume, reaper, ack,
                     delivered, acked, restarts, touched, dropped>>
  BY DEF DeadlinePasses, taskVars, historyVars
<1>3. RedisOK'
  <2>1. due' \in [Owner -> SUBSET Msg]
    BY <1>1, <1>2 DEF RedisOK
  <2>2. \A o \in Owner : due'[o] \subseteq inflight'[o]
    BY <1>1, <1>2 DEF RedisOK
  <2> QED
    BY <1>1, <1>2, <2>1, <2>2 DEF RedisOK
<1>4. Typed'
  BY <1>1, <1>2, <1>3 DEF Typed, PublishOK, ConsumeOK, ReaperOK, AckOK, HistoryOK
<1>5. ASSUME NEW o \in Owner, NEW x \in Msg PROVE OneCopy(o, x)'
  <2>1. NoMore(o, x)
    BY <1>2 DEF NoMore, Reaping, Storing, Ahead, Holds
  <2> QED
    BY <1>1, <2>1, FewerCopies
<1> QED
  BY <1>4, <1>5 DEF Preserved

\* What the reaper is told to requeue is in flight.
LEMMA ReapScanStep ==
  ASSUME QueueInv, NEW p \in Owner, ReapScan(p),
         UNCHANGED <<publish, store, consume, ack, delivered, acked, restarts, historyVars>>
  PROVE  Preserved
PROOF
<1>1. /\ Typed /\ RedisOK /\ ReaperOK /\ reaper \in [Owner -> ReapRec]
      /\ \A o \in Owner, x \in Msg : OneCopy(o, x)
  BY DEF QueueInv, Typed, ReaperOK
<1> PICK r : r = [at |-> "remove", todo |-> due[p], msg |-> None]
  OBVIOUS
<1>2. /\ due[p] # {}
      /\ reaper' = [reaper EXCEPT ![p] = r]
      /\ UNCHANGED <<body, copies, ready, inflight, due, touched, dropped>>
  BY DEF ReapScan, SomeExpired, redisVars, historyVars
<1>3. due[p] \subseteq Msg /\ due[p] \subseteq inflight[p]
  BY <1>1 DEF RedisOK
<1>4. r \in ReapRec /\ r.at = "remove" /\ r.todo = due[p]
  BY <1>3 DEF ReapRec
<1>5. Typed'
  <2>1. ReaperOK'
    BY <1>1, <1>2, <1>4 DEF ReaperOK
  <2> QED
    BY <1>1, <1>2, <2>1 DEF Typed, RedisOK, PublishOK, ConsumeOK, AckOK, HistoryOK
<1>6. ASSUME NEW o \in Owner, NEW x \in Msg PROVE OneCopy(o, x)'
  <2>1. OneCopy(o, x)
    BY <1>1
  <2>2. /\ (Ahead(o, x)' <=> Ahead(o, x)) /\ (Storing(o, x)' <=> Storing(o, x))
        /\ \A d \in Consumer : Holds(d, o, x)' <=> Holds(d, o, x)
    BY DEF Ahead, Storing, Holds
  <2>3. CASE o # p
    <3>1. reaper'[o] = reaper[o]
      BY <1>1, <1>2, <2>3
    <3>2. NoMore(o, x)
      BY <1>2, <2>2, <3>1 DEF NoMore, Reaping
    <3> QED
      BY <2>1, <3>2, FewerCopies
  <2>4. CASE o = p
    <3>1. reaper'[o] = r
      BY <1>1, <1>2, <2>4
    <3>2. ~Reaping(o, x)'
      BY <1>4, <3>1 DEF Reaping
    <3>3. CASE x \notin due[p]
      <4>1. NoMore(o, x)
        BY <1>2, <1>4, <2>2, <3>1, <3>2, <3>3 DEF NoMore
      <4> QED
        BY <2>1, <4>1, FewerCopies
    <3>4. CASE x \in due[p]
      <4>1. x \in inflight[o]
        BY <1>3, <2>4, <3>4
      <4>2. x \notin ready[o] /\ ~Storing(o, x) /\ ~Ahead(o, x)
        BY <2>1, <4>1 DEF OneCopy, Nowhere
      <4>3. \A d \in Consumer : ~Holds(d, o, x)
        BY <2>1, <4>1 DEF OneCopy
      <4> QED
        BY <1>2, <2>2, <3>2, <4>2, <4>3 DEF OneCopy
    <3> QED
      BY <3>3, <3>4
  <2> QED
    BY <2>3, <2>4
<1> QED
  BY <1>5, <1>6 DEF Preserved

\* The reaper takes a copy that is in flight, or none.
LEMMA ReapRemoveStep ==
  ASSUME QueueInv, NEW p \in Owner, NEW m \in Msg, ReapRemove(p, m),
         UNCHANGED <<publish, store, consume, ack, delivered, acked, restarts, historyVars>>
  PROVE  Preserved
PROOF
<1>1. /\ Typed /\ RedisOK /\ ReaperOK /\ reaper \in [Owner -> ReapRec]
      /\ \A o \in Owner, x \in Msg : OneCopy(o, x)
  BY DEF QueueInv, Typed, ReaperOK
<1> PICK r : r = [reaper[p] EXCEPT !.at = "ready", !.msg = m]
  OBVIOUS
<1>2. /\ m \in reaper[p].todo
      /\ inflight' = [inflight EXCEPT ![p] = @ \ {m}]
      /\ due'      = [due EXCEPT ![p] = @ \ {m}]
      /\ reaper'   = [reaper EXCEPT ![p].at = "ready", ![p].msg = m]
      /\ UNCHANGED <<body, copies, ready, touched, dropped>>
  BY DEF ReapRemove, DropInflight, historyVars
<1>3. reaper[p] \in ReapRec
  BY <1>1
<1>4. /\ r \in ReapRec /\ r.at = "ready" /\ r.todo = reaper[p].todo /\ r.msg = m
      /\ reaper' = [reaper EXCEPT ![p] = r]
  BY <1>1, <1>2, <1>3 DEF ReapRec
<1>5. Typed'
  <2>1. ReaperOK'
    BY <1>1, <1>2, <1>4 DEF ReaperOK
  <2>2. RedisOK'
    <3>1. inflight' \in [Owner -> SUBSET Msg] /\ due' \in [Owner -> SUBSET Msg]
      BY <1>1, <1>2 DEF RedisOK
    <3>2. \A o \in Owner : due'[o] \subseteq inflight'[o]
      BY <1>1, <1>2 DEF RedisOK
    <3> QED
      BY <1>1, <1>2, <3>1, <3>2 DEF RedisOK
  <2> QED
    BY <1>1, <1>2, <2>1, <2>2 DEF Typed, PublishOK, ConsumeOK, AckOK, HistoryOK
<1>6. ASSUME NEW o \in Owner, NEW x \in Msg PROVE OneCopy(o, x)'
  <2>1. OneCopy(o, x)
    BY <1>1
  <2>2. /\ (Ahead(o, x)' <=> Ahead(o, x)) /\ (Storing(o, x)' <=> Storing(o, x))
        /\ \A d \in Consumer : Holds(d, o, x)' <=> Holds(d, o, x)
    BY DEF Ahead, Storing, Holds
  <2>3. CASE o # p
    <3>1. reaper'[o] = reaper[o] /\ inflight'[o] = inflight[o]
      BY <1>1, <1>2, <1>4, <2>3 DEF RedisOK
    <3>2. NoMore(o, x)
      BY <1>2, <2>2, <3>1 DEF NoMore, Reaping
    <3> QED
      BY <2>1, <3>2, FewerCopies
  <2>4. CASE o = p /\ x # m
    <3>1. reaper'[o] = r /\ (x \in inflight'[o] => x \in inflight[o])
      BY <1>1, <1>2, <1>4, <2>4 DEF RedisOK
    <3>2. NoMore(o, x)
      BY <1>2, <1>4, <2>2, <2>4, <3>1 DEF NoMore, Reaping
    <3> QED
      BY <2>1, <3>2, FewerCopies
  <2>5. CASE o = p /\ x = m
    <3>1. x \notin inflight'[o]
      BY <1>1, <1>2, <2>5 DEF RedisOK
    <3>2. x \notin ready[o] /\ ~Storing(o, x) /\ ~Ahead(o, x)
      BY <1>2, <2>1, <2>5 DEF OneCopy, Nowhere
    <3>3. \A d \in Consumer : ~Holds(d, o, x)
      BY <1>2, <2>1, <2>5 DEF OneCopy
    <3> QED
      BY <1>2, <2>2, <3>1, <3>2, <3>3 DEF OneCopy
  <2> QED
    BY <2>3, <2>4, <2>5
<1> QED
  BY <1>5, <1>6 DEF Preserved

\* What the reaper has taken comes to be ready.
LEMMA ReapReadyStep ==
  ASSUME QueueInv, NEW p \in Owner, ReapReady(p),
         UNCHANGED <<publish, store, consume, ack, delivered, acked, restarts, historyVars>>
  PROVE  Preserved
PROOF
<1>1. /\ Typed /\ RedisOK /\ ReaperOK /\ reaper \in [Owner -> ReapRec]
      /\ \A o \in Owner, x \in Msg : OneCopy(o, x)
  BY DEF QueueInv, Typed, ReaperOK
<1> PICK m : m = reaper[p].msg
  OBVIOUS
<1> PICK left : left = reaper[p].todo \ {m}
  OBVIOUS
<1> PICK r : r = IF left = {} THEN NoReap ELSE [at |-> "remove", todo |-> left, msg |-> None]
  OBVIOUS
<1>2. /\ reaper[p].at = "ready"
      /\ ready'  = [ready EXCEPT ![p] = @ \cup {m}]
      /\ reaper' = [reaper EXCEPT ![p] = r]
      /\ UNCHANGED <<body, copies, inflight, due, touched, dropped>>
  BY DEF ReapReady, Requeued, historyVars
<1>3. /\ m \in reaper[p].todo /\ reaper[p].todo \subseteq Msg /\ m \in Msg
      /\ Reaping(p, m)
  BY <1>1, <1>2 DEF ReaperOK, ReapRec, Reaping
<1>4. r \in ReapRec /\ r.at # "ready" /\ r.todo = left /\ (left = {} => r = NoReap)
  BY <1>3 DEF ReapRec, NoReap
<1>5. Typed'
  <2>1. ReaperOK'
    BY <1>1, <1>2, <1>4 DEF ReaperOK
  <2>2. RedisOK'
    BY <1>1, <1>2, <1>3 DEF RedisOK
  <2> QED
    BY <1>1, <1>2, <2>1, <2>2 DEF Typed, PublishOK, ConsumeOK, AckOK, HistoryOK
<1>6. ASSUME NEW o \in Owner, NEW x \in Msg PROVE OneCopy(o, x)'
  <2>1. OneCopy(o, x)
    BY <1>1
  <2>2. /\ (Ahead(o, x)' <=> Ahead(o, x)) /\ (Storing(o, x)' <=> Storing(o, x))
        /\ \A d \in Consumer : Holds(d, o, x)' <=> Holds(d, o, x)
    BY DEF Ahead, Storing, Holds
  <2>3. CASE o # p
    <3>1. reaper'[o] = reaper[o] /\ ready'[o] = ready[o]
      BY <1>1, <1>2, <2>3 DEF RedisOK
    <3>2. NoMore(o, x)
      BY <1>2, <2>2, <3>1 DEF NoMore, Reaping
    <3> QED
      BY <2>1, <3>2, FewerCopies
  <2>4. CASE o = p /\ x # m
    <3>1. reaper'[o] = r /\ (x \in ready'[o] => x \in ready[o])
      BY <1>1, <1>2, <2>4 DEF RedisOK
    <3>2. NoMore(o, x)
      BY <1>2, <1>4, <2>2, <2>4, <3>1 DEF NoMore, Reaping
    <3> QED
      BY <2>1, <3>2, FewerCopies
  <2>5. CASE o = p /\ x = m
    <3>1. reaper'[o] = r
      BY <1>1, <1>2, <2>5
    <3>2. x \notin inflight[o] /\ ~Storing(o, x) /\ ~Ahead(o, x)
      BY <1>3, <2>1, <2>5 DEF OneCopy, Nowhere
    <3>3. \A d \in Consumer : ~Holds(d, o, x)
      BY <1>3, <2>1, <2>5 DEF OneCopy
    <3>4. x \notin reaper'[o].todo /\ ~Reaping(o, x)'
      BY <1>4, <2>5, <3>1 DEF Reaping
    <3> QED
      BY <1>2, <2>2, <3>2, <3>3, <3>4 DEF OneCopy
  <2> QED
    BY <2>3, <2>4, <2>5
<1> QED
  BY <1>5, <1>6 DEF Preserved

-----------------------------------------------------------------------------
(***************************************************************************)
(* Acks and restarts.                                                      *)
(***************************************************************************)

\* Redis keeps at most what it has of every copy.
Shrinking ==
  \A o \in Owner, x \in Msg :
    /\ x \in ready'[o] => x \in ready[o]
    /\ x \in inflight'[o] => x \in inflight[o]

\* An ack only takes copies away.
LEMMA AckCopies ==
  ASSUME QueueInv, UNCHANGED <<publish, store, consume, reaper>>, Shrinking
  PROVE  \A o \in Owner, m \in Msg : OneCopy(o, m)'
PROOF
<1> SUFFICES ASSUME NEW o \in Owner, NEW m \in Msg PROVE OneCopy(o, m)'
  OBVIOUS
<1>1. OneCopy(o, m)
  BY DEF QueueInv
<1>2. NoMore(o, m)
  BY DEF NoMore, Reaping, Storing, Ahead, Holds, Shrinking
<1> QED
  BY <1>1, <1>2, FewerCopies

\* A new ack is for a message that was delivered.
LEMMA StartAckStep ==
  ASSUME QueueInv, NEW a \in Acker, NEW n \in Node, NEW m \in Msg,
         AckAny(a, n, m) \/ AckOwnerInternal(a, n, m)
  PROVE  Preserved
PROOF
<1>1. Typed /\ AckOK /\ HistoryOK /\ RedisOK
  BY DEF QueueInv, Typed
<1>2. PICK targets \in SUBSET Owner, whole \in BOOLEAN : StartAck(a, n, m, targets, whole)
  <2>1. CASE AckAny(a, n, m)
    BY <1>1, <2>1 DEF AckAny, RedisOK
  <2>2. CASE AckOwnerInternal(a, n, m)
    BY <2>2 DEF AckOwnerInternal
  <2> QED
    BY <2>1, <2>2
<1> PICK k : k = [NoAck EXCEPT !.at = "inflight", !.node = n, !.msg = m,
                               !.todo = targets, !.whole = whole]
  OBVIOUS
<1>3. /\ m \in delivered
      /\ ack' = [ack EXCEPT ![a] = k]
      /\ touched' = touched \cup {m}
      /\ UNCHANGED <<body, copies, ready, inflight, due, publish, store, consume, reaper,
                     delivered, acked, restarts, dropped>>
  BY <1>2 DEF StartAck, redisVars
<1>4. k \in AckRec /\ k.at = "inflight" /\ k.msg = m
  BY DEF NoAck, AckRec
<1>5. Typed'
  <2>1. AckOK'
    BY <1>1, <1>3, <1>4 DEF AckOK
  <2>2. HistoryOK'
    BY <1>1, <1>3 DEF HistoryOK
  <2> QED
    BY <1>1, <1>3, <2>1, <2>2 DEF Typed, RedisOK, PublishOK, ConsumeOK, ReaperOK
<1>6. Shrinking
  BY <1>3 DEF Shrinking
<1> QED
  BY <1>3, <1>5, <1>6, AckCopies DEF Preserved

\* An ack that goes on keeps its message, and says True of no other.
LEMMA AckGoesOn ==
  ASSUME AckOK, HistoryOK, NEW a \in Acker, ack[a].at # "idle",
         \/ NextOwner(a)
         \/ /\ \E at \in {"ready", "owner", "count", "body", "owners"},
                  o \in Owner, removed \in BOOLEAN :
                  \/ ack' = [ack EXCEPT ![a].at = at, ![a].owner = o, ![a].removed = removed]
                  \/ ack[a].at # "inflight" /\ ack' = [ack EXCEPT ![a].at = at]
            /\ UNCHANGED acked,
         UNCHANGED <<touched, delivered, restarts, dropped>>
  PROVE  AckOK' /\ HistoryOK'
PROOF
<1>1. ack \in [Acker -> AckRec] /\ ack[a] \in AckRec /\ ack[a].msg \in touched
  BY DEF AckOK
<1>2. ASSUME NEW k \in AckRec, ack' = [ack EXCEPT ![a] = k],
             k.at = "idle" => k = NoAck, k.at # "idle" => k.msg \in touched,
             k.at \notin {"idle", "inflight"} => k.owner \in Owner
      PROVE  AckOK'
  BY <1>1, <1>2 DEF AckOK
<1>3. HistoryOK'
  <2>1. acked' \subseteq acked \cup {ack[a].msg}
    BY DEF NextOwner
  <2> QED
    BY <1>1, <2>1 DEF HistoryOK
<1>4. CASE NextOwner(a)
  <2> PICK left : left = ack[a].todo \ {ack[a].owner}
    OBVIOUS
  <2> PICK any : any = (ack[a].any \/ ack[a].removed)
    OBVIOUS
  <2>1. CASE left # {}
    <3> PICK k : k = [ack[a] EXCEPT !.at = "inflight", !.todo = left, !.any = any]
      OBVIOUS
    <3>1. ack' = [ack EXCEPT ![a] = k]
      <4>1. ack' = [ack EXCEPT ![a].at = "inflight", ![a].todo = left, ![a].any = any]
        BY <1>4, <2>1, Zenon DEF NextOwner
      <4> QED
        BY <1>1, <4>1
    <3>2. k \in AckRec /\ k.at = "inflight" /\ k.msg = ack[a].msg
      BY <1>1 DEF AckRec
    <3> QED
      BY <1>1, <1>2, <1>3, <3>1, <3>2
  <2>2. CASE left = {}
    <3>1. ack' = [ack EXCEPT ![a] = NoAck]
      BY <1>4, <2>2 DEF NextOwner
    <3>2. NoAck \in AckRec /\ NoAck.at = "idle"
      BY DEF NoAck, AckRec
    <3> QED
      BY <1>2, <1>3, <3>1, <3>2
  <2> QED
    BY <2>1, <2>2
<1>5. ASSUME NEW at \in {"ready", "owner", "count", "body", "owners"}, NEW o \in Owner,
             NEW removed \in BOOLEAN,
             ack' = [ack EXCEPT ![a].at = at, ![a].owner = o, ![a].removed = removed]
      PROVE  AckOK'
  <2> PICK k : k = [ack[a] EXCEPT !.at = at, !.owner = o, !.removed = removed]
    OBVIOUS
  <2>1. ack' = [ack EXCEPT ![a] = k]
    BY <1>1, <1>5
  <2>2. k \in AckRec /\ k.at = at /\ k.msg = ack[a].msg /\ k.owner = o
    BY <1>1 DEF AckRec
  <2> QED
    BY <1>1, <1>2, <2>1, <2>2
<1>6. ASSUME NEW at \in {"ready", "owner", "count", "body", "owners"}, ack[a].at # "inflight",
             ack' = [ack EXCEPT ![a].at = at]
      PROVE  AckOK'
  <2> PICK k : k = [ack[a] EXCEPT !.at = at]
    OBVIOUS
  <2>1. ack' = [ack EXCEPT ![a] = k]
    BY <1>1, <1>6
  <2>2. k \in AckRec /\ k.at = at /\ k.msg = ack[a].msg /\ k.owner = ack[a].owner
    BY <1>1 DEF AckRec
  <2>3. ack[a].owner \in Owner
    BY <1>6 DEF AckOK
  <2> QED
    BY <1>1, <1>2, <2>1, <2>2, <2>3
<1> QED
  BY <1>3, <1>4, <1>5, <1>6

\* An ack takes copies, owners and the payload away.
LEMMA AckStepStep ==
  ASSUME QueueInv, NEW a \in Acker, AckStep(a)
  PROVE  Preserved
PROOF
<1>1. /\ Typed /\ AckOK /\ HistoryOK /\ RedisOK /\ ack[a] \in AckRec
  BY DEF QueueInv, Typed, AckOK
<1>2. UNCHANGED <<publish, store, consume, reaper, delivered, restarts, touched, dropped>>
  BY DEF AckStep, historyVars
<1>3. ASSUME RedisOK', Shrinking, AckOK', HistoryOK' PROVE Preserved
  BY <1>1, <1>2, <1>3, AckCopies DEF Preserved, Typed, PublishOK, ConsumeOK, ReaperOK
<1>4. ASSUME NEW o \in Owner, AckInflight(a, o) PROVE Preserved
  <2> PICK m : m = ack[a].msg
    OBVIOUS
  <2>1. /\ ack[a].at = "inflight"
        /\ inflight' = [inflight EXCEPT ![o] = @ \ {m}]
        /\ due'      = [due EXCEPT ![o] = @ \ {m}]
        /\ ack'      = [ack EXCEPT ![a].at = "ready", ![a].owner = o,
                                   ![a].removed = (m \in inflight[o])]
        /\ UNCHANGED <<body, copies, ready, acked>>
    BY <1>4 DEF AckInflight
  <2>2. RedisOK' /\ Shrinking
    <3>1. inflight' \in [Owner -> SUBSET Msg] /\ due' \in [Owner -> SUBSET Msg]
      BY <1>1, <2>1 DEF RedisOK
    <3>2. \A p \in Owner : due'[p] \subseteq inflight'[p]
      BY <1>1, <2>1 DEF RedisOK
    <3> QED
      BY <1>1, <2>1, <3>1, <3>2 DEF RedisOK, Shrinking
  <2>3. AckOK' /\ HistoryOK'
    <3>1. (m \in inflight[o]) \in BOOLEAN
      OBVIOUS
    <3> QED
      BY <1>1, <1>2, <2>1, <3>1, AckGoesOn
  <2> QED
    BY <1>3, <2>2, <2>3
<1>5. CASE AckReady(a)
  <2>1. /\ ack[a].at = "ready" /\ ack[a].owner \in Owner
        /\ ready' = [ready EXCEPT ![ack[a].owner] = @ \ {ack[a].msg}]
        /\ \/ ack' = [ack EXCEPT ![a].at = "owner"] /\ UNCHANGED acked
           \/ NextOwner(a)
        /\ UNCHANGED <<body, copies, inflight, due>>
    BY <1>1, <1>5 DEF AckReady, LeaveReady, AckOK
  <2>2. RedisOK' /\ Shrinking
    BY <1>1, <2>1 DEF RedisOK, Shrinking
  <2>3. AckOK' /\ HistoryOK'
    BY <1>1, <1>2, <2>1, AckGoesOn
  <2> QED
    BY <1>3, <2>2, <2>3
<1>6. CASE AckOwner(a)
  <2>1. /\ ack[a].at = "owner" /\ ack[a].owner \in Owner
        /\ copies' = [copies EXCEPT ![ack[a].msg] = @ \ {ack[a].owner}]
        /\ ack' = [ack EXCEPT ![a].at = "count"]
        /\ UNCHANGED <<body, ready, inflight, due, acked>>
    BY <1>1, <1>6 DEF AckOwner, AckOK
  <2>2. RedisOK' /\ Shrinking
    BY <1>1, <2>1 DEF RedisOK, Shrinking
  <2>3. AckOK' /\ HistoryOK'
    BY <1>1, <1>2, <2>1, AckGoesOn
  <2> QED
    BY <1>3, <2>2, <2>3
<1>7. CASE AckCount(a)
  <2>1. /\ ack[a].at = "count" /\ ack[a].owner \in Owner
        /\ \/ ack' = [ack EXCEPT ![a].at = "body"] /\ UNCHANGED acked
           \/ NextOwner(a)
        /\ UNCHANGED <<body, copies, ready, inflight, due>>
    BY <1>1, <1>7 DEF AckCount, AckOK, redisVars
  <2>2. RedisOK' /\ Shrinking
    BY <1>1, <2>1 DEF RedisOK, Shrinking
  <2>3. AckOK' /\ HistoryOK'
    BY <1>1, <1>2, <2>1, AckGoesOn
  <2> QED
    BY <1>3, <2>2, <2>3
<1>8. CASE AckBody(a)
  <2>1. /\ ack[a].at = "body" /\ ack[a].owner \in Owner
        /\ body' = body \ {ack[a].msg}
        /\ ack' = [ack EXCEPT ![a].at = "owners"]
        /\ UNCHANGED <<copies, ready, inflight, due, acked>>
    BY <1>1, <1>8 DEF AckBody, AckOK
  <2>2. RedisOK' /\ Shrinking
    BY <1>1, <2>1 DEF RedisOK, Shrinking
  <2>3. AckOK' /\ HistoryOK'
    BY <1>1, <1>2, <2>1, AckGoesOn
  <2> QED
    BY <1>3, <2>2, <2>3
<1>9. CASE AckOwners(a)
  <2>1. /\ ack[a].at = "owners" /\ ack[a].owner \in Owner
        /\ copies' = [copies EXCEPT ![ack[a].msg] = {}]
        /\ NextOwner(a)
        /\ UNCHANGED <<body, ready, inflight, due>>
    BY <1>1, <1>9 DEF AckOwners, AckOK
  <2>2. RedisOK' /\ Shrinking
    BY <1>1, <2>1 DEF RedisOK, Shrinking
  <2>3. AckOK' /\ HistoryOK'
    BY <1>1, <1>2, <2>1, AckGoesOn
  <2> QED
    BY <1>3, <2>2, <2>3
<1> QED
  BY <1>4, <1>5, <1>6, <1>7, <1>8, <1>9 DEF AckStep

\* The tasks of a node end, and the copies they carry with them.
LEMMA RestartStep ==
  ASSUME QueueInv, NEW n \in Node, Restart(n)
  PROVE  Preserved
PROOF
<1>1. /\ Typed /\ \A o \in Owner, x \in Msg : OneCopy(o, x)
      /\ RedisOK /\ PublishOK /\ ConsumeOK /\ ReaperOK /\ AckOK /\ HistoryOK
  BY DEF QueueInv, Typed
<1>2. /\ restarts < MaxRestarts /\ restarts' = restarts + 1
      /\ dropped' = dropped \cup
           {x \in Msg \X (Owner \cap {n}) :
              Reaping(x[2], x[1]) \/ \E c \in Consumer : Holds(c, x[2], x[1])}
      /\ UNCHANGED <<body, copies, ready, inflight, due, delivered, acked, touched>>
  BY DEF Restart, redisVars
<1>3. /\ publish' = [m \in Msg |-> IF publish[m].at = "busy" /\ publish[m].node = n
                                     THEN [publish[m] EXCEPT !.at = "failed"] ELSE publish[m]]
      /\ store' = [m \in Msg |-> [o \in Owner |->
                      IF o = n /\ store[m][o] # "stored" THEN "none" ELSE store[m][o]]]
  BY DEF Restart
<1>4. /\ consume' = [c \in Consumer |-> IF consume[c].owner = n THEN NoConsume ELSE consume[c]]
      /\ reaper'  = [o \in Owner |-> IF o = n THEN NoReap ELSE reaper[o]]
      /\ ack'     = [a \in Acker |-> IF ack[a].node = n THEN NoAck ELSE ack[a]]
  BY DEF Restart
<1>5. /\ NoConsume \in ConsumeRec /\ NoConsume.at = "idle"
      /\ NoReap \in ReapRec /\ NoReap.at = "idle" /\ NoReap.todo = {}
      /\ NoAck \in AckRec /\ NoAck.at = "idle"
  BY DEF NoConsume, ConsumeRec, NoReap, ReapRec, NoAck, AckRec
<1>6. \A x \in Msg : /\ [publish[x] EXCEPT !.at = "failed"] \in PublishRec
                     /\ [publish[x] EXCEPT !.at = "failed"].at = "failed"
  BY <1>1 DEF PublishOK, PublishRec
<1>7. Typed'
  <2>1. PublishOK'
    <3>1. publish' \in [Msg -> PublishRec]
      BY <1>1, <1>3, <1>6 DEF PublishOK
    <3>2. store' \in [Msg -> [Owner -> {"none", "body", "owner", "ready", "stored"}]]
      BY <1>1, <1>3 DEF PublishOK
    <3>3. \A m \in Msg : publish'[m].at = "busy" => publish'[m].i >= 1
      BY <1>1, <1>3, <1>6 DEF PublishOK
    <3> QED
      BY <3>1, <3>2, <3>3 DEF PublishOK
  <2>2. ConsumeOK'
    BY <1>1, <1>4, <1>5 DEF ConsumeOK
  <2>3. ReaperOK'
    BY <1>1, <1>4, <1>5 DEF ReaperOK
  <2>4. AckOK'
    BY <1>1, <1>2, <1>4, <1>5 DEF AckOK
  <2>5. HistoryOK'
    BY <1>1, <1>2, RestartBoundIsNat DEF HistoryOK
  <2> QED
    BY <1>1, <1>2, <2>1, <2>2, <2>3, <2>4, <2>5 DEF Typed, RedisOK
<1>8. ASSUME NEW o \in Owner, NEW x \in Msg PROVE OneCopy(o, x)'
  <2>1. \A c \in Consumer : Holds(c, o, x)' => Holds(c, o, x)
    BY <1>4, <1>5 DEF Holds
  <2>2. /\ x \in reaper'[o].todo => x \in reaper[o].todo
        /\ Reaping(o, x)' => Reaping(o, x)
    BY <1>4, <1>5 DEF Reaping
  <2>3. store'[x][o] \in {store[x][o], "none"} /\ (Storing(o, x)' => Storing(o, x))
    BY <1>3 DEF Storing
  <2>4. Ahead(o, x)' => Ahead(o, x)
    BY <1>3, <1>6 DEF Ahead
  <2>5. NoMore(o, x)
    BY <1>2, <2>1, <2>2, <2>3, <2>4 DEF NoMore
  <2> QED
    BY <1>1, <2>5, FewerCopies
<1> QED
  BY <1>7, <1>8 DEF Preserved

-----------------------------------------------------------------------------

\* The invariant of the queue.
THEOREM QueueInvariant == Spec => []QueueInv
PROOF
<1>1. Init => QueueInv
  <2> SUFFICES ASSUME Init PROVE QueueInv
    OBVIOUS
  <2>1. RedisOK /\ HistoryOK
    BY RestartBoundIsNat DEF Init, RedisOK, HistoryOK
  <2>2. PublishOK
    BY OwnersListed DEF Init, PublishOK, PublishRec
  <2>3. ConsumeOK /\ ReaperOK /\ AckOK
    BY DEF Init, ConsumeOK, ConsumeRec, NoConsume, ReaperOK, ReapRec, NoReap, AckOK, AckRec, NoAck
  <2>4. ASSUME NEW o \in Owner, NEW m \in Msg PROVE OneCopy(o, m)
    BY DEF Init, OneCopy, Nowhere, Holds, Reaping, Storing, Ahead, NoConsume, NoReap
  <2>5. raced \subseteq touched
    BY DEF Init
  <2> QED
    BY <2>1, <2>2, <2>3, <2>4, <2>5 DEF QueueInv, Typed
<1>2. QueueInv /\ [Next]_vars => QueueInv'
  <2> SUFFICES ASSUME QueueInv, [Next]_vars PROVE QueueInv'
    OBVIOUS
  <2>1. CASE UNCHANGED vars
    BY <2>1 DEF vars, redisVars, taskVars, historyVars, QueueInv, Typed, RedisOK, PublishOK,
                ConsumeOK, ReaperOK, AckOK, HistoryOK, OneCopy, Nowhere, Holds, Reaping,
                Storing, Ahead
  <2>2. CASE Next
    <3>1. Step /\ raced' = raced \cup Racing'
      BY <2>2 DEF Next
    <3>2. Preserved
      BY <3>1, PublishStartStep, PublishNextStep, PublishTimesOutStep, StoreStepStep,
         DeadlineStep, ConsumePopStep, ConsumeInflightStep, ConsumeReplyStep, ReapScanStep,
         ReapRemoveStep, ReapReadyStep, StartAckStep, AckStepStep, RestartStep
         DEF Step, ReapStep
    <3>3. touched \subseteq touched'
      BY <3>1 DEF Step, PublishStart, PublishNext, PublishTimesOut, StoreStep, DeadlinePasses,
         ConsumePop, ConsumeInflight, ConsumeReply, ReapStep, AckAny, AckOwnerInternal,
         StartAck, AckStep, Restart, historyVars
    <3>4. Racing' \subseteq touched'
      <4>1. SUFFICES ASSUME NEW m \in Msg, NEW a \in Acker, ack'[a].msg = m
                     PROVE  m \in touched'
        BY DEF Racing
      <4>2. AckOK'
        BY <3>2 DEF Preserved, Typed
      <4>3. ack'[a].at # "idle"
        BY <4>1, <4>2, NoneIsNothing DEF AckOK, NoAck
      <4> QED
        BY <4>1, <4>2, <4>3 DEF AckOK
    <3> QED
      BY <3>1, <3>2, <3>3, <3>4 DEF Preserved, QueueInv
  <2> QED
    BY <2>1, <2>2
<1> QED
  BY <1>1, <1>2, PTL DEF Spec

\* The queue keeps its types, and history names only messages being acked.
THEOREM TypeCorrect == Spec => []TypeOK
PROOF
<1>1. QueueInv => TypeOK
  BY DEF QueueInv, Typed, RedisOK, PublishOK, PublishRec, ConsumeOK, ConsumeRec, ReaperOK,
         ReapRec, AckOK, AckRec, HistoryOK, TypeOK
<1> QED
  BY <1>1, QueueInvariant, PTL

\* Consumers, the reaper and acks never double an owner's copy.
THEOREM CopiesInOnePlace == Spec => []OnePlace
PROOF
<1>1. QueueInv => OnePlace
  <2>1. SUFFICES ASSUME QueueInv, NEW o \in Owner, NEW m \in Msg
                 PROVE  Cardinality(Places(o, m)) <= 1
    BY DEF OnePlace
  <2>2. OneCopy(o, m) /\ ReaperOK
    BY <2>1 DEF QueueInv, Typed
  <2>3. \A p, q \in Places(o, m) : p = q
    <3>1. Reaping(o, m) => m \in reaper[o].todo
      BY <2>2 DEF Reaping, ReaperOK
    <3>2. \A p \in Places(o, m) :
            \/ p = "ready"    /\ m \in ready[o]
            \/ p = "inflight" /\ m \in inflight[o]
            \/ p = "reaper"   /\ Reaping(o, m)
            \/ \E c \in Consumer : p = <<c>> /\ Holds(c, o, m)
      BY DEF Places
    <3> QED
      BY <2>2, <3>1, <3>2 DEF OneCopy
  <2>4. CASE Places(o, m) = {}
    BY <2>4, FS_EmptySet
  <2>5. CASE Places(o, m) # {}
    <3>1. PICK p : Places(o, m) = {p}
      BY <2>3, <2>5
    <3> QED
      BY <3>1, FS_Singleton
  <2> QED
    BY <2>4, <2>5
<1> QED
  BY <1>1, QueueInvariant, PTL

-----------------------------------------------------------------------------
(***************************************************************************)
(* Nothing but an ack or the death of a task loses a copy.                 *)
(***************************************************************************)

Present(o, m) ==
  m \in ready[o] \/ m \in inflight[o] \/ Reaping(o, m) \/ \E c \in Consumer : Holds(c, o, m)

KeptCopy(o, m) ==
  store[m][o] = "stored" /\ m \notin touched /\ <<m, o>> \notin dropped => Present(o, m)

\* The places of a copy are those where it is present.
LEMMA PresentPlaces ==
  ASSUME NEW o, NEW m
  PROVE  Places(o, m) # {} <=> Present(o, m)
PROOF
<1>1. ASSUME Places(o, m) # {} PROVE Present(o, m)
  BY <1>1 DEF Places, Present
<1>2. ASSUME m \in ready[o] PROVE "ready" \in Places(o, m)
  BY <1>2 DEF Places
<1>3. ASSUME m \in inflight[o] PROVE "inflight" \in Places(o, m)
  BY <1>3 DEF Places
<1>4. ASSUME Reaping(o, m) PROVE "reaper" \in Places(o, m)
  BY <1>4 DEF Places
<1>5. ASSUME NEW c \in Consumer, Holds(c, o, m) PROVE <<c>> \in Places(o, m)
  BY <1>5 DEF Places
<1> QED
  BY <1>1, <1>2, <1>3, <1>4, <1>5 DEF Present

\* Every task that takes a copy from one place has it, and puts it in another.
LEMMA CarriersDeliver ==
  ASSUME QueueInv, NEW o \in Owner, NEW m \in Msg, Present(o, m),
         \/ \E c \in Consumer, p \in Owner : ConsumePop(c, p)
         \/ \E c \in Consumer : ConsumeInflight(c) \/ ConsumeReply(c)
         \/ \E p \in Owner : ReapStep(p)
  PROVE  Present(o, m)'
PROOF
<1>1. RedisOK /\ ConsumeOK /\ reaper \in [Owner -> ReapRec]
  BY DEF QueueInv, Typed, ReaperOK
<1>2. ASSUME NEW c \in Consumer, NEW p \in Owner, ConsumePop(c, p) PROVE Present(o, m)'
  <2>1. PICK x \in ready[p] :
          /\ ready'   = [ready EXCEPT ![p] = @ \ {x}]
          /\ consume' = [consume EXCEPT ![c] = [at |-> "inflight", owner |-> p, msg |-> x]]
          /\ consume[c] = NoConsume /\ UNCHANGED <<inflight, reaper>>
    BY <1>2 DEF ConsumePop
  <2>2. \A d \in Consumer : Holds(d, o, m) => Holds(d, o, m)'
    <3>1. \A d \in Consumer : Holds(d, o, m) => d # c
      BY <2>1 DEF Holds, NoConsume
    <3> QED
      BY <1>1, <2>1, <3>1 DEF Holds, ConsumeOK
  <2>3. m \in ready[o] => m \in ready'[o] \/ Holds(c, o, m)'
    BY <1>1, <2>1 DEF Holds, ConsumeOK, RedisOK
  <2> QED
    BY <2>1, <2>2, <2>3 DEF Present, Reaping
<1>3. ASSUME NEW c \in Consumer, ConsumeInflight(c) PROVE Present(o, m)'
  <2> PICK p : p = consume[c].owner
    OBVIOUS
  <2>1. /\ inflight' = [inflight EXCEPT ![p] = @ \cup {consume[c].msg}]
        /\ consume'  = [consume EXCEPT ![c].at = "payload"]
        /\ UNCHANGED <<ready, reaper>>
    BY <1>3 DEF ConsumeInflight
  <2>2. m \in inflight[o] => m \in inflight'[o]
    BY <1>1, <2>1 DEF RedisOK
  <2>3. ASSUME NEW d \in Consumer, Holds(d, o, m) PROVE Holds(d, o, m)' \/ m \in inflight'[o]
    <3>1. CASE d = c
      BY <1>1, <2>1, <2>3, <3>1 DEF Holds, RedisOK
    <3>2. CASE d # c
      BY <1>1, <2>1, <2>3, <3>2 DEF Holds, ConsumeOK
    <3> QED
      BY <3>1, <3>2
  <2> QED
    BY <2>1, <2>2, <2>3 DEF Present, Reaping
<1>4. ASSUME NEW c \in Consumer, ConsumeReply(c) PROVE Present(o, m)'
  <2>1. /\ consume[c].at = "payload" /\ consume' = [consume EXCEPT ![c] = NoConsume]
        /\ UNCHANGED <<ready, inflight, reaper>>
    BY <1>4 DEF ConsumeReply, redisVars
  <2>2. \A d \in Consumer : Holds(d, o, m) => Holds(d, o, m)'
    BY <1>1, <2>1 DEF Holds, ConsumeOK
  <2> QED
    BY <2>1, <2>2 DEF Present, Reaping
<1>5. ASSUME NEW p \in Owner, ReapScan(p), UNCHANGED consume PROVE Present(o, m)'
  <2>1. /\ reaper[p] = NoReap /\ UNCHANGED <<ready, inflight>>
        /\ \A q \in Owner \ {p} : reaper'[q] = reaper[q]
    BY <1>1, <1>5 DEF ReapScan, redisVars
  <2>2. Reaping(o, m) => Reaping(o, m)'
    BY <2>1 DEF Reaping, NoReap
  <2> QED
    BY <1>5, <2>1, <2>2 DEF Present, Holds
<1>6. ASSUME NEW p \in Owner, NEW x \in Msg, ReapRemove(p, x), UNCHANGED consume
      PROVE  Present(o, m)'
  <2>1. /\ reaper[p].at = "remove"
        /\ inflight' = [inflight EXCEPT ![p] = @ \ {x}]
        /\ reaper'   = [reaper EXCEPT ![p].at = "ready", ![p].msg = x]
        /\ UNCHANGED ready
    BY <1>6 DEF ReapRemove, DropInflight
  <2>2. Reaping(o, m) => Reaping(o, m)'
    BY <1>1, <2>1 DEF Reaping
  <2>3. m \in inflight[o] => m \in inflight'[o] \/ Reaping(o, m)'
    <3>1. reaper[p] \in ReapRec
      BY <1>1
    <3>2. reaper'[p].at = "ready" /\ reaper'[p].msg = x
      BY <1>1, <2>1, <3>1 DEF ReapRec
    <3> QED
      BY <1>1, <2>1, <3>2 DEF Reaping, RedisOK
  <2> QED
    BY <1>6, <2>1, <2>2, <2>3 DEF Present, Holds
<1>7. ASSUME NEW p \in Owner, ReapReady(p), UNCHANGED consume PROVE Present(o, m)'
  <2>1. /\ ready' = [ready EXCEPT ![p] = @ \cup {reaper[p].msg}]
        /\ UNCHANGED inflight /\ \A q \in Owner \ {p} : reaper'[q] = reaper[q]
    BY <1>1, <1>7 DEF ReapReady, Requeued
  <2>2. Reaping(o, m) => Reaping(o, m)' \/ m \in ready'[o]
    BY <1>1, <2>1 DEF Reaping, RedisOK
  <2>3. m \in ready[o] => m \in ready'[o]
    BY <1>1, <2>1 DEF RedisOK
  <2> QED
    BY <1>7, <2>1, <2>2, <2>3 DEF Present, Holds
<1> QED
  BY <1>2, <1>3, <1>4, <1>5, <1>6, <1>7 DEF ReapStep

\* A stored copy is kept by every step.
LEMMA KeptCopyStep ==
  ASSUME QueueInv, NEW o \in Owner, NEW m \in Msg, KeptCopy(o, m), [Next]_vars
  PROVE  KeptCopy(o, m)'
PROOF
<1>1. /\ RedisOK /\ PublishOK /\ AckOK
      /\ store \in [Msg -> [Owner -> {"none", "body", "owner", "ready", "stored"}]]
  BY DEF QueueInv, Typed, PublishOK
<1>2. ASSUME store'[m][o] = "stored" => store[m][o] = "stored",
             touched \subseteq touched', dropped \subseteq dropped',
             Present(o, m) => Present(o, m)'
      PROVE  KeptCopy(o, m)'
  BY <1>2 DEF KeptCopy
<1>3. CASE UNCHANGED vars
  BY <1>3 DEF vars, redisVars, taskVars, historyVars, KeptCopy, Present, Reaping, Holds
<1>4. ASSUME NEW x \in Msg, \/ \E n \in Node : PublishStart(x, n)
                           \/ PublishNext(x) \/ PublishTimesOut(x)
      PROVE  KeptCopy(o, m)'
  <2>1. UNCHANGED <<ready, inflight, reaper, consume, touched, dropped>>
    BY <1>4 DEF PublishStart, PublishNext, PublishTimesOut, redisVars, historyVars
  <2>2. UNCHANGED store \/ \E p : store' = [store EXCEPT ![x][p] = "body"]
    BY <1>4 DEF PublishStart, PublishNext, PublishTimesOut
  <2>3. store'[m][o] = "stored" => store[m][o] = "stored"
    BY <1>1, <2>2
  <2> QED
    BY <1>2, <2>1, <2>3 DEF Present, Reaping, Holds
<1>5. ASSUME NEW x \in Msg, NEW p \in Owner, StoreStep(x, p) PROVE KeptCopy(o, m)'
  <2>1. PICK s \in {"owner", "ready", "stored"} :
          /\ store' = [store EXCEPT ![x][p] = s]
          /\ IF s = "stored" THEN ready' = [ready EXCEPT ![p] = @ \cup {x}]
                             ELSE UNCHANGED ready
    BY <1>5 DEF StoreStep, StoreBody, StoreOwner, StoreReady
  <2>2. UNCHANGED <<inflight, reaper, consume, touched, dropped>>
    BY <1>5 DEF StoreStep, StoreBody, StoreOwner, StoreReady, historyVars
  <2>3. Present(o, m) => Present(o, m)'
    <3>1. m \in ready[o] => m \in ready'[o]
      BY <1>1, <2>1 DEF RedisOK
    <3> QED
      BY <2>2, <3>1 DEF Present, Reaping, Holds
  <2>4. CASE x = m /\ p = o /\ s = "stored"
    <3>1. m \in ready'[o]
      BY <1>1, <2>1, <2>4 DEF RedisOK
    <3> QED
      BY <3>1 DEF KeptCopy, Present
  <2>5. CASE ~(x = m /\ p = o /\ s = "stored")
    <3>1. store'[m][o] = "stored" => store[m][o] = "stored"
      BY <1>1, <2>1, <2>5
    <3> QED
      BY <1>2, <2>2, <2>3, <3>1
  <2> QED
    BY <2>4, <2>5
<1>6. ASSUME NEW x \in Msg, NEW p \in Owner, DeadlinePasses(p, x) PROVE KeptCopy(o, m)'
  BY <1>2, <1>6 DEF DeadlinePasses, taskVars, historyVars, Present, Reaping, Holds
<1>7. ASSUME \/ \E c \in Consumer, p \in Owner : ConsumePop(c, p)
             \/ \E c \in Consumer : ConsumeInflight(c) \/ ConsumeReply(c)
             \/ \E p \in Owner : ReapStep(p)
      PROVE  KeptCopy(o, m)'
  <2>1. UNCHANGED <<store, touched, dropped>>
    BY <1>7 DEF ConsumePop, ConsumeInflight, ConsumeReply, ReapStep, historyVars
  <2>2. Present(o, m) => Present(o, m)'
    BY <1>7, CarriersDeliver
  <2> QED
    BY <1>2, <2>1, <2>2
<1>8. ASSUME NEW a \in Acker, NEW n \in Node, NEW x \in Msg,
             AckAny(a, n, x) \/ AckOwnerInternal(a, n, x)
      PROVE  KeptCopy(o, m)'
  <2>1. UNCHANGED <<ready, inflight, reaper, consume, store, dropped>> /\ touched \subseteq touched'
    BY <1>8 DEF AckAny, AckOwnerInternal, StartAck, redisVars
  <2> QED
    BY <1>2, <2>1 DEF Present, Reaping, Holds
<1>9. ASSUME NEW a \in Acker, AckStep(a) PROVE KeptCopy(o, m)'
  <2>1. UNCHANGED <<reaper, consume, store, touched, dropped>>
    BY <1>9 DEF AckStep, historyVars
  <2>2. ack[a].msg \in touched
    BY <1>1, <1>9 DEF AckStep, AckInflight, AckReady, AckOwner, AckCount, AckBody, AckOwners, AckOK
  <2>3. CASE m \in touched
    BY <2>1, <2>3 DEF KeptCopy
  <2>4. CASE m \notin touched
    <3>1. m # ack[a].msg
      BY <2>2, <2>4
    <3>2. m \in ready[o] => m \in ready'[o]
      <4>1. \/ UNCHANGED ready
            \/ ready' = [ready EXCEPT ![ack[a].owner] = @ \ {ack[a].msg}]
        BY <1>9 DEF AckStep, AckInflight, AckReady, LeaveReady, AckOwner, AckCount, AckBody,
                    AckOwners, redisVars
      <4> QED
        BY <1>1, <3>1, <4>1 DEF RedisOK
    <3>3. m \in inflight[o] => m \in inflight'[o]
      <4>1. \/ UNCHANGED inflight
            \/ \E p \in Owner : inflight' = [inflight EXCEPT ![p] = @ \ {ack[a].msg}]
        BY <1>9 DEF AckStep, AckInflight, AckReady, AckOwner, AckCount, AckBody, AckOwners,
                    redisVars
      <4> QED
        BY <1>1, <3>1, <4>1 DEF RedisOK
    <3> QED
      BY <1>2, <2>1, <3>2, <3>3 DEF Present, Reaping, Holds
  <2> QED
    BY <2>3, <2>4
<1>10. ASSUME NEW n \in Node, Restart(n) PROVE KeptCopy(o, m)'
  <2>1. /\ consume' = [c \in Consumer |-> IF consume[c].owner = n THEN NoConsume ELSE consume[c]]
        /\ reaper'  = [p \in Owner |-> IF p = n THEN NoReap ELSE reaper[p]]
        /\ store' = [x \in Msg |-> [p \in Owner |->
                        IF p = n /\ store[x][p] # "stored" THEN "none" ELSE store[x][p]]]
        /\ dropped' = dropped \cup
             {x \in Msg \X (Owner \cap {n}) :
                Reaping(x[2], x[1]) \/ \E c \in Consumer : Holds(c, x[2], x[1])}
        /\ UNCHANGED <<ready, inflight, touched>>
    BY <1>10 DEF Restart, redisVars
  <2>2. store'[m][o] = "stored" => store[m][o] = "stored"
    BY <2>1
  <2>3. CASE o = n /\ (Reaping(o, m) \/ \E c \in Consumer : Holds(c, o, m))
    <3>1. <<m, o>> \in dropped'
      BY <2>1, <2>3
    <3> QED
      BY <3>1 DEF KeptCopy
  <2>4. CASE o # n \/ ~(Reaping(o, m) \/ \E c \in Consumer : Holds(c, o, m))
    <3>1. Reaping(o, m) => Reaping(o, m)'
      BY <2>1, <2>4 DEF Reaping
    <3>2. \A c \in Consumer : Holds(c, o, m) => Holds(c, o, m)'
      BY <2>1, <2>4 DEF Holds
    <3>3. Present(o, m) => Present(o, m)'
      BY <2>1, <3>1, <3>2 DEF Present
    <3> QED
      BY <1>2, <2>1, <2>2, <3>3
  <2> QED
    BY <2>3, <2>4
<1> QED
  BY <1>3, <1>4, <1>5, <1>6, <1>7, <1>8, <1>9, <1>10 DEF Next, Step

\* A stored copy is somewhere until the message is acked or a task dies with it.
THEOREM CopiesAreKept == Spec => []CopyKept
PROOF
<1> DEFINE Kept == \A o \in Owner, m \in Msg : KeptCopy(o, m)
<1>1. Init => Kept
  BY DEF Init, KeptCopy
<1>2. QueueInv /\ Kept /\ [Next]_vars => Kept'
  BY KeptCopyStep
<1>3. Kept => CopyKept
  BY PresentPlaces DEF KeptCopy, CopyKept
<1> QED
  BY <1>1, <1>2, <1>3, QueueInvariant, PTL DEF Spec

-----------------------------------------------------------------------------
(***************************************************************************)
(* Acks, any number of which cross: unless a task carries the message      *)
(* while it is being acked, the payload outlives every copy and an ack     *)
(* answered with True is final; what acks leave behind nothing cleans up.  *)
(***************************************************************************)

\* Nobody has seen what was never published.
NewUnseen ==
  \A m \in Msg : publish[m].at = "new" =>
    m \notin delivered /\ \A c \in Consumer : consume[c].msg # m

\* What a running ack of m has seen to.
AckKnows(a, m) ==
  /\ ack[a].at = "ready" => m \notin inflight[ack[a].owner]
  /\ ack[a].at \in {"owner", "count", "body", "owners"} => ~Present(ack[a].owner, m)
  /\ ack[a].at \in {"body", "owners"} => copies[m] = {}
  /\ ack[a].whole => \A o \in Owner : Present(o, m) => o \in ack[a].todo

\* q2:owners counts o's copy of m as long as there is one, and the payload is
\* there.
Counted(o, m) ==
  /\ m \in reaper[o].todo => Present(o, m)
  /\ Present(o, m) => o \in copies[m] /\ m \in body
  /\ store[m][o] \in {"owner", "ready"} => m \in body
  /\ store[m][o] = "ready" => o \in copies[m]

Gone(m) ==
  /\ ~Carried(m) /\ publish[m].at # "new"
  /\ \A o \in Owner : ~Present(o, m)

MsgOK(m) ==
  /\ \A o \in Owner : Counted(o, m)
  /\ \A a \in Acker : ack[a].msg = m => AckKnows(a, m)
  /\ m \in acked => Gone(m)

AckInv ==
  /\ Racing \subseteq raced /\ NewUnseen
  /\ \A m \in Msg : m \notin raced => MsgOK(m)

-----------------------------------------------------------------------------
(***************************************************************************)
(* Steps of everything but acks.                                           *)
(***************************************************************************)

StaysAt(o, m) ==
  /\ Present(o, m)' => Present(o, m) \/ m \in reaper[o].todo \/ store[m][o] = "ready"
  /\ m \in inflight'[o] => m \in inflight[o] \/ \E c \in Consumer : Holds(c, o, m)
  /\ m \in reaper'[o].todo =>
       /\ m \in reaper[o].todo \/ m \in inflight[o]
       /\ Present(o, m) => Present(o, m)'
  /\ \/ store'[m][o] \notin {"owner", "ready"}
     \/ store'[m][o] = store[m][o]
     \/ store'[m][o] = "owner" /\ m \in body'
     \/ store[m][o] = "owner" /\ o \in copies'[m]

\* A step that ends acks at most, and brings a copy only where a task has it.
Stays(m) ==
  /\ \A o \in Owner : StaysAt(o, m)
  /\ body \subseteq body' /\ copies[m] \subseteq copies'[m]
  /\ copies'[m] # copies[m] => Carried(m)
  /\ Carried(m)' =>
       Carried(m) \/ publish[m].at = "new" \/ \E o \in Owner : Present(o, m)
  /\ publish'[m].at = "new" => publish[m].at = "new"
  /\ acked' = acked
  /\ \A a \in Acker : ack'[a] = ack[a] \/ ack'[a] = NoAck

\* A task that has m, or is about to, carries it.
LEMMA CarriedBy ==
  ASSUME QueueInv, NEW m \in Msg, NEW o \in Owner,
         \/ m \in reaper[o].todo \/ store[m][o] = "ready"
         \/ \E c \in Consumer : Holds(c, o, m)
  PROVE  Carried(m)
BY DEF Carried, Holds

\* Such a step keeps what is known of m.
LEMMA StaysOK ==
  ASSUME QueueInv, NEW m \in Msg, m \notin raced, Racing \subseteq raced, MsgOK(m), Stays(m)
  PROVE  MsgOK(m)'
PROOF
<1>1. ASSUME NEW a \in Acker, ack[a].msg = m PROVE ~Carried(m)
  BY <1>1 DEF Racing
<1>2. ASSUME NEW o \in Owner PROVE Counted(o, m)'
  <2>1. Counted(o, m) /\ StaysAt(o, m)
    BY DEF MsgOK, Stays
  <2>2. m \in reaper'[o].todo => Present(o, m)'
    BY <2>1 DEF Counted, StaysAt, Present
  <2>3. Present(o, m)' => o \in copies'[m] /\ m \in body'
    BY <2>1 DEF Counted, StaysAt, Stays
  <2>4. store'[m][o] \in {"owner", "ready"} => m \in body'
    BY <2>1 DEF Counted, StaysAt, Stays
  <2>5. store'[m][o] = "ready" => o \in copies'[m]
    BY <2>1 DEF Counted, StaysAt, Stays
  <2> QED
    BY <2>2, <2>3, <2>4, <2>5 DEF Counted
<1>3. ASSUME NEW a \in Acker, ack'[a].msg = m PROVE AckKnows(a, m)'
  <2>1. ack'[a] = ack[a]
    BY <1>3, NoneIsNothing DEF Stays, NoAck
  <2>2. ~Carried(m) /\ AckKnows(a, m)
    BY <1>1, <1>3, <2>1 DEF MsgOK
  <2>3. \A o \in Owner : /\ Present(o, m)' => Present(o, m)
                         /\ m \in inflight'[o] => m \in inflight[o]
    BY <2>2, CarriedBy DEF Stays, StaysAt
  <2>4. copies'[m] = copies[m]
    BY <2>2 DEF Stays
  <2>5. ack[a].at \notin {"idle", "inflight"} => ack[a].owner \in Owner
    BY DEF QueueInv, Typed, AckOK
  <2> QED
    BY <2>1, <2>2, <2>3, <2>4, <2>5 DEF AckKnows
<1>4. m \in acked' => Gone(m)'
  <2>1. SUFFICES ASSUME m \in acked PROVE Gone(m)'
    BY DEF Stays
  <2>2. Gone(m)
    BY <2>1 DEF MsgOK
  <2>3. \A o \in Owner : Present(o, m)' => Present(o, m)
    BY <2>2, CarriedBy DEF Stays, StaysAt, Gone
  <2> QED
    BY <2>2, <2>3 DEF Gone, Stays
<1> QED
  BY <1>2, <1>3, <1>4 DEF MsgOK

\* Publishing tells the next owner to store.
LEMMA PublishStays ==
  ASSUME QueueInv, NEW m \in Msg, NEW x \in Msg,
         (\E n \in Node : PublishStart(x, n)) \/ PublishNext(x) \/ PublishTimesOut(x)
  PROVE  Stays(m)
PROOF
<1>1. PublishOK
  BY DEF QueueInv, Typed
<1>2. UNCHANGED <<body, copies, ready, inflight, reaper, consume, acked, ack>>
  BY DEF PublishStart, PublishNext, PublishTimesOut, redisVars
<1>3. /\ UNCHANGED store \/ \E p : store' = [store EXCEPT ![x][p] = "body"]
      /\ \/ \E r : r.at # "new" /\ publish' = [publish EXCEPT ![x] = r]
         \/ publish[x].at = "busy" /\ \E i : publish' = [publish EXCEPT ![x].i = i]
         \/ \E at \in {"done", "failed"} : publish' = [publish EXCEPT ![x].at = at]
      /\ publish[x].at \in {"new", "busy"}
  <2>1. ASSUME NEW n \in Node, PublishStart(x, n)
        PROVE  /\ \E r : r.at # "new" /\ publish' = [publish EXCEPT ![x] = r]
               /\ \E p : store' = [store EXCEPT ![x][p] = "body"]
               /\ publish[x].at = "new"
    <3>1. [at |-> "busy", node |-> n, i |-> 1].at # "new"
      OBVIOUS
    <3> QED
      BY <2>1, <3>1 DEF PublishStart
  <2> QED
    BY <2>1 DEF PublishNext, PublishTimesOut
<1>4. \A o \in Owner : /\ Present(o, m)' <=> Present(o, m)
                       /\ store'[m][o] \in {store[m][o], "body"}
  BY <1>1, <1>2, <1>3 DEF Present, Holds, Reaping, PublishOK
<1>5. \/ publish[m].at = publish'[m].at /\ store'[m] = store[m]
      \/ m = x /\ publish'[m].at # "new"
  <2>1. CASE m # x
    BY <1>1, <1>3, <2>1 DEF PublishOK
  <2>2. CASE m = x
    BY <1>1, <1>3, <2>2 DEF PublishOK, PublishRec
  <2> QED
    BY <2>1, <2>2
<1>6. Carried(m)' => Carried(m) \/ publish[m].at = "new"
  BY <1>2, <1>3, <1>5 DEF Carried
<1> QED
  BY <1>2, <1>4, <1>5, <1>6 DEF Stays, StaysAt

\* The payload comes first, then the count, then the copy.
LEMMA StoreStays ==
  ASSUME QueueInv, NEW m \in Msg, NEW x \in Msg, NEW p \in Owner, StoreStep(x, p)
  PROVE  Stays(m)
PROOF
<1>1. RedisOK /\ PublishOK
  BY DEF QueueInv, Typed
<1>2. UNCHANGED <<inflight, reaper, consume, publish, ack, acked>>
  BY DEF StoreStep, StoreBody, StoreOwner, StoreReady
<1>3. \/ /\ store[x][p] = "body" /\ store' = [store EXCEPT ![x][p] = "owner"]
         /\ body' = body \cup {x} /\ UNCHANGED <<copies, ready>>
      \/ /\ store[x][p] = "owner" /\ store' = [store EXCEPT ![x][p] = "ready"]
         /\ copies' = [copies EXCEPT ![x] = @ \cup {p}] /\ UNCHANGED <<body, ready>>
      \/ /\ store[x][p] = "ready" /\ store' = [store EXCEPT ![x][p] = "stored"]
         /\ ready' = [ready EXCEPT ![p] = @ \cup {x}] /\ UNCHANGED <<body, copies>>
  BY DEF StoreStep, StoreBody, StoreOwner, StoreReady
<1>4. \A o \in Owner : ~(o = p /\ m = x) =>
        /\ store'[m][o] = store[m][o]
        /\ m \in ready'[o] <=> m \in ready[o]
  BY <1>1, <1>3 DEF PublishOK, RedisOK
<1>5. body \subseteq body' /\ copies[m] \subseteq copies'[m]
  BY <1>1, <1>3 DEF RedisOK
<1>6. ASSUME NEW o \in Owner PROVE StaysAt(o, m)
  <2>1. CASE o = p /\ m = x
    <3>1. m \in ready'[o] => m \in ready[o] \/ store[m][o] = "ready"
      BY <1>1, <1>3, <2>1 DEF RedisOK
    <3>2. \/ store'[m][o] = "stored"
          \/ store'[m][o] = "owner" /\ m \in body'
          \/ store[m][o] = "owner" /\ o \in copies'[m]
      BY <1>1, <1>3, <2>1 DEF RedisOK, PublishOK
    <3>3. m \in ready[o] => m \in ready'[o]
      BY <1>1, <1>3 DEF RedisOK
    <3> QED
      BY <1>2, <3>1, <3>2, <3>3 DEF StaysAt, Present, Holds, Reaping
  <2>2. CASE ~(o = p /\ m = x)
    BY <1>2, <1>4, <2>2 DEF StaysAt, Present, Holds, Reaping
  <2> QED
    BY <2>1, <2>2
<1>7. copies'[m] # copies[m] => Carried(m)
  BY <1>1, <1>3 DEF RedisOK, Carried
<1>8. Carried(m)' => Carried(m)
  <2>1. \A o \in Owner : store'[m][o] \in {"body", "owner", "ready"} =>
          store[m][o] \in {"body", "owner", "ready"}
    BY <1>1, <1>3, <1>4 DEF PublishOK
  <2> QED
    BY <1>2, <2>1 DEF Carried
<1> QED
  BY <1>2, <1>5, <1>6, <1>7, <1>8 DEF Stays

\* What consumers, deadlines and reapers do not touch.
LEMMA TasksStay ==
  ASSUME QueueInv, NEW m \in Msg,
         UNCHANGED <<body, copies, publish, store, ack, acked>>,
         \A o \in Owner :
           /\ Present(o, m)' => Present(o, m) \/ m \in reaper[o].todo
           /\ m \in inflight'[o] => m \in inflight[o] \/ \E c \in Consumer : Holds(c, o, m)
           /\ m \in reaper'[o].todo =>
                /\ m \in reaper[o].todo \/ m \in inflight[o]
                /\ Present(o, m) => Present(o, m)',
         \A c \in Consumer : consume'[c].at = "inflight" /\ consume'[c].msg = m =>
           \/ consume[c].at = "inflight" /\ consume[c].msg = m
           \/ \E o \in Owner : Present(o, m)
  PROVE  Stays(m)
PROOF
<1>1. \A o \in Owner : m \in inflight[o] => Present(o, m)
  BY DEF Present
<1>2. Carried(m)' => Carried(m) \/ \E o \in Owner : Present(o, m)
  BY <1>1 DEF Carried
<1> QED
  BY <1>2 DEF Stays, StaysAt

\* A deadline moves nothing.
LEMMA DeadlineStays ==
  ASSUME QueueInv, NEW m \in Msg, NEW x \in Msg, NEW p \in Owner, DeadlinePasses(p, x)
  PROVE  Stays(m)
PROOF
<1>1. UNCHANGED <<body, copies, ready, inflight, publish, store, consume, reaper, ack, acked>>
  BY DEF DeadlinePasses, taskVars
<1>2. \A o \in Owner : Present(o, m)' <=> Present(o, m)
  BY <1>1 DEF Present, Holds, Reaping
<1> QED
  BY <1>1, <1>2, TasksStay

\* A consumer takes a copy that is there, and puts it in flight.
LEMMA ConsumeStays ==
  ASSUME QueueInv, NEW m \in Msg, NEW c \in Consumer,
         (\E p \in Owner : ConsumePop(c, p)) \/ ConsumeInflight(c) \/ ConsumeReply(c)
  PROVE  Stays(m)
PROOF
<1>1. RedisOK /\ ConsumeOK
  BY DEF QueueInv, Typed
<1>2. UNCHANGED <<body, copies, publish, store, ack, acked, reaper>>
  BY DEF ConsumePop, ConsumeInflight, ConsumeReply, redisVars
<1>3. \A o \in Owner : Present(o, m) => Present(o, m)'
  BY CarriersDeliver
<1>4. ASSUME NEW p \in Owner, ConsumePop(c, p) PROVE Stays(m)
  <2>1. PICK x \in ready[p] :
          /\ ready'   = [ready EXCEPT ![p] = @ \ {x}]
          /\ consume' = [consume EXCEPT ![c] = [at |-> "inflight", owner |-> p, msg |-> x]]
          /\ UNCHANGED inflight
    BY <1>4 DEF ConsumePop
  <2>2. \A o \in Owner : m \in ready'[o] => m \in ready[o]
    BY <1>1, <2>1 DEF RedisOK
  <2>3. \A o \in Owner, d \in Consumer : Holds(d, o, m)' => Holds(d, o, m) \/ m \in ready[o]
    BY <1>1, <2>1 DEF Holds, ConsumeOK
  <2>4. \A o \in Owner : Present(o, m)' => Present(o, m)
    BY <1>2, <2>1, <2>2, <2>3 DEF Present, Reaping
  <2>5. \A d \in Consumer : consume'[d].at = "inflight" /\ consume'[d].msg = m =>
           \/ consume[d].at = "inflight" /\ consume[d].msg = m
           \/ \E o \in Owner : Present(o, m)
    BY <1>1, <2>1 DEF Present, ConsumeOK
  <2> QED
    BY <1>2, <1>3, <2>1, <2>4, <2>5, TasksStay
<1>5. ASSUME ConsumeInflight(c) PROVE Stays(m)
  <2> PICK p, x : p = consume[c].owner /\ x = consume[c].msg
    OBVIOUS
  <2>1. /\ consume[c].at = "inflight" /\ UNCHANGED ready
        /\ inflight' = [inflight EXCEPT ![p] = @ \cup {x}]
        /\ consume'  = [consume EXCEPT ![c].at = "payload"]
    BY <1>5 DEF ConsumeInflight
  <2>2. Holds(c, p, x)
    BY <1>1, <2>1 DEF ConsumeOK, ConsumeRec, Holds
  <2>3. \A o \in Owner : m \in inflight'[o] => m \in inflight[o] \/ Holds(c, o, m)
    BY <1>1, <2>1, <2>2 DEF RedisOK
  <2>4. \A d \in Consumer : consume'[d].at = "inflight" => consume'[d] = consume[d]
    BY <1>1, <2>1 DEF ConsumeOK
  <2>5. \A o \in Owner, d \in Consumer : Holds(d, o, m)' => Holds(d, o, m)
    BY <2>4 DEF Holds
  <2>6. \A o \in Owner : Present(o, m)' => Present(o, m)
    BY <1>2, <2>1, <2>3, <2>5 DEF Present, Reaping
  <2> QED
    BY <1>2, <1>3, <2>3, <2>4, <2>6, TasksStay
<1>6. ASSUME ConsumeReply(c) PROVE Stays(m)
  <2>1. consume' = [consume EXCEPT ![c] = NoConsume] /\ UNCHANGED <<ready, inflight>>
    BY <1>6 DEF ConsumeReply, redisVars
  <2>2. \A d \in Consumer : consume'[d].at = "inflight" => consume'[d] = consume[d]
    BY <1>1, <2>1 DEF ConsumeOK, NoConsume
  <2>3. \A o \in Owner : Present(o, m)' => Present(o, m)
    BY <1>2, <2>1, <2>2 DEF Present, Reaping, Holds
  <2> QED
    BY <1>2, <1>3, <2>1, <2>2, <2>3, TasksStay
<1> QED
  BY <1>4, <1>5, <1>6

\* A reaper takes on copies that are in flight, and requeues those.
LEMMA ReapStays ==
  ASSUME QueueInv, NEW m \in Msg, NEW p \in Owner, ReapStep(p)
  PROVE  Stays(m)
PROOF
<1>1. RedisOK /\ ReaperOK
  BY DEF QueueInv, Typed
<1>2. UNCHANGED <<body, copies, publish, store, ack, acked, consume>>
  BY DEF ReapStep, ReapScan, ReapRemove, ReapReady, redisVars
<1>3. \A o \in Owner : Present(o, m) => Present(o, m)'
  BY CarriersDeliver
<1>4. \A o \in Owner : o # p => reaper'[o] = reaper[o]
  BY <1>1 DEF ReapStep, ReapScan, ReapRemove, ReapReady, ReaperOK
<1>5. \A o \in Owner : m \in inflight'[o] => m \in inflight[o]
  BY <1>1 DEF ReapStep, ReapScan, ReapRemove, ReapReady, redisVars, RedisOK, DropInflight
<1>6. reaper'[p].todo \subseteq reaper[p].todo \cup inflight[p]
  <2>1. reaper[p] \in ReapRec
    BY <1>1 DEF ReaperOK
  <2>2. ASSUME ReapScan(p) PROVE reaper'[p].todo = due[p]
    BY <1>1, <2>2 DEF ReapScan, ReaperOK
  <2>3. ASSUME NEW x \in Msg, ReapRemove(p, x) PROVE reaper'[p].todo = reaper[p].todo
    BY <1>1, <2>1, <2>3 DEF ReapRemove, ReaperOK, ReapRec
  <2>4. ASSUME ReapReady(p) PROVE reaper'[p].todo \subseteq reaper[p].todo
    BY <1>1, <2>1, <2>4 DEF ReapReady, ReaperOK, NoReap
  <2> QED
    BY <1>1, <2>2, <2>3, <2>4 DEF ReapStep, RedisOK
<1>7. \A o \in Owner : m \in ready'[o] => m \in ready[o] \/ Reaping(o, m)
  BY <1>1 DEF ReapStep, ReapScan, ReapRemove, ReapReady, redisVars, RedisOK, Requeued, Reaping
<1>8. \A o \in Owner : Reaping(o, m)' => m \in reaper[o].todo
  <2>1. reaper[p] \in ReapRec
    BY <1>1 DEF ReaperOK
  <2>2. ASSUME NEW x \in Msg, ReapRemove(p, x), Reaping(p, m)' PROVE m \in reaper[p].todo
    BY <1>1, <2>1, <2>2 DEF ReapRemove, Reaping, ReaperOK, ReapRec
  <2>3. ASSUME ReapScan(p) \/ ReapReady(p) PROVE ~Reaping(p, m)'
    BY <1>1, <2>1, <2>3 DEF ReapScan, ReapReady, Reaping, ReaperOK, NoReap
  <2> QED
    BY <1>1, <1>4, <2>2, <2>3 DEF ReapStep, Reaping, ReaperOK
<1>9. \A o \in Owner : Reaping(o, m) => m \in reaper[o].todo
  BY <1>1 DEF Reaping, ReaperOK
<1>10. \A o \in Owner : Present(o, m)' => Present(o, m) \/ m \in reaper[o].todo
  BY <1>2, <1>5, <1>7, <1>8, <1>9 DEF Present, Holds
<1>11. \A o \in Owner : m \in reaper'[o].todo => m \in reaper[o].todo \/ m \in inflight[o]
  BY <1>4, <1>6
<1> QED
  BY <1>2, <1>3, <1>5, <1>10, <1>11, TasksStay

\* A restart ends tasks only.
LEMMA RestartStays ==
  ASSUME QueueInv, NEW m \in Msg, NEW n \in Node, Restart(n)
  PROVE  Stays(m)
PROOF
<1>1. Typed
  BY DEF QueueInv
<1>2. /\ UNCHANGED <<body, copies, ready, inflight, acked>>
      /\ publish' = [x \in Msg |-> IF publish[x].at = "busy" /\ publish[x].node = n
                                     THEN [publish[x] EXCEPT !.at = "failed"] ELSE publish[x]]
      /\ store' = [x \in Msg |-> [o \in Owner |->
                      IF o = n /\ store[x][o] # "stored" THEN "none" ELSE store[x][o]]]
      /\ consume' = [c \in Consumer |->
                       IF consume[c].owner = n THEN NoConsume ELSE consume[c]]
      /\ reaper' = [o \in Owner |-> IF o = n THEN NoReap ELSE reaper[o]]
      /\ ack' = [a \in Acker |-> IF ack[a].node = n THEN NoAck ELSE ack[a]]
  BY DEF Restart, redisVars
<1>3. publish'[m].at = publish[m].at \/ publish'[m].at = "failed"
  BY <1>1, <1>2 DEF Typed, PublishOK, PublishRec
<1>4. \A o \in Owner : store'[m][o] = store[m][o] \/ store'[m][o] = "none"
  BY <1>2
<1>5. \A c \in Consumer : consume'[c] = consume[c] \/ consume'[c] = NoConsume
  BY <1>2
<1>6. \A o \in Owner : o # n => reaper'[o] = reaper[o]
  BY <1>2
<1>7. \A o \in Owner : o = n => reaper'[o] = NoReap
  BY <1>2
<1>8. \A o \in Owner, c \in Consumer : Holds(c, o, m)' => Holds(c, o, m)
  BY <1>5 DEF Holds, NoConsume
<1>9. \A o \in Owner : Present(o, m)' => Present(o, m)
  BY <1>2, <1>6, <1>7, <1>8 DEF Present, Reaping, NoReap
<1>10. \A o \in Owner, c \in Consumer : o # n /\ Holds(c, o, m) => Holds(c, o, m)'
  BY <1>2 DEF Holds
<1>11. \A o \in Owner : m \in reaper'[o].todo =>
         m \in reaper[o].todo /\ (Present(o, m) => Present(o, m)')
  BY <1>2, <1>6, <1>7, <1>10 DEF Present, Reaping, NoReap
<1>12. Carried(m)' => Carried(m)
  BY <1>3, <1>4, <1>5, <1>6, <1>7 DEF Carried, NoReap, NoConsume
<1>13. \A a \in Acker : ack'[a] = ack[a] \/ ack'[a] = NoAck
  BY <1>2
<1>14. publish'[m].at = "new" => publish[m].at = "new"
  BY <1>3
<1>15. ASSUME NEW o \in Owner PROVE StaysAt(o, m)
  BY <1>2, <1>4, <1>9, <1>11 DEF StaysAt
<1> QED
  BY <1>2, <1>12, <1>13, <1>14, <1>15 DEF Stays

-----------------------------------------------------------------------------
(***************************************************************************)
(* Acks.                                                                   *)
(***************************************************************************)

\* An ack that starts with all counted owners has every copy before it.
LEMMA StartAckStays ==
  ASSUME QueueInv, NEW m \in Msg, MsgOK(m),
         NEW a \in Acker, NEW n \in Node, NEW x \in Msg,
         AckAny(a, n, x) \/ AckOwnerInternal(a, n, x)
  PROVE  MsgOK(m)'
PROOF
<1>1. ack \in [Acker -> AckRec]
  BY DEF QueueInv, Typed, AckOK
<1>2. PICK targets \in SUBSET Owner, whole \in BOOLEAN :
        StartAck(a, n, x, targets, whole) /\ (whole => targets = copies[x])
  <2>1. copies[x] \in SUBSET Owner
    BY DEF QueueInv, Typed, RedisOK
  <2>2. CASE AckAny(a, n, x)
    BY <2>1, <2>2 DEF AckAny
  <2>3. CASE AckOwnerInternal(a, n, x)
    BY <2>3 DEF AckOwnerInternal
  <2> QED
    BY <2>2, <2>3
<1> PICK k : k = [NoAck EXCEPT !.at = "inflight", !.node = n, !.msg = x,
                               !.todo = targets, !.whole = whole]
  OBVIOUS
<1>3. /\ ack' = [ack EXCEPT ![a] = k]
      /\ UNCHANGED <<body, copies, ready, inflight, publish, store, consume, reaper, acked>>
  BY <1>2 DEF StartAck, redisVars
<1>4. k.at = "inflight" /\ k.msg = x /\ k.todo = targets /\ k.whole = whole
  BY DEF NoAck
<1>5. \A o \in Owner : Present(o, m)' <=> Present(o, m)
  BY <1>3 DEF Present, Holds, Reaping
<1>6. \A o \in Owner : Counted(o, m)'
  BY <1>3, <1>5 DEF MsgOK, Counted
<1>7. m \in acked' => Gone(m)'
  BY <1>3, <1>5 DEF MsgOK, Gone, Carried
<1>8. ASSUME NEW b \in Acker, ack'[b].msg = m PROVE AckKnows(b, m)'
  <2>1. CASE b = a
    <3>1. ack'[a] = k
      BY <1>1, <1>3
    <3>2. x = m
      BY <1>4, <1>8, <2>1, <3>1
    <3>3. whole => \A o \in Owner : Present(o, m)' => o \in targets
      BY <1>2, <1>5, <3>2 DEF MsgOK, Counted
    <3> QED
      BY <1>4, <2>1, <3>1, <3>3 DEF AckKnows
  <2>2. CASE b # a
    <3>1. ack'[b] = ack[b]
      BY <1>1, <1>3, <2>2
    <3>2. AckKnows(b, m)
      BY <1>8, <3>1 DEF MsgOK
    <3>3. ack[b].at \notin {"idle", "inflight"} => ack[b].owner \in Owner
      BY DEF QueueInv, Typed, AckOK
    <3> QED
      BY <1>3, <1>5, <3>1, <3>2, <3>3 DEF AckKnows
  <2> QED
    BY <2>1, <2>2
<1> QED
  BY <1>6, <1>7, <1>8 DEF MsgOK

\* An ack's step leaves other messages, and other acks, alone.
LEMMA AckLeaves ==
  ASSUME QueueInv, NEW a \in Acker, AckStep(a)
  PROVE  /\ ack[a].at # "idle" /\ UNCHANGED <<publish, store, consume, reaper, delivered>>
         /\ \A b \in Acker : b # a => ack'[b] = ack[b]
         /\ ack'[a].msg = ack[a].msg \/ ack'[a] = NoAck
         /\ \A x \in Msg : x # ack[a].msg =>
              /\ x \in body' <=> x \in body
              /\ x \in acked' <=> x \in acked
              /\ copies'[x] = copies[x]
              /\ \A o \in Owner : /\ x \in ready'[o] <=> x \in ready[o]
                                  /\ x \in inflight'[o] <=> x \in inflight[o]
PROOF
<1>1. ack \in [Acker -> AckRec] /\ ack[a] \in AckRec /\ RedisOK
  BY DEF QueueInv, Typed, AckOK
<1>2. /\ ack[a].at # "idle"
      /\ UNCHANGED <<publish, store, consume, reaper, delivered>>
  BY DEF AckStep, AckInflight, AckReady, AckOwner, AckCount, AckBody, AckOwners
<1>3. ASSUME NEW x \in Msg, x # ack[a].msg
      PROVE  /\ x \in body' <=> x \in body
             /\ copies'[x] = copies[x]
             /\ \A o \in Owner : /\ x \in ready'[o] <=> x \in ready[o]
                                 /\ x \in inflight'[o] <=> x \in inflight[o]
  <2>1. UNCHANGED body \/ body' = body \ {ack[a].msg}
    BY DEF AckStep, AckInflight, AckReady, AckOwner, AckCount, AckBody, AckOwners, redisVars
  <2>2. UNCHANGED copies \/ \E S : copies' = [copies EXCEPT ![ack[a].msg] = S]
    BY DEF AckStep, AckInflight, AckReady, AckOwner, AckCount, AckBody, AckOwners, redisVars
  <2>3. UNCHANGED ready \/ ready' = [ready EXCEPT ![ack[a].owner] = @ \ {ack[a].msg}]
    BY DEF AckStep, AckInflight, AckReady, LeaveReady, AckOwner, AckCount, AckBody, AckOwners,
           redisVars
  <2>4. \/ UNCHANGED inflight
        \/ \E p \in Owner : inflight' = [inflight EXCEPT ![p] = @ \ {ack[a].msg}]
    BY DEF AckStep, AckInflight, AckReady, AckOwner, AckCount, AckBody, AckOwners, redisVars
  <2>5. x \in body' <=> x \in body
    BY <1>3, <2>1
  <2>6. copies'[x] = copies[x]
    BY <1>1, <1>3, <2>2 DEF RedisOK
  <2>7. \A o \in Owner : x \in ready'[o] <=> x \in ready[o]
    BY <1>1, <1>3, <2>3 DEF RedisOK
  <2>8. \A o \in Owner : x \in inflight'[o] <=> x \in inflight[o]
    BY <1>1, <1>3, <2>4 DEF RedisOK
  <2> QED
    BY <2>5, <2>6, <2>7, <2>8
<1> DEFINE Kept ==
      /\ \A b \in Acker : b # a => ack'[b] = ack[b]
      /\ ack'[a].msg = ack[a].msg \/ ack'[a] = NoAck
      /\ \A x \in Msg : x # ack[a].msg => (x \in acked' <=> x \in acked)
<1>4. ASSUME NEW k, ack' = [ack EXCEPT ![a] = k], k.msg = ack[a].msg \/ k = NoAck,
             acked' = acked \/ acked' = acked \cup {ack[a].msg}
      PROVE  Kept
  <2>1. \A b \in Acker : b # a => ack'[b] = ack[b]
    BY <1>1, <1>4
  <2>2. ack'[a] = k
    BY <1>1, <1>4
  <2>3. \A x \in Msg : x # ack[a].msg => (x \in acked' <=> x \in acked)
    BY <1>4
  <2> QED
    BY <1>4, <2>1, <2>2, <2>3
<1>5. ASSUME NextOwner(a) PROVE Kept
  <2> PICK left : left = ack[a].todo \ {ack[a].owner}
    OBVIOUS
  <2> PICK any : any = (ack[a].any \/ ack[a].removed)
    OBVIOUS
  <2>1. acked' = acked \/ acked' = acked \cup {ack[a].msg}
    BY <1>5 DEF NextOwner
  <2>2. CASE left # {}
    <3> PICK k : k = [ack[a] EXCEPT !.at = "inflight", !.todo = left, !.any = any]
      OBVIOUS
    <3>1. ack' = [ack EXCEPT ![a].at = "inflight", ![a].todo = left, ![a].any = any]
      BY <1>5, <2>2, Zenon DEF NextOwner
    <3>2. ack' = [ack EXCEPT ![a] = k]
      BY <1>1, <3>1
    <3>3. k.msg = ack[a].msg
      BY <1>1 DEF AckRec
    <3> QED
      BY <1>4, <2>1, <3>2, <3>3
  <2>3. CASE left = {}
    <3>1. ack' = [ack EXCEPT ![a] = NoAck]
      BY <1>5, <2>3 DEF NextOwner
    <3> QED
      BY <1>4, <2>1, <3>1
  <2> QED
    BY <2>2, <2>3
<1>6. ASSUME ~NextOwner(a) PROVE Kept
  <2>1. UNCHANGED acked
    BY <1>6 DEF AckStep, AckInflight, AckReady, AckOwner, AckCount, AckBody, AckOwners
  <2>2. ASSUME NEW o \in Owner, AckInflight(a, o) PROVE Kept
    <3> PICK r : r = (ack[a].msg \in inflight[o])
      OBVIOUS
    <3> PICK k : k = [ack[a] EXCEPT !.at = "ready", !.owner = o, !.removed = r]
      OBVIOUS
    <3>1. ack' = [ack EXCEPT ![a].at = "ready", ![a].owner = o, ![a].removed = r]
      BY <2>2 DEF AckInflight
    <3>2. ack' = [ack EXCEPT ![a] = k]
      BY <1>1, <3>1
    <3>3. k.msg = ack[a].msg
      BY <1>1 DEF AckRec
    <3> QED
      BY <1>4, <2>1, <3>2, <3>3
  <2>3. ASSUME NEW at, ack' = [ack EXCEPT ![a].at = at] PROVE Kept
    <3> PICK k : k = [ack[a] EXCEPT !.at = at]
      OBVIOUS
    <3>1. ack' = [ack EXCEPT ![a] = k]
      BY <2>3
    <3>2. k.msg = ack[a].msg
      BY <1>1 DEF AckRec
    <3> QED
      BY <1>4, <2>1, <3>1, <3>2
  <2>4. ASSUME AckReady(a) \/ AckOwner(a) \/ AckCount(a) \/ AckBody(a) \/ AckOwners(a)
        PROVE  \E at : ack' = [ack EXCEPT ![a].at = at]
    BY <1>6, <2>4 DEF AckReady, AckOwner, AckCount, AckBody, AckOwners
  <2> QED
    BY <2>2, <2>3, <2>4 DEF AckStep
<1>7. Kept
  BY <1>5, <1>6
<1> QED
  BY <1>2, <1>3, <1>7

\* What is known of another message stays true.
LEMMA AckOthers ==
  ASSUME QueueInv, NEW a \in Acker, AckStep(a), NEW m \in Msg, m # ack[a].msg, MsgOK(m)
  PROVE  MsgOK(m)'
PROOF
<1>1. /\ UNCHANGED <<publish, store, consume, reaper>>
      /\ \A b \in Acker : b # a => ack'[b] = ack[b]
      /\ ack'[a].msg # m
      /\ m \in body' <=> m \in body
      /\ m \in acked' <=> m \in acked
      /\ copies'[m] = copies[m]
      /\ \A o \in Owner : /\ m \in ready'[o] <=> m \in ready[o]
                          /\ m \in inflight'[o] <=> m \in inflight[o]
  BY AckLeaves, NoneIsNothing DEF NoAck
<1>2. \A o \in Owner : Present(o, m)' <=> Present(o, m)
  BY <1>1 DEF Present, Reaping, Holds
<1>3. \A o \in Owner : Counted(o, m)'
  BY <1>1, <1>2 DEF MsgOK, Counted
<1>4. m \in acked' => Gone(m)'
  BY <1>1, <1>2 DEF MsgOK, Gone, Carried
<1>5. ASSUME NEW b \in Acker, ack'[b].msg = m PROVE AckKnows(b, m)'
  <2>1. ack'[b] = ack[b]
    BY <1>1, <1>5
  <2>2. AckKnows(b, m)
    BY <1>5, <2>1 DEF MsgOK
  <2>3. ack[b].at \notin {"idle", "inflight"} => ack[b].owner \in Owner
    BY DEF QueueInv, Typed, AckOK
  <2> QED
    BY <1>1, <1>2, <2>1, <2>2, <2>3 DEF AckKnows
<1> QED
  BY <1>3, <1>4, <1>5 DEF MsgOK

\* What ack a must know of its message after its step: what is left to see to,
\* or, once the answer is True, that nothing is left.
KnowsNext(a, m) ==
  /\ ack'[a].msg = m => AckKnows(a, m)'
  /\ m \in acked' => m \in acked \/ \A o \in Owner : ~Present(o, m)'

\* An ack goes on when the owner at hand has no copy any more.
LEMMA NextKnows ==
  ASSUME QueueInv, NEW a \in Acker, NEW m \in Msg, m = ack[a].msg, NextOwner(a),
         NEW p, p = ack[a].owner, ~Present(p, m)',
         ack[a].whole => \A o \in Owner : Present(o, m)' => o \in ack[a].todo
  PROVE  KnowsNext(a, m)
PROOF
<1>1. ack \in [Acker -> AckRec] /\ ack[a] \in AckRec
  BY DEF QueueInv, Typed, AckOK
<1> PICK left : left = ack[a].todo \ {p}
  OBVIOUS
<1> PICK any : any = (ack[a].any \/ ack[a].removed)
  OBVIOUS
<1>2. ack[a].whole => \A o \in Owner : Present(o, m)' => o \in left
  OBVIOUS
<1>3. CASE left # {}
  <2> PICK k : k = [ack[a] EXCEPT !.at = "inflight", !.todo = left, !.any = any]
    OBVIOUS
  <2>1. /\ ack' = [ack EXCEPT ![a].at = "inflight", ![a].todo = left, ![a].any = any]
        /\ acked' = acked
    BY <1>3, Zenon DEF NextOwner
  <2>2. ack' = [ack EXCEPT ![a] = k]
    BY <1>1, <2>1
  <2>3. k.at = "inflight" /\ k.todo = left /\ k.whole = ack[a].whole
    BY <1>1 DEF AckRec
  <2>4. ack'[a] = k
    BY <1>1, <2>2
  <2> QED
    BY <1>2, <2>1, <2>3, <2>4 DEF AckKnows, KnowsNext
<1>4. CASE left = {}
  <2>1. /\ ack' = [ack EXCEPT ![a] = NoAck]
        /\ acked' = IF any /\ ack[a].whole THEN acked \cup {m} ELSE acked
    BY <1>4 DEF NextOwner
  <2>2. ack'[a] = NoAck
    BY <1>1, <2>1
  <2>3. ack'[a].msg # m
    BY <2>2, NoneIsNothing DEF NoAck
  <2>4. m \in acked' => m \in acked \/ ack[a].whole
    BY <2>1
  <2> QED
    BY <1>2, <1>4, <2>3, <2>4 DEF KnowsNext
<1> QED
  BY <1>3, <1>4

\* An ack that goes on to another command on the same owner.
LEMMA SameOwnerKnows ==
  ASSUME QueueInv, NEW a \in Acker, NEW m \in Msg, NEW at, acked' = acked,
         ack' = [ack EXCEPT ![a].at = at], NEW p \in Owner, p = ack[a].owner,
         at \in {"owner", "count", "body", "owners"}, ~Present(p, m)',
         at \in {"body", "owners"} => copies'[m] = {},
         ack[a].whole => \A o \in Owner : Present(o, m)' => o \in ack[a].todo
  PROVE  KnowsNext(a, m)
PROOF
<1>1. ack \in [Acker -> AckRec] /\ ack[a] \in AckRec
  BY DEF QueueInv, Typed, AckOK
<1> PICK k : k = [ack[a] EXCEPT !.at = at]
  OBVIOUS
<1>2. k.at = at /\ k.owner = p /\ k.whole = ack[a].whole /\ k.todo = ack[a].todo
  BY <1>1 DEF AckRec
<1>3. ack'[a] = k
  BY <1>1
<1> QED
  BY <1>2, <1>3 DEF AckKnows, KnowsNext

\* What an ack does to a message that no task carries.
LEMMA AckOwn ==
  ASSUME QueueInv, NewUnseen, Racing \subseteq raced,
         NEW a \in Acker, AckStep(a),
         NEW m \in Msg, m = ack[a].msg, m \notin raced, MsgOK(m)
  PROVE  MsgOK(m)'
PROOF
<1>1. /\ RedisOK /\ ack \in [Acker -> AckRec] /\ ack[a] \in AckRec
      /\ ack[a].at \notin {"idle", "inflight"} => ack[a].owner \in Owner
  BY DEF QueueInv, Typed, AckOK
<1>2. /\ UNCHANGED <<publish, store, consume, reaper>>
      /\ \A b \in Acker : b # a => ack'[b] = ack[b]
  BY AckLeaves
<1>3. ~Carried(m) /\ AckKnows(a, m)
  BY DEF Racing, MsgOK
<1>4. publish[m].at # "new"
  <2>1. m \in touched /\ touched \subseteq delivered
    BY AckLeaves DEF QueueInv, Typed, AckOK, HistoryOK
  <2> QED
    BY <2>1 DEF NewUnseen
<1>5. \A o \in Owner : /\ Present(o, m) <=> m \in ready[o] \/ m \in inflight[o]
                       /\ Present(o, m)' <=> m \in ready'[o] \/ m \in inflight'[o]
  <2>1. \A o \in Owner : m \notin reaper[o].todo /\ \A c \in Consumer : ~Holds(c, o, m)
    BY <1>3 DEF Carried, Holds
  <2>2. \A o \in Owner : ~Reaping(o, m)
    BY <2>1 DEF Reaping, QueueInv, Typed, ReaperOK
  <2> QED
    BY <1>2, <2>1, <2>2 DEF Present, Reaping, Holds
<1>6. /\ \A o \in Owner : /\ m \in ready'[o] => m \in ready[o]
                          /\ m \in inflight'[o] => m \in inflight[o]
      /\ copies'[m] \subseteq copies[m]
      /\ ack[a].at # "owner" /\ copies[m] # {} => copies'[m] = copies[m]
      /\ ack[a].at # "body" => body' = body
      /\ ack[a].at = "owner" => copies'[m] = copies[m] \ {ack[a].owner}
  <2>1. \A o \in Owner : m \in ready'[o] => m \in ready[o]
    <3>1. UNCHANGED ready \/ ready' = [ready EXCEPT ![ack[a].owner] = @ \ {m}]
      BY DEF AckStep, AckInflight, AckReady, LeaveReady, AckOwner, AckCount, AckBody,
             AckOwners, redisVars
    <3> QED
      BY <1>1, <3>1 DEF RedisOK
  <2>2. \A o \in Owner : m \in inflight'[o] => m \in inflight[o]
    <3>1. \/ UNCHANGED inflight
          \/ \E p \in Owner : inflight' = [inflight EXCEPT ![p] = @ \ {m}]
      BY DEF AckStep, AckInflight, AckReady, AckOwner, AckCount, AckBody, AckOwners, redisVars
    <3> QED
      BY <1>1, <3>1 DEF RedisOK
  <2>3. ack[a].at = "owner" => copies'[m] = copies[m] \ {ack[a].owner}
    BY <1>1 DEF AckStep, AckInflight, AckReady, AckOwner, AckCount, AckBody, AckOwners, RedisOK
  <2>4. ack[a].at = "owners" => copies'[m] = {} /\ copies[m] = {}
    <3>1. ack[a].at = "owners" => copies' = [copies EXCEPT ![m] = {}]
      BY DEF AckStep, AckInflight, AckReady, AckOwner, AckCount, AckBody, AckOwners
    <3> QED
      BY <1>1, <1>3, <3>1 DEF RedisOK, AckKnows
  <2>5. ack[a].at \notin {"owner", "owners"} => copies' = copies
    BY DEF AckStep, AckInflight, AckReady, AckOwner, AckCount, AckBody, AckOwners, redisVars
  <2>6. ack[a].at # "body" => body' = body
    BY DEF AckStep, AckInflight, AckReady, AckOwner, AckCount, AckBody, AckOwners, redisVars
  <2> QED
    BY <2>1, <2>2, <2>3, <2>4, <2>5, <2>6
<1>7. \A o \in Owner : Present(o, m)' => Present(o, m)
  BY <1>5, <1>6
<1>8. ASSUME NEW o \in Owner PROVE Counted(o, m)'
  <2>1. Counted(o, m)
    BY DEF MsgOK
  <2>2. Present(o, m)' => o \in copies'[m] /\ m \in body'
    BY <1>3, <1>6, <1>7, <2>1 DEF Counted, AckKnows
  <2>3. m \notin reaper'[o].todo /\ store'[m][o] \notin {"owner", "ready"}
    BY <1>2, <1>3 DEF Carried
  <2> QED
    BY <2>2, <2>3 DEF Counted
<1>9. ASSUME NEW b \in Acker, b # a, ack'[b].msg = m PROVE AckKnows(b, m)'
  <2>1. ack'[b] = ack[b]
    BY <1>2, <1>9
  <2>2. AckKnows(b, m)
    BY <1>9, <2>1 DEF MsgOK
  <2>3. ack[b].at \notin {"idle", "inflight"} => ack[b].owner \in Owner
    BY DEF QueueInv, Typed, AckOK
  <2>4. copies[m] = {} => copies'[m] = {}
    BY <1>6
  <2> QED
    BY <1>6, <1>7, <2>1, <2>2, <2>3, <2>4 DEF AckKnows
<1>10. ack[a].whole => \A o \in Owner : Present(o, m)' => o \in ack[a].todo
  BY <1>3, <1>7 DEF AckKnows
<1>11. KnowsNext(a, m)
  <2> PICK q : q = ack[a].owner
    OBVIOUS
  <2>1. ASSUME NEW o \in Owner, AckInflight(a, o) PROVE KnowsNext(a, m)
    <3> PICK r : r = (m \in inflight[o])
      OBVIOUS
    <3> PICK k : k = [ack[a] EXCEPT !.at = "ready", !.owner = o, !.removed = r]
      OBVIOUS
    <3>1. /\ ack' = [ack EXCEPT ![a].at = "ready", ![a].owner = o, ![a].removed = r]
          /\ inflight' = [inflight EXCEPT ![o] = @ \ {m}] /\ acked' = acked
      BY <2>1 DEF AckInflight
    <3>2. ack' = [ack EXCEPT ![a] = k]
      BY <1>1, <3>1
    <3>3. ack'[a] = k
      BY <1>1, <3>2
    <3>4. k.at = "ready" /\ k.owner = o /\ k.whole = ack[a].whole /\ k.todo = ack[a].todo
      BY <1>1 DEF AckRec
    <3>5. m \notin inflight'[o]
      BY <1>1, <3>1 DEF RedisOK
    <3> QED
      BY <1>10, <3>1, <3>3, <3>4, <3>5 DEF AckKnows, KnowsNext
  <2>2. CASE AckReady(a)
    <3>1. /\ ack[a].at = "ready" /\ q \in Owner
          /\ ready' = [ready EXCEPT ![q] = @ \ {m}] /\ UNCHANGED <<inflight, copies>>
          /\ (ack' = [ack EXCEPT ![a].at = "owner"] /\ acked' = acked) \/ NextOwner(a)
      BY <1>1, <2>2 DEF AckReady, LeaveReady
    <3>2. m \notin ready'[q] /\ m \notin inflight'[q]
      BY <1>1, <1>3, <3>1 DEF RedisOK, AckKnows
    <3>3. ~Present(q, m)'
      BY <1>5, <3>1, <3>2
    <3> QED
      BY <1>10, <3>1, <3>3, NextKnows, SameOwnerKnows
  <2>3. CASE AckOwner(a)
    <3>1. /\ ack[a].at = "owner" /\ q \in Owner
          /\ ack' = [ack EXCEPT ![a].at = "count"] /\ acked' = acked
      BY <1>1, <2>3 DEF AckOwner
    <3>2. ~Present(q, m)'
      BY <1>3, <1>7, <3>1 DEF AckKnows
    <3> QED
      BY <1>10, <3>1, <3>2, SameOwnerKnows
  <2>4. CASE AckCount(a)
    <3>1. /\ ack[a].at = "count" /\ q \in Owner /\ UNCHANGED copies
          /\ \/ ack' = [ack EXCEPT ![a].at = "body"] /\ acked' = acked /\ copies[m] = {}
             \/ NextOwner(a)
      BY <1>1, <2>4 DEF AckCount, LastCopy, redisVars
    <3>2. ~Present(q, m)'
      BY <1>3, <1>7, <3>1 DEF AckKnows
    <3> QED
      BY <1>10, <3>1, <3>2, NextKnows, SameOwnerKnows
  <2>5. CASE AckBody(a)
    <3>1. /\ ack[a].at = "body" /\ q \in Owner /\ UNCHANGED copies
          /\ ack' = [ack EXCEPT ![a].at = "owners"] /\ acked' = acked
      BY <1>1, <2>5 DEF AckBody
    <3>2. ~Present(q, m)' /\ copies'[m] = {}
      BY <1>3, <1>7, <3>1 DEF AckKnows
    <3> QED
      BY <1>10, <3>1, <3>2, SameOwnerKnows
  <2>6. CASE AckOwners(a)
    <3>1. ack[a].at = "owners" /\ q \in Owner /\ NextOwner(a)
      BY <1>1, <2>6 DEF AckOwners
    <3>2. ~Present(q, m)'
      BY <1>3, <1>7, <3>1 DEF AckKnows
    <3> QED
      BY <1>10, <3>1, <3>2, NextKnows
  <2> QED
    BY <2>1, <2>2, <2>3, <2>4, <2>5, <2>6 DEF AckStep
<1>12. m \in acked' => Gone(m)'
  <2>1. m \in acked => \A o \in Owner : ~Present(o, m)
    BY DEF MsgOK, Gone
  <2> QED
    BY <1>2, <1>3, <1>4, <1>7, <1>11, <2>1 DEF KnowsNext, Gone, Carried
<1>13. \A b \in Acker : ack'[b].msg = m => AckKnows(b, m)'
  BY <1>9, <1>11 DEF KnowsNext
<1> QED
  BY <1>8, <1>12, <1>13 DEF MsgOK

-----------------------------------------------------------------------------
(***************************************************************************)
(* The theorems.                                                           *)
(***************************************************************************)

\* Only what was published is popped, and only what was popped is delivered.
LEMMA NewUnseenStep ==
  ASSUME QueueInv, NewUnseen, Step
  PROVE  NewUnseen'
PROOF
<1>1. Typed
  BY DEF QueueInv
<1>2. \A m \in Msg : publish'[m].at = "new" => publish[m].at = "new"
  <2>1. publish \in [Msg -> PublishRec]
    BY <1>1 DEF Typed, PublishOK
  <2>2. ASSUME NEW x \in Msg, NEW n \in Node, PublishStart(x, n)
        PROVE  \A m \in Msg : publish'[m].at = "new" => publish[m].at = "new"
    BY <2>1, <2>2 DEF PublishStart
  <2>3. ASSUME NEW x \in Msg, PublishNext(x) \/ PublishTimesOut(x)
        PROVE  \A m \in Msg : publish'[m].at = "new" => publish[m].at = "new"
    BY <2>1, <2>3 DEF PublishNext, PublishTimesOut, PublishRec
  <2>4. ASSUME NEW n \in Node, Restart(n)
        PROVE  \A m \in Msg : publish'[m].at = "new" => publish[m].at = "new"
    BY <2>1, <2>4 DEF Restart, PublishRec
  <2>5. CASE UNCHANGED publish
    BY <2>5
  <2> QED
    BY <2>2, <2>3, <2>4, <2>5 DEF Step, StoreStep, DeadlinePasses, taskVars, ConsumePop,
       ConsumeInflight, ConsumeReply, ReapStep, AckAny, AckOwnerInternal, StartAck, AckStep
<1>3. ASSUME NEW m \in Msg, publish[m].at = "new", NEW o \in Owner PROVE m \notin ready[o]
  BY <1>3 DEF QueueInv, OneCopy, Ahead, Nowhere
<1>4. CASE \E c \in Consumer, o \in Owner : ConsumePop(c, o)
  <2> PICK c \in Consumer, o \in Owner : ConsumePop(c, o)
    BY <1>4
  <2>1. PICK x \in ready[o] :
          consume' = [consume EXCEPT ![c] = [at |-> "inflight", owner |-> o, msg |-> x]]
    BY DEF ConsumePop
  <2>2. delivered' = delivered
    BY DEF ConsumePop
  <2>3. \A m \in Msg : publish[m].at = "new" => x # m
    BY <1>3
  <2>4. \A d \in Consumer : consume'[d].msg = consume[d].msg \/ consume'[d].msg = x
    BY <1>1, <2>1 DEF Typed, ConsumeOK
  <2> QED
    BY <1>2, <2>2, <2>3, <2>4 DEF NewUnseen
<1>5. CASE \E c \in Consumer : ConsumeInflight(c) \/ ConsumeReply(c)
  <2> PICK c \in Consumer : ConsumeInflight(c) \/ ConsumeReply(c)
    BY <1>5
  <2>1. delivered' \subseteq delivered \cup {consume[c].msg}
    BY DEF ConsumeInflight, ConsumeReply
  <2>2. \/ consume' = [consume EXCEPT ![c].at = "payload"]
        \/ consume' = [consume EXCEPT ![c] = NoConsume]
    BY DEF ConsumeInflight, ConsumeReply
  <2>3. \A d \in Consumer : consume'[d].msg = consume[d].msg \/ consume'[d].msg = None
    BY <1>1, <2>2 DEF Typed, ConsumeOK, ConsumeRec, NoConsume
  <2> QED
    BY <1>2, <2>1, <2>3, NoneIsNothing DEF NewUnseen
<1>6. CASE \E n \in Node : Restart(n)
  <2>1. /\ delivered' = delivered
        /\ \A d \in Consumer : consume'[d] = consume[d] \/ consume'[d] = NoConsume
    BY <1>6 DEF Restart
  <2> QED
    BY <1>2, <2>1, NoneIsNothing DEF NewUnseen, NoConsume
<1>7. CASE UNCHANGED <<delivered, consume>>
  BY <1>2, <1>7 DEF NewUnseen
<1> QED
  BY <1>4, <1>5, <1>6, <1>7 DEF Step, PublishStart, PublishNext, PublishTimesOut, StoreStep,
     DeadlinePasses, taskVars, ReapStep, AckAny, AckOwnerInternal, StartAck, AckStep

\* The invariant behind acks.
THEOREM AckInvariant == Spec => []AckInv
PROOF
<1>1. Init => AckInv
  <2> SUFFICES ASSUME Init PROVE AckInv
    OBVIOUS
  <2>1. Racing = {} /\ NewUnseen
    BY NoneIsNothing DEF Init, Racing, NewUnseen, NoAck, NoConsume
  <2>2. ASSUME NEW m \in Msg PROVE MsgOK(m)
    BY NoneIsNothing DEF Init, MsgOK, Counted, Present, Reaping, Holds, NoAck, NoConsume, NoReap
  <2> QED
    BY <2>1, <2>2 DEF AckInv
<1>2. QueueInv /\ AckInv /\ [Next]_vars => AckInv'
  <2> SUFFICES ASSUME QueueInv, AckInv, [Next]_vars PROVE AckInv'
    OBVIOUS
  <2>1. CASE UNCHANGED vars
    BY <2>1 DEF vars, redisVars, taskVars, historyVars, AckInv, Racing, NewUnseen, MsgOK,
                Counted, Gone, AckKnows, Present, Carried, Reaping, Holds
  <2>2. CASE Next
    <3>1. Step /\ raced' = raced \cup Racing'
      BY <2>2 DEF Next
    <3>2. Racing' \subseteq raced' /\ NewUnseen'
      BY <3>1, NewUnseenStep DEF AckInv
    <3>3. ASSUME NEW m \in Msg, m \notin raced' PROVE MsgOK(m)'
      <4>1. MsgOK(m) /\ m \notin raced /\ Racing \subseteq raced /\ NewUnseen
        BY <3>1, <3>3 DEF AckInv
      <4>2. ASSUME NEW a \in Acker, AckStep(a) PROVE MsgOK(m)'
        BY <4>1, <4>2, AckOwn, AckOthers
      <4>3. \/ Stays(m)
            \/ \E a \in Acker, n \in Node, x \in Msg : AckAny(a, n, x) \/ AckOwnerInternal(a, n, x)
            \/ \E a \in Acker : AckStep(a)
        BY <3>1, PublishStays, StoreStays, DeadlineStays, ConsumeStays, ReapStays, RestartStays
           DEF Step
      <4> QED
        BY <4>1, <4>2, <4>3, StaysOK, StartAckStays
    <3> QED
      BY <3>2, <3>3 DEF AckInv
  <2> QED
    BY <2>1, <2>2
<1> QED
  BY <1>1, <1>2, QueueInvariant, PTL DEF Spec

\* The payload outlives every copy, but for messages that a task carried while
\* they were being acked.
THEOREM PayloadOutlivesCopies == Spec => []BodyKept
PROOF
<1>1. AckInv => BodyKept
  BY PresentPlaces DEF AckInv, MsgOK, Counted, BodyKept
<1> QED
  BY <1>1, AckInvariant, PTL

\* After an answer of True no owner has the message, with the same exception.
THEOREM AckedIsGone == Spec => []AckIsFinal
PROOF
<1>1. QueueInv /\ AckInv => AckIsFinal
  <2>1. QueueInv => acked \subseteq Msg
    BY DEF QueueInv, Typed, HistoryOK
  <2> QED
    BY <2>1, PresentPlaces DEF AckInv, MsgOK, Gone, AckIsFinal
<1> QED
  BY <1>1, AckInvariant, QueueInvariant, PTL

-----------------------------------------------------------------------------
(***************************************************************************)
(* What nothing cleans up: an owner that is counted as holding a copy, and *)
(* holds none, stays counted, and the payload stays with it, for any       *)
(* number of acks, consumers, reapers and restarts.                        *)
(***************************************************************************)

\* An owner is counted only after it was told to store the message.
Uncounted(o, m) ==
  Ahead(o, m) \/ store[m][o] \in {"body", "owner"} => o \notin copies[m]

\* An ack removes an owner from the count only after a copy from inflight.
Removing ==
  \A a \in Acker : ack[a].at \in {"owner", "count", "body", "owners"} => ack[a].removed

LeftInv == Removing /\ \A o \in Owner, m \in Msg : Uncounted(o, m)

-----------------------------------------------------------------------------
(***************************************************************************)
(* How a copy gets counted.                                                *)
(***************************************************************************)

\* o is told once to store m, and is counted on the way.
CountMoves(o, m) ==
  /\ Ahead(o, m)' => Ahead(o, m)
  /\ store'[m][o] \in {"body", "owner"} => store[m][o] \in {"body", "owner"} \/ Ahead(o, m)
  /\ store'[m][o] \in {store[m][o], "none"} \/ Storing(o, m) \/ Ahead(o, m)
  /\ o \in copies'[m] =>
       o \in copies[m] \/ (store[m][o] = "owner" /\ store'[m][o] = "ready")

\* Steps of everything but publish and the tasks that store.
LEMMA OthersMove ==
  ASSUME NEW o, NEW m, UNCHANGED <<publish, store>>, copies'[m] \subseteq copies[m]
  PROVE  CountMoves(o, m)
BY DEF CountMoves, Ahead

\* Every step moves a copy forward or nowhere.
LEMMA CountMovesOn ==
  ASSUME QueueInv, NEW o \in Owner, NEW m \in Msg, Step
  PROVE  CountMoves(o, m)
PROOF
<1>1. /\ RedisOK /\ publish \in [Msg -> PublishRec]
      /\ store \in [Msg -> [Owner -> {"none", "body", "owner", "ready", "stored"}]]
      /\ \A x \in Msg : publish[x].at = "busy" => publish[x].i >= 1
  BY DEF QueueInv, Typed, PublishOK
<1>2. ASSUME NEW x \in Msg, NEW n \in Node, PublishStart(x, n) PROVE CountMoves(o, m)
  <2>1. /\ publish[x].at = "new" /\ UNCHANGED copies
        /\ publish' = [publish EXCEPT ![x] = [at |-> "busy", node |-> n, i |-> 1]]
        /\ store'   = [store EXCEPT ![x][Owners[1]] = "body"]
    BY <1>2 DEF PublishStart, redisVars
  <2>2. CASE x = m
    BY <1>1, <2>1, <2>2 DEF CountMoves, Ahead
  <2>3. CASE x # m
    BY <1>1, <2>1, <2>3 DEF CountMoves, Ahead
  <2> QED
    BY <2>2, <2>3
<1>3. ASSUME NEW x \in Msg, PublishNext(x) PROVE CountMoves(o, m)
  <2> PICK i : i = publish[x].i
    OBVIOUS
  <2>1. publish[x].at = "busy" /\ UNCHANGED copies /\ i \in 1 .. Len(Owners)
    BY <1>1, <1>3, OwnersListed DEF PublishNext, redisVars, PublishRec
  <2>2. CASE x # m
    <3>1. publish'[m] = publish[m] /\ store'[m] = store[m]
      BY <1>1, <1>3, <2>2 DEF PublishNext
    <3> QED
      BY <2>1, <3>1 DEF CountMoves, Ahead
  <2>3. CASE x = m /\ i < Len(Owners)
    <3>1. /\ publish' = [publish EXCEPT ![m].i = i + 1]
          /\ store'   = [store EXCEPT ![m][Owners[i + 1]] = "body"]
      BY <1>3, <2>3 DEF PublishNext
    <3>2. publish'[m].at = "busy" /\ publish'[m].i = i + 1
      BY <1>1, <2>1, <2>3, <3>1 DEF PublishRec
    <3>3. Ahead(o, m)' => Ahead(o, m)
      BY <2>1, <2>3, <3>2, OwnersListed DEF Ahead
    <3>4. store'[m][o] = store[m][o] \/ (store'[m][o] = "body" /\ o = Owners[i + 1])
      BY <1>1, <3>1
    <3>5. o = Owners[i + 1] => Ahead(o, m)
      BY <2>1, <2>3, OwnersListed DEF Ahead
    <3> QED
      BY <2>1, <3>3, <3>4, <3>5 DEF CountMoves
  <2>4. CASE x = m /\ ~(i < Len(Owners))
    <3>1. publish' = [publish EXCEPT ![m].at = "done"] /\ UNCHANGED store
      BY <1>3, <2>4 DEF PublishNext
    <3>2. publish'[m].at = "done"
      BY <1>1, <3>1 DEF PublishRec
    <3> QED
      BY <2>1, <3>1, <3>2 DEF CountMoves, Ahead
  <2> QED
    BY <2>2, <2>3, <2>4
<1>4. ASSUME NEW x \in Msg, PublishTimesOut(x) PROVE CountMoves(o, m)
  <2>1. publish' = [publish EXCEPT ![x].at = "failed"] /\ UNCHANGED <<copies, store>>
    BY <1>4 DEF PublishTimesOut, redisVars
  <2>2. publish'[m] = publish[m] \/ publish'[m].at = "failed"
    BY <1>1, <2>1 DEF PublishRec
  <2> QED
    BY <2>1, <2>2 DEF CountMoves, Ahead
<1>5. ASSUME NEW x \in Msg, NEW p \in Owner, StoreStep(x, p) PROVE CountMoves(o, m)
  <2>1. UNCHANGED publish
    BY <1>5 DEF StoreStep
  <2>2. \/ /\ store[x][p] = "body" /\ store' = [store EXCEPT ![x][p] = "owner"]
           /\ UNCHANGED copies
        \/ /\ store[x][p] = "owner" /\ store' = [store EXCEPT ![x][p] = "ready"]
           /\ copies' = [copies EXCEPT ![x] = @ \cup {p}]
        \/ /\ store[x][p] = "ready" /\ store' = [store EXCEPT ![x][p] = "stored"]
           /\ UNCHANGED copies
    BY <1>5 DEF StoreStep, StoreBody, StoreOwner, StoreReady
  <2>3. CASE x = m /\ p = o
    BY <1>1, <2>1, <2>2, <2>3 DEF CountMoves, Ahead, Storing, RedisOK
  <2>4. CASE ~(x = m /\ p = o)
    <3>1. store'[m][o] = store[m][o] /\ (o \in copies'[m] => o \in copies[m])
      BY <1>1, <2>2, <2>4 DEF RedisOK
    <3> QED
      BY <2>1, <3>1 DEF CountMoves, Ahead
  <2> QED
    BY <2>3, <2>4
<1>6. ASSUME NEW n \in Node, Restart(n) PROVE CountMoves(o, m)
  <2>1. /\ UNCHANGED copies
        /\ publish' = [x \in Msg |-> IF publish[x].at = "busy" /\ publish[x].node = n
                                       THEN [publish[x] EXCEPT !.at = "failed"] ELSE publish[x]]
        /\ store' = [x \in Msg |-> [p \in Owner |->
                        IF p = n /\ store[x][p] # "stored" THEN "none" ELSE store[x][p]]]
    BY <1>6 DEF Restart, redisVars
  <2>2. publish'[m] = publish[m] \/ publish'[m].at = "failed"
    BY <1>1, <2>1 DEF PublishRec
  <2>3. store'[m][o] \in {store[m][o], "none"}
    BY <2>1
  <2> QED
    BY <2>1, <2>2, <2>3 DEF CountMoves, Ahead
<1>7. ASSUME NEW a \in Acker, AckStep(a) PROVE CountMoves(o, m)
  <2>1. UNCHANGED <<publish, store>>
    BY <1>7, AckLeaves
  <2>2. \/ UNCHANGED copies
        \/ copies' = [copies EXCEPT ![ack[a].msg] = @ \ {ack[a].owner}]
        \/ copies' = [copies EXCEPT ![ack[a].msg] = {}]
    BY <1>7 DEF AckStep, AckInflight, AckReady, AckOwner, AckCount, AckBody, AckOwners, redisVars
  <2>3. copies'[m] \subseteq copies[m]
    BY <1>1, <2>2 DEF RedisOK
  <2> QED
    BY <2>1, <2>3, OthersMove
<1>8. CASE UNCHANGED <<publish, store, copies>>
  BY <1>8, OthersMove
<1> QED
  BY <1>2, <1>3, <1>4, <1>5, <1>6, <1>7, <1>8 DEF Step, DeadlinePasses, taskVars, ConsumePop,
     ConsumeInflight, ConsumeReply, redisVars, ReapStep, ReapScan, ReapRemove, ReapReady,
     AckAny, AckOwnerInternal, StartAck

-----------------------------------------------------------------------------
(***************************************************************************)
(* Acks.                                                                   *)
(***************************************************************************)

\* What an ack is at, whose copy it has at hand and whether it removed one.
Goes(a, at, o, removed) ==
  ack'[a].at = at /\ ack'[a].owner = o /\ ack'[a].removed = removed

\* The steps of an ack, by what it looks at next.
LEMMA AckGoes ==
  ASSUME QueueInv, NEW a \in Acker, AckStep(a)
  PROVE  \/ \E o \in Owner : Goes(a, "ready", o, ack[a].msg \in inflight[o])
         \/ ack[a].removed /\ Goes(a, "owner", ack[a].owner, ack[a].removed)
         \/ ack[a].at = "owner" /\ Goes(a, "count", ack[a].owner, ack[a].removed)
         \/ /\ ack[a].at = "count" /\ copies[ack[a].msg] = {}
            /\ Goes(a, "body", ack[a].owner, ack[a].removed)
         \/ ack[a].at = "body" /\ Goes(a, "owners", ack[a].owner, ack[a].removed)
         \/ Goes(a, "inflight", ack[a].owner, ack[a].removed)
         \/ ack'[a] = NoAck
PROOF
<1>1. ack \in [Acker -> AckRec] /\ ack[a] \in AckRec
  BY DEF QueueInv, Typed, AckOK
<1>2. ASSUME NEW o \in Owner, AckInflight(a, o)
      PROVE  Goes(a, "ready", o, ack[a].msg \in inflight[o])
  <2> PICK r : r = (ack[a].msg \in inflight[o])
    OBVIOUS
  <2> PICK k : k = [ack[a] EXCEPT !.at = "ready", !.owner = o, !.removed = r]
    OBVIOUS
  <2>1. ack' = [ack EXCEPT ![a].at = "ready", ![a].owner = o, ![a].removed = r]
    BY <1>2 DEF AckInflight
  <2>2. ack' = [ack EXCEPT ![a] = k]
    BY <1>1, <2>1
  <2>3. ack'[a] = k /\ k.at = "ready" /\ k.owner = o /\ k.removed = r
    BY <1>1, <2>2 DEF AckRec
  <2> QED
    BY <2>3 DEF Goes
<1>3. ASSUME NEW at, ack' = [ack EXCEPT ![a].at = at]
      PROVE  Goes(a, at, ack[a].owner, ack[a].removed)
  <2> PICK k : k = [ack[a] EXCEPT !.at = at]
    OBVIOUS
  <2>1. ack' = [ack EXCEPT ![a] = k]
    BY <1>3
  <2>2. ack'[a] = k /\ k.at = at /\ k.owner = ack[a].owner /\ k.removed = ack[a].removed
    BY <1>1, <2>1 DEF AckRec
  <2> QED
    BY <2>2 DEF Goes
<1>4. ASSUME NextOwner(a)
      PROVE  Goes(a, "inflight", ack[a].owner, ack[a].removed) \/ ack'[a] = NoAck
  <2> PICK left : left = ack[a].todo \ {ack[a].owner}
    OBVIOUS
  <2> PICK any : any = (ack[a].any \/ ack[a].removed)
    OBVIOUS
  <2>1. CASE left # {}
    <3> PICK k : k = [ack[a] EXCEPT !.at = "inflight", !.todo = left, !.any = any]
      OBVIOUS
    <3>1. ack' = [ack EXCEPT ![a].at = "inflight", ![a].todo = left, ![a].any = any]
      BY <1>4, <2>1, Zenon DEF NextOwner
    <3>2. ack' = [ack EXCEPT ![a] = k]
      BY <1>1, <3>1
    <3>3. /\ ack'[a] = k /\ k.at = "inflight"
          /\ k.owner = ack[a].owner /\ k.removed = ack[a].removed
      BY <1>1, <3>2 DEF AckRec
    <3> QED
      BY <3>3 DEF Goes
  <2>2. CASE left = {}
    <3>1. ack' = [ack EXCEPT ![a] = NoAck]
      BY <1>4, <2>2 DEF NextOwner
    <3> QED
      BY <1>1, <3>1
  <2> QED
    BY <2>1, <2>2
<1>5. CASE AckReady(a)
  BY <1>3, <1>4, <1>5 DEF AckReady
<1>6. CASE AckOwner(a)
  BY <1>3, <1>6 DEF AckOwner
<1>7. CASE AckCount(a)
  BY <1>3, <1>4, <1>7 DEF AckCount, LastCopy
<1>8. CASE AckBody(a)
  BY <1>3, <1>8 DEF AckBody
<1>9. CASE AckOwners(a)
  BY <1>4, <1>9 DEF AckOwners
<1> QED
  BY <1>2, <1>5, <1>6, <1>7, <1>8, <1>9 DEF AckStep

\* Acks that a step leaves alone, ends or starts say nothing new of an owner.
LEMMA AcksEnd ==
  ASSUME QueueInv, Step, \A a \in Acker : ~AckStep(a)
  PROVE  \A a \in Acker : \/ ack'[a] = ack[a] \/ ack'[a] = NoAck
                          \/ ack'[a].at = "inflight" /\ ack'[a].owner = None
PROOF
<1>1. ack \in [Acker -> AckRec]
  BY DEF QueueInv, Typed, AckOK
<1>2. ASSUME NEW a \in Acker, NEW n \in Node, NEW m \in Msg,
             AckAny(a, n, m) \/ AckOwnerInternal(a, n, m)
      PROVE  \A b \in Acker : \/ ack'[b] = ack[b]
                              \/ ack'[b].at = "inflight" /\ ack'[b].owner = None
  <2>1. PICK targets, whole : StartAck(a, n, m, targets, whole)
    BY <1>2 DEF AckAny, AckOwnerInternal
  <2> PICK k : k = [NoAck EXCEPT !.at = "inflight", !.node = n, !.msg = m,
                                 !.todo = targets, !.whole = whole]
    OBVIOUS
  <2>2. ack' = [ack EXCEPT ![a] = k] /\ k.at = "inflight" /\ k.owner = None
    BY <2>1 DEF StartAck, NoAck
  <2> QED
    BY <1>1, <2>2
<1>3. CASE \E n \in Node : Restart(n)
  BY <1>3 DEF Restart
<1>4. CASE UNCHANGED ack
  BY <1>4
<1> QED
  BY <1>2, <1>3, <1>4 DEF Step, PublishStart, PublishNext, PublishTimesOut, StoreStep,
     DeadlinePasses, taskVars, ConsumePop, ConsumeInflight, ConsumeReply, ReapStep

\* Both parts of the invariant are kept.
LEMMA LeftInvStep ==
  ASSUME QueueInv, LeftInv, Step
  PROVE  LeftInv'
PROOF
<1>1. ASSUME NEW o \in Owner, NEW m \in Msg PROVE Uncounted(o, m)'
  <2>1. Uncounted(o, m) /\ OneCopy(o, m) /\ CountMoves(o, m)
    BY CountMovesOn DEF LeftInv, QueueInv
  <2> QED
    BY <2>1 DEF Uncounted, OneCopy, CountMoves
<1>2. ASSUME NEW a \in Acker, ack'[a].at \in {"owner", "count", "body", "owners"}
      PROVE  ack'[a].removed
  <2>1. ack[a].at \in {"owner", "count", "body", "owners"} => ack[a].removed
    BY DEF LeftInv, Removing
  <2>2. CASE \E b \in Acker : AckStep(b)
    <3> PICK b \in Acker : AckStep(b)
      BY <2>2
    <3>1. CASE a = b
      <4>1. ack'[a].at = ack'[a].at /\ NoAck.at = "idle"
        BY DEF NoAck
      <4> QED
        BY <1>2, <2>1, <3>1, <4>1, AckGoes DEF Goes
    <3>2. CASE a # b
      BY <1>2, <2>1, <3>2, AckLeaves
    <3> QED
      BY <3>1, <3>2
  <2>3. CASE \A b \in Acker : ~AckStep(b)
    BY <1>2, <2>1, <2>3, AcksEnd DEF NoAck
  <2> QED
    BY <2>2, <2>3
<1> QED
  BY <1>1, <1>2 DEF LeftInv, Removing

\* An owner is told once to store a message, and acks count down in order.
THEOREM CountInvariant == Spec => []LeftInv
PROOF
<1>1. Init => LeftInv
  BY DEF Init, LeftInv, Removing, Uncounted, NoAck
<1>2. QueueInv /\ LeftInv /\ [Next]_vars => LeftInv'
  <2> SUFFICES ASSUME QueueInv, LeftInv, [Next]_vars PROVE LeftInv'
    OBVIOUS
  <2>1. CASE UNCHANGED vars
    BY <2>1 DEF vars, redisVars, taskVars, LeftInv, Removing, Uncounted, Ahead
  <2>2. CASE Next
    BY <2>2, LeftInvStep DEF Next
  <2> QED
    BY <2>1, <2>2
<1> QED
  BY <1>1, <1>2, QueueInvariant, PTL DEF Spec

-----------------------------------------------------------------------------
(***************************************************************************)
(* Leftovers.                                                              *)
(***************************************************************************)

\* What acks leave of a counted owner without a copy.
AckSpares(o, m) ==
  \A a \in Acker : ack[a].msg = m =>
    /\ ack[a].at \notin {"body", "owners"}
    /\ ack[a].owner = o => ~ack[a].removed

\* Steps other than those of acks.
LEMMA OthersLeave ==
  ASSUME QueueInv, LeftInv, Step, NEW o \in Owner, NEW m \in Msg, Leftover(o, m), Stays(m)
  PROVE  Leftover(o, m)'
PROOF
<1>1. /\ m \in body /\ o \in copies[m] /\ ~Present(o, m)
      /\ store[m][o] \in {"none", "stored"} /\ m \notin reaper[o].todo
      /\ AckSpares(o, m)
  BY PresentPlaces DEF Leftover, AckSpares
<1>2. StaysAt(o, m) /\ m \notin inflight[o]
  BY <1>1 DEF Stays, Present
<1>3. ~Present(o, m)' /\ m \notin reaper'[o].todo
  BY <1>1, <1>2 DEF StaysAt
<1>4. m \in body' /\ o \in copies'[m]
  BY <1>1 DEF Stays
<1>5. store'[m][o] \in {"none", "stored"}
  <2>1. Uncounted(o, m) /\ CountMoves(o, m)
    BY CountMovesOn DEF LeftInv
  <2> QED
    BY <1>1, <2>1 DEF Uncounted, CountMoves, Storing
<1>6. AckSpares(o, m)'
  <2>1. SUFFICES ASSUME NEW a \in Acker, ack'[a].msg = m
                 PROVE  /\ ack'[a].at \notin {"body", "owners"}
                        /\ ack'[a].owner = o => ~ack'[a].removed
    BY DEF AckSpares
  <2>2. ack'[a] = ack[a]
    BY <2>1, NoneIsNothing DEF Stays, NoAck
  <2> QED
    BY <1>1, <2>1, <2>2 DEF AckSpares
<1>7. Places(o, m)' = {}
  BY <1>3 DEF Places, Present
<1> QED
  BY <1>3, <1>4, <1>5, <1>6, <1>7 DEF Leftover, AckSpares

\* An ack finds no copy there, so the count and the payload stay.
LEMMA AckStepLeaves ==
  ASSUME QueueInv, LeftInv, NEW b \in Acker, AckStep(b),
         NEW o \in Owner, NEW m \in Msg, Leftover(o, m)
  PROVE  Leftover(o, m)'
PROOF
<1>1. /\ m \in body /\ o \in copies[m] /\ ~Present(o, m)
      /\ store[m][o] \in {"none", "stored"} /\ m \notin reaper[o].todo
      /\ AckSpares(o, m)
  BY PresentPlaces DEF Leftover, AckSpares
<1>2. /\ UNCHANGED <<publish, store, consume, reaper>>
      /\ RedisOK /\ ack \in [Acker -> AckRec] /\ None # o
  BY AckLeaves, NoneIsNothing, OwnersListed DEF QueueInv, Typed, AckOK, Owner, ToSet
<1>3. m \notin ready'[o] /\ m \notin inflight'[o] /\ m \notin inflight[o]
  <2>1. m \notin ready[o] /\ m \notin inflight[o]
    BY <1>1 DEF Present
  <2>2. UNCHANGED ready \/ ready' = [ready EXCEPT ![ack[b].owner] = @ \ {ack[b].msg}]
    BY DEF AckStep, AckInflight, AckReady, LeaveReady, AckOwner, AckCount, AckBody, AckOwners,
           redisVars
  <2>3. \/ UNCHANGED inflight
        \/ \E p \in Owner : inflight' = [inflight EXCEPT ![p] = @ \ {ack[b].msg}]
    BY DEF AckStep, AckInflight, AckReady, AckOwner, AckCount, AckBody, AckOwners, redisVars
  <2> QED
    BY <1>2, <2>1, <2>2, <2>3 DEF RedisOK
<1>4. Places(o, m)' = {}
  BY <1>1, <1>2, <1>3 DEF Places, Present, Reaping, Holds
<1>5. m \in body' /\ o \in copies'[m]
  <2>1. CASE ack[b].msg # m
    BY <1>1, <2>1, AckLeaves
  <2>2. CASE ack[b].msg = m
    <3>1. /\ ack[b].at \notin {"body", "owners"}
          /\ ack[b].at = "owner" => ack[b].owner # o
      BY <1>1, <2>2 DEF AckSpares, LeftInv, Removing
    <3>2. UNCHANGED body
      BY <3>1 DEF AckStep, AckInflight, AckReady, AckOwner, AckCount, AckBody, AckOwners,
                  redisVars
    <3>3. \/ UNCHANGED copies
          \/ ack[b].at = "owner" /\ copies' = [copies EXCEPT ![m] = @ \ {ack[b].owner}]
      BY <2>2, <3>1 DEF AckStep, AckInflight, AckReady, AckOwner, AckCount, AckBody, AckOwners,
                        redisVars
    <3> QED
      BY <1>1, <1>2, <3>1, <3>2, <3>3 DEF RedisOK
  <2> QED
    BY <2>1, <2>2
<1>6. ASSUME NEW a \in Acker, ack'[a].msg = m
      PROVE  /\ ack'[a].at \notin {"body", "owners"}
             /\ ack'[a].owner = o => ~ack'[a].removed
  <2>1. CASE a # b
    <3>1. ack'[a] = ack[a]
      BY <2>1, AckLeaves
    <3> QED
      BY <1>1, <1>6, <3>1 DEF AckSpares
  <2>2. CASE a = b
    <3>1. ack[a].msg = m /\ ack'[a] # NoAck
      BY <1>6, <2>2, AckLeaves, NoneIsNothing DEF NoAck
    <3>2. /\ ack[a].at \notin {"body", "owners"} /\ copies[m] # {}
          /\ ack[a].owner = o => ~ack[a].removed
      BY <1>1, <3>1 DEF AckSpares
    <3> QED
      BY <1>3, <2>2, <3>1, <3>2, AckGoes DEF Goes
  <2> QED
    BY <2>1, <2>2
<1> QED
  BY <1>1, <1>2, <1>4, <1>5, <1>6 DEF Leftover

\* An ack that starts has nothing removed yet.
LEMMA AckStartLeaves ==
  ASSUME QueueInv, NEW a \in Acker, NEW n \in Node, NEW x \in Msg,
         AckAny(a, n, x) \/ AckOwnerInternal(a, n, x),
         NEW o \in Owner, NEW m \in Msg, Leftover(o, m)
  PROVE  Leftover(o, m)'
PROOF
<1>1. ack \in [Acker -> AckRec] /\ None # o
  BY NoneIsNothing, OwnersListed DEF QueueInv, Typed, AckOK, Owner, ToSet
<1>2. PICK targets, whole : StartAck(a, n, x, targets, whole)
  BY DEF AckAny, AckOwnerInternal
<1> PICK k : k = [NoAck EXCEPT !.at = "inflight", !.node = n, !.msg = x,
                               !.todo = targets, !.whole = whole]
  OBVIOUS
<1>3. /\ ack' = [ack EXCEPT ![a] = k] /\ k.at = "inflight" /\ k.owner = None
      /\ UNCHANGED <<ready, inflight, copies, body, store, consume, reaper>>
  BY <1>2 DEF StartAck, NoAck, redisVars
<1>4. Places(o, m)' = Places(o, m)
  BY <1>3 DEF Places, Reaping, Holds
<1>5. ASSUME NEW b \in Acker, ack'[b].msg = m
      PROVE  /\ ack'[b].at \notin {"body", "owners"}
             /\ ack'[b].owner = o => ~ack'[b].removed
  <2>1. CASE b = a
    BY <1>1, <1>3, <2>1
  <2>2. CASE b # a
    BY <1>1, <1>3, <1>5, <2>2 DEF Leftover
  <2> QED
    BY <2>1, <2>2
<1> QED
  BY <1>3, <1>4, <1>5 DEF Leftover

\* An owner without a copy that is counted stays counted, and keeps the payload
\* in Redis, whatever follows.
THEOREM LeftoversStay == Spec => LeftoverStays
PROOF
<1> DEFINE Stay == \A m \in Msg, o \in Owner : Leftover(o, m) => Leftover(o, m)'
<1>1. QueueInv /\ LeftInv /\ [Next]_vars => [Stay]_vars
  <2> SUFFICES ASSUME QueueInv, LeftInv, Next,
                      NEW m \in Msg, NEW o \in Owner, Leftover(o, m)
               PROVE  Leftover(o, m)'
    OBVIOUS
  <2>1. Step
    BY DEF Next
  <2>2. CASE \E a \in Acker : AckStep(a)
    BY <2>2, AckStepLeaves
  <2>3. CASE \E a \in Acker, n \in Node, x \in Msg :
               AckAny(a, n, x) \/ AckOwnerInternal(a, n, x)
    <3> PICK a \in Acker, n \in Node, x \in Msg : AckAny(a, n, x) \/ AckOwnerInternal(a, n, x)
      BY <2>3
    <3> QED
      BY AckStartLeaves
  <2>4. CASE Stays(m)
    BY <2>1, <2>4, OthersLeave
  <2> QED
    BY <2>1, <2>2, <2>3, <2>4, PublishStays, StoreStays, DeadlineStays, ConsumeStays,
       ReapStays, RestartStays DEF Step
<1> QED
  BY <1>1, QueueInvariant, CountInvariant, PTL DEF Spec, LeftoverStays

=============================================================================
