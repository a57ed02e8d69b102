-------------------------------- MODULE Pbft --------------------------------
(***************************************************************************)
(* The agreement of src/consensus/pbft.py (class PbftNode), one instance   *)
(* per node: a request is prepared on the peers of the node it came to, a  *)
(* node with a quorum of prepares asks its peers to commit, and a node     *)
(* with a quorum of commits decides the digest.                            *)
(*                                                                         *)
(* A node is an asyncio process: code between two awaits is one step.      *)
(* Both broadcasts discard what their calls return, so all a broadcast     *)
(* does after its calls are on their way is to end, once each has been     *)
(* answered or has run into its 1.5 s; that may be at any time, and a call *)
(* that timed out may still be served later.                               *)
(*                                                                         *)
(* Left out: view and seq, which label messages and answers and which no   *)
(* handler reads, the time stamp of a decision, and GET /pbft/status.      *)
(***************************************************************************)
EXTENDS Naturals, FiniteSets

CONSTANTS Node,         \* the nodes of CLUSTER_NODES
          Req,          \* calls of POST /pbft/request, each made at most once
          Digest,       \* digests of the bodies; equal bodies have one digest
          None,         \* Python's None
          MaxLosses,    \* bound: calls between nodes that never arrive
          MaxRestarts   \* bound: restarts of nodes

ASSUME NodeIsFinite == IsFiniteSet(Node)

ASSUME BoundsAreNat == MaxLosses \in Nat /\ MaxRestarts \in Nat

ASSUME NoneIsNeither == None \notin Node /\ None \notin Req /\ None \notin Digest

VARIABLES
  prepared, committed, decided,   \* per node, as in the class, by digest
  pending,                        \* per node and digest: whose future is kept
  at, digest,                     \* where a request came to, and its digest
  phase,                          \* how far its pre_prepare has come
  futureSet,                      \* requests whose future has a result
  committing,                     \* on_prepare calls that broadcast commits
  net,                            \* calls between nodes not yet served
  losses, restarts,               \* faults so far
  seen                            \* history: nodes that were sent a digest

requestVars == <<at, digest, phase>>
faultVars   == <<losses, restarts>>
vars == <<prepared, committed, decided, pending, requestVars, futureSet,
          committing, net, faultVars, seen>>

Message == [path : {"prepare", "commit"}, req : Req, digest : Digest,
            leader : Node, to : Node]

Running  == {"preparing", "committing", "waiting"}
Answered == {"decided", "undecided"}

\* Mutant: only the second argument of max().
FaultQuorum == 2 * ((Cardinality(Node) - 1) \div 3) + 1

\* n // 2 + 1 of n nodes, or 2f + 1 when that is more.
Quorum ==
  LET n == Cardinality(Node)
      f == (n - 1) \div 3
  IN  IF n \div 2 + 1 >= 2 * f + 1 THEN n \div 2 + 1 ELSE 2 * f + 1

\* Mutant: more than a quorum.
ExceedsQuorum(S) == Cardinality(S) > Quorum

IsQuorum(S) == Cardinality(S) >= Quorum

Init ==
  /\ prepared   = [n \in Node |-> [d \in Digest |-> {}]]
  /\ committed  = [n \in Node |-> [d \in Digest |-> {}]]
  /\ decided    = [n \in Node |-> {}]
  /\ pending    = [n \in Node |-> [d \in Digest |-> None]]
  /\ at         = [r \in Req |-> None]
  /\ digest     = [r \in Req |-> None]
  /\ phase      = [r \in Req |-> "new"]
  /\ futureSet  = {}
  /\ committing = {}
  /\ net        = {}
  /\ losses     = 0
  /\ restarts   = 0
  /\ seen       = {}

\* The calls with which node n asks its peers for something of request r.
Calls(path, r, d, n) ==
  {[path |-> path, req |-> r, digest |-> d, leader |-> n, to |-> p] :
     p \in Node \ {n}}

\* Mutant: the message does not name its leader.
PreparesUnknown(n, d, leader) == prepared[n][d] \cup {None, n}

Prepares(n, d, leader) == prepared[n][d] \cup {leader, n}
Commits(n, d, leader)  == committed[n][d] \cup {leader, n}

\* on_prepare up to its await; msgs is the net without what was just served.
OnPrepare(n, r, d, leader, msgs) ==
  /\ prepared' = [prepared EXCEPT ![n][d] = Prepares(n, d, leader)]
  /\ seen' = seen \cup {<<n, d>>}
  /\ IF IsQuorum(Prepares(n, d, leader))
       THEN /\ net' = msgs \cup Calls("commit", r, d, n)
            /\ committing' = committing \cup {<<r, n>>}
       ELSE net' = msgs /\ UNCHANGED committing

\* on_commit; a future that is done, set or timed out, is left alone.
OnCommit(n, d, leader) ==
  /\ committed' = [committed EXCEPT ![n][d] = Commits(n, d, leader)]
  /\ IF d \notin decided[n] /\ IsQuorum(Commits(n, d, leader))
       THEN /\ decided' = [decided EXCEPT ![n] = @ \cup {d}]
            /\ pending' = [pending EXCEPT ![n][d] = None]
            /\ futureSet' = futureSet \cup
                 {r \in {pending[n][d]} \ {None} : phase[r] \in Running}
       ELSE UNCHANGED <<decided, pending, futureSet>>

-----------------------------------------------------------------------------
\* Mutant: the future is not registered before the calls.
RequestUnregistered(r, n, d) ==
  /\ phase[r] = "new"
  /\ at'      = [at EXCEPT ![r] = n]
  /\ digest'  = [digest EXCEPT ![r] = d]
  /\ phase'   = [phase EXCEPT ![r] = "preparing"]
  /\ net'     = net \cup Calls("prepare", r, d, n)
  /\ seen'    = seen \cup {<<n, d>>}
  /\ UNCHANGED <<prepared, committed, decided, pending, futureSet, committing,
                 faultVars>>

\* pre_prepare of request r with digest d at node n, up to its first await.
Request(r, n, d) ==
  /\ phase[r] = "new"
  /\ at'      = [at EXCEPT ![r] = n]
  /\ digest'  = [digest EXCEPT ![r] = d]
  /\ phase'   = [phase EXCEPT ![r] = "preparing"]
  /\ pending' = [pending EXCEPT ![n][d] = r]
  /\ net'     = net \cup Calls("prepare", r, d, n)
  /\ seen'    = seen \cup {<<n, d>>}
  /\ UNCHANGED <<prepared, committed, decided, futureSet, committing, faultVars>>

\* The broadcast has ended: the node prepares its own request.
SelfPrepare(r) ==
  /\ phase[r] = "preparing"
  /\ OnPrepare(at[r], r, digest[r], at[r], net)
  /\ phase' = [phase EXCEPT ![r] =
       IF IsQuorum(Prepares(at[r], digest[r], at[r])) THEN "committing" ELSE "waiting"]
  /\ UNCHANGED <<committed, decided, pending, at, digest, futureSet, faultVars>>

HandlePrepare(m) ==
  /\ m \in net
  /\ m.path = "prepare"
  /\ OnPrepare(m.to, m.req, m.digest, m.leader, net \ {m})
  /\ UNCHANGED <<committed, decided, pending, requestVars, futureSet, faultVars>>

\* The broadcast of on_prepare has ended: the node commits itself, and goes on
\* with pre_prepare when the request came to it.
SelfCommit(r, n) ==
  /\ <<r, n>> \in committing
  /\ committing' = committing \ {<<r, n>>}
  /\ OnCommit(n, digest[r], n)
  /\ phase' = IF n = at[r] THEN [phase EXCEPT ![r] = "waiting"] ELSE phase
  /\ UNCHANGED <<prepared, at, digest, net, faultVars, seen>>

\* Mutant: a commit for what the node has not prepared is ignored.
HandlePreparedCommit(m) ==
  /\ m \in net
  /\ m.path = "commit"
  /\ net' = net \ {m}
  /\ IF prepared[m.to][m.digest] # {}
       THEN OnCommit(m.to, m.digest, m.leader)
       ELSE UNCHANGED <<committed, decided, pending, futureSet>>
  /\ UNCHANGED <<prepared, requestVars, committing, faultVars, seen>>

HandleCommit(m) ==
  /\ m \in net
  /\ m.path = "commit"
  /\ net' = net \ {m}
  /\ OnCommit(m.to, m.digest, m.leader)
  /\ UNCHANGED <<prepared, requestVars, committing, faultVars, seen>>

\* Mutant: the wait has no timeout.
AnswerIfSet(r) ==
  /\ phase[r] = "waiting"
  /\ r \in futureSet
  /\ phase' = [phase EXCEPT ![r] = "decided"]
  /\ UNCHANGED <<prepared, committed, decided, pending, at, digest, futureSet,
                 committing, net, faultVars, seen>>

\* wait_for returns the result, or cancels the future after 3 s; a cancelled
\* future stays in pending.
Answer(r) ==
  /\ phase[r] = "waiting"
  /\ phase' = [phase EXCEPT ![r] = IF r \in futureSet THEN "decided" ELSE "undecided"]
  /\ UNCHANGED <<prepared, committed, decided, pending, at, digest, futureSet,
                 committing, net, faultVars, seen>>

\* A call that never reaches its node; its caller goes on all the same.
Lose(m) ==
  /\ m \in net
  /\ losses < MaxLosses
  /\ losses' = losses + 1
  /\ net' = net \ {m}
  /\ UNCHANGED <<prepared, committed, decided, pending, requestVars, futureSet,
                 committing, restarts, seen>>

\* Everything a node knows is in memory.  Calls from it and to it may be lost
\* with it, and its unanswered clients see their connections close.
Restart(n) ==
  /\ restarts < MaxRestarts
  /\ restarts'   = restarts + 1
  /\ prepared'   = [prepared EXCEPT ![n] = [d \in Digest |-> {}]]
  /\ committed'  = [committed EXCEPT ![n] = [d \in Digest |-> {}]]
  /\ decided'    = [decided EXCEPT ![n] = {}]
  /\ pending'    = [pending EXCEPT ![n] = [d \in Digest |-> None]]
  /\ committing' = {t \in committing : t[2] # n}
  /\ phase' = [r \in Req |-> IF at[r] = n /\ phase[r] \in Running
                               THEN "failed" ELSE phase[r]]
  /\ \E lost \in SUBSET {m \in net : n \in {m.leader, m.to}} : net' = net \ lost
  /\ UNCHANGED <<at, digest, futureSet, losses, seen>>

Next ==
  \/ \E r \in Req, n \in Node, d \in Digest : Request(r, n, d)
  \/ \E r \in Req : SelfPrepare(r) \/ Answer(r)
  \/ \E r \in Req, n \in Node : SelfCommit(r, n)
  \/ \E m \in net : HandlePrepare(m) \/ HandleCommit(m) \/ Lose(m)
  \/ \E n \in Node : Restart(n)

Spec == Init /\ [][Next]_vars

\* Broadcasts and waits have timeouts, so they end; what is not lost arrives.
Fairness ==
  /\ \A r \in Req : WF_vars(SelfPrepare(r)) /\ WF_vars(Answer(r))
  /\ \A r \in Req, n \in Node : WF_vars(SelfCommit(r, n))
  /\ \A m \in Message : WF_vars(HandlePrepare(m)) /\ WF_vars(HandleCommit(m))

FairSpec == Spec /\ Fairness

-----------------------------------------------------------------------------
(***************************************************************************)
(* Properties.                                                             *)
(***************************************************************************)

\* The variables hold what the class and its coroutines can hold, and a future
\* is kept under the digest of its own request.
TypeOK ==
  /\ prepared  \in [Node -> [Digest -> SUBSET Node]]
  /\ committed \in [Node -> [Digest -> SUBSET Node]]
  /\ decided   \in [Node -> SUBSET Digest]
  /\ pending   \in [Node -> [Digest -> Req \cup {None}]]
  /\ at        \in [Req -> Node \cup {None}]
  /\ digest    \in [Req -> Digest \cup {None}]
  /\ phase     \in [Req -> {"new", "failed"} \cup Running \cup Answered]
  /\ futureSet \subseteq Req
  /\ committing \subseteq Req \X Node
  /\ net \subseteq Message
  /\ losses \in 0 .. MaxLosses
  /\ restarts \in 0 .. MaxRestarts
  /\ seen \subseteq Node \X Digest
  /\ \A r \in Req : phase[r] # "new" => at[r] # None /\ digest[r] # None
  /\ \A n \in Node, d \in Digest :
       pending[n][d] # None => digest[pending[n][d]] = d

IsMajority(S) == 2 * Cardinality(S) > Cardinality(Node)
Witnesses(d)  == {n \in Node : <<n, d>> \in seen}

\* What a node decides, and what a client is told is decided, has reached a
\* majority of the nodes as a request or as a prepare: although a node decides
\* on the word of one other node, and counts itself without having prepared, no
\* mix of lost calls, restarts and repeated requests lets fewer nodes decide
\* (lines 67-69, 82-85).
DecidedByMajority ==
  /\ \A n \in Node : \A d \in decided[n] : IsMajority(Witnesses(d))
  /\ \A r \in Req : phase[r] = "decided" => IsMajority(Witnesses(digest[r]))

Alone(r) == \A q \in Req \ {r} : digest[q] # digest[r]

\* The only request for a digest is never told that it is undecided when its
\* node has decided it: the future is registered before the first call goes
\* out (line 51), so the commits cannot come too early for it.  A repeated
\* request has no such promise.
AloneToldTrue ==
  [][\A r \in Req :
       phase[r] = "waiting" /\ phase'[r] = "undecided" /\ Alone(r)
         => digest[r] \notin decided[at[r]]]_vars

\* Every request is answered unless its node restarts, also one that finds no
\* quorum because calls were lost, or whose future nobody will set (lines 52-63).
RequestsAnswered ==
  \A r \in Req : phase[r] # "new" ~> phase[r] \in Answered \cup {"failed"}

Majorities  == {S \in SUBSET Node : IsMajority(S)}
Deciders(d) == {n \in Node : d \in decided[n]}

\* When no call is lost and no node restarts, every node decides what any node
\* was asked for, whoever times out.
EveryNodeDecides ==
  \A d \in Digest :
    Witnesses(d) # {} ~> (Deciders(d) = Node \/ losses + restarts > 0)

\* One lost call does not leave a decision on less than a majority.
DecisionSpreads ==
  \A d \in Digest :
    Deciders(d) # {} ~> (Deciders(d) \in Majorities \/ losses > 1 \/ restarts > 0)
=============================================================================
