-------------------------------- MODULE Raft --------------------------------
(***************************************************************************)
(* The replication core of src/consensus/raft.py (class RaftCore), one     *)
(* instance per node.                                                      *)
(*                                                                         *)
(* A node is an asyncio process: code between two awaits is one step.  The *)
(* coroutines that await are tasks here: the election loop of a node, the  *)
(* heartbeat loop of a node, and one submit call per client command.  Each *)
(* calls its peers one after the other and reads self.term and             *)
(* self.commit_index anew for every call, so whatever the handlers did to  *)
(* the node in between shows up in the next request.                       *)
(*                                                                         *)
(* net holds the requests and replies under way, in no order.  A message   *)
(* is tagged with the task that awaits it; when the HTTP timeout of the    *)
(* caller strikes, its request loses the tag but may still arrive.         *)
(*                                                                         *)
(* Left out: election deadlines (an idle election loop may start a         *)
(* campaign whenever its node is not the leader), leader_id (only shown by *)
(* GET /raft/role), the Prometheus counters, and stop(), which nobody      *)
(* calls.                                                                  *)
(***************************************************************************)
EXTENDS Naturals, Sequences, FiniteSets, FiniteSetsExt

CONSTANTS Node,        \* the lock nodes of CLUSTER_NODES
          Peers,       \* Peers[n]: the other nodes in the order n calls them
          Cmd,         \* client commands, each submitted at most once
          None,        \* Python's None
          MaxTerm,     \* bound: no campaign starts beyond this term
          MaxInflight, \* bound: submit calls under way at once
          MaxTimeouts, \* bound: HTTP timeouts in one behaviour
          MaxRestarts  \* bound: restarts of nodes in one behaviour

ASSUME PeersAreTheOthers ==
  \A n \in Node :
    /\ Peers[n] \in Seq(Node)
    /\ Peers[n] # << >>
    /\ \A i, j \in 1 .. Len(Peers[n]) : Peers[n][i] = Peers[n][j] => i = j
    /\ {Peers[n][i] : i \in 1 .. Len(Peers[n])} = Node \ {n}

ASSUME NoneIsNoNode == None \notin Node

ASSUME BoundsAreNat ==
  MaxTerm \in Nat /\ MaxInflight \in Nat /\ MaxTimeouts \in Nat /\ MaxRestarts \in Nat

VARIABLES
  term, votedFor, log, role,      \* per node, as in the class
  commitIndex, lastApplied,
  campaign,                       \* the locals of _election_loop, per node
  broadcast,                      \* the locals of _broadcast_append, per task
  result,                         \* what submit returned, per command
  net,                            \* messages under way
  timeouts,                       \* HTTP timeouts so far
  life,                           \* restarts of each node so far
  granted                         \* history: votes given, <<voter, term, candidate, life>>

logVars   == <<log, commitIndex, lastApplied>>
taskVars  == <<campaign, broadcast, result>>
vars      == <<term, votedFor, role, logVars, taskVars, net, timeouts, life, granted>>

Election(n)  == <<"election", n>>
Heartbeat(n) == <<"heartbeat", n>>
Submit(c)    == <<"submit", c>>
NoTask       == <<"none">>

Broadcasts == {Heartbeat(n) : n \in Node} \cup {Submit(c) : c \in Cmd}

\* peer is the index of the peer being called, 0 when the task does not run.
IdleCampaign  == [peer |-> 0, votes |-> 0, lastIdx |-> 0, lastTerm |-> 0]
IdleBroadcast == [node |-> None, peer |-> 0, acks |-> 0,
                  prevIdx |-> 0, prevTerm |-> 0, entries |-> << >>]

Init ==
  /\ term        = [n \in Node |-> 0]
  /\ votedFor    = [n \in Node |-> None]
  /\ log         = [n \in Node |-> << >>]
  /\ role        = [n \in Node |-> "follower"]
  /\ commitIndex = [n \in Node |-> 0]
  /\ lastApplied = [n \in Node |-> 0]
  /\ campaign    = [n \in Node |-> IdleCampaign]
  /\ broadcast   = [k \in Broadcasts |-> IdleBroadcast]
  /\ result      = [c \in Cmd |-> "none"]
  /\ net         = {}
  /\ timeouts    = 0
  /\ life        = [n \in Node |-> 0]
  /\ granted     = {}

TermAt(lg, i) == IF i > 0 THEN lg[i].term ELSE 0
LastTerm(lg)  == TermAt(lg, Len(lg))

\* Mutant: half of the nodes is enough.
IsHalf(n, count) == count >= (Len(Peers[n]) + 1) \div 2

\* "votes > (len(peers) + 1) // 2", with the node itself among the votes.
IsMajority(n, count) == count > (Len(Peers[n]) + 1) \div 2

VoteRequest(n, i, t, cp) ==
  [type |-> "vote", task |-> Election(n), to |-> Peers[n][i],
   term |-> t, cand |-> n, lastIdx |-> cp.lastIdx, lastTerm |-> cp.lastTerm]

AppendRequest(k, i, b) ==
  [type |-> "append", task |-> k, to |-> Peers[b.node][i],
   term |-> term[b.node], prevIdx |-> b.prevIdx, prevTerm |-> b.prevTerm,
   entries |-> b.entries, commit |-> commitIndex[b.node]]

Reply(k, ok) == [type |-> "reply", task |-> k, ok |-> ok]

\* The answer to request m replaces it, if a task still waits for it.
Answered(m, ok) ==
  (net \ {m}) \cup (IF m.task = NoTask THEN {} ELSE {Reply(m.task, ok)})

\* Task k gives up on its call: a reply is lost, a request may still arrive.
Abandoned(msgs, k) ==
  {m \in msgs : m.task # k} \cup
  {[m EXCEPT !.task = NoTask] : m \in {x \in msgs : x.task = k /\ x.type # "reply"}}

-----------------------------------------------------------------------------
(***************************************************************************)
(* The election loop.                                                      *)
(***************************************************************************)

StartElection(n) ==
  /\ campaign[n].peer = 0
  /\ role[n] # "leader"
  /\ term[n] < MaxTerm
  /\ LET cp == [peer |-> 1, votes |-> 1,
                lastIdx |-> Len(log[n]), lastTerm |-> LastTerm(log[n])]
     IN  /\ campaign' = [campaign EXCEPT ![n] = cp]
         /\ net' = net \cup {VoteRequest(n, 1, term[n] + 1, cp)}
  /\ role'     = [role EXCEPT ![n] = "candidate"]
  /\ term'     = [term EXCEPT ![n] = @ + 1]
  /\ votedFor' = [votedFor EXCEPT ![n] = n]
  /\ granted'  = granted \cup {<<n, term[n] + 1, n, life[n]>>}
  /\ UNCHANGED <<logVars, broadcast, result, timeouts>>

\* The count is over.  Neither the role nor the term is looked at again; the
\* heartbeat task of an earlier leadership is cancelled in the middle of
\* whatever it awaits.
FinishElection(n, votes, msgs) ==
  /\ campaign' = [campaign EXCEPT ![n] = IdleCampaign]
  /\ IF IsMajority(n, votes)
       THEN /\ role'      = [role EXCEPT ![n] = "leader"]
            /\ broadcast' = [broadcast EXCEPT ![Heartbeat(n)] = IdleBroadcast]
            /\ net'       = Abandoned(msgs, Heartbeat(n))
       ELSE /\ net' = msgs
            /\ UNCHANGED <<role, broadcast>>

\* The call to one peer has ended; msgs is the network without that call.
NextVoter(n, voteGranted, msgs) ==
  LET cp    == campaign[n]
      votes == cp.votes + (IF voteGranted THEN 1 ELSE 0)
  IN  /\ IF cp.peer < Len(Peers[n])
           THEN /\ campaign' = [campaign EXCEPT ![n].peer = @ + 1, ![n].votes = votes]
                /\ net' = msgs \cup {VoteRequest(n, cp.peer + 1, term[n], cp)}
                /\ UNCHANGED <<role, broadcast>>
           ELSE FinishElection(n, votes, msgs)
      /\ UNCHANGED <<term, votedFor, logVars, result, granted>>

VoteReturns(n) ==
  \E m \in net :
    /\ campaign[n].peer # 0
    /\ m.type = "reply" /\ m.task = Election(n)
    /\ NextVoter(n, m.ok, net \ {m})
    /\ UNCHANGED timeouts

VoteTimesOut(n) ==
  /\ campaign[n].peer # 0
  /\ timeouts < MaxTimeouts
  /\ timeouts' = timeouts + 1
  /\ NextVoter(n, FALSE, Abandoned(net, Election(n)))

-----------------------------------------------------------------------------
(***************************************************************************)
(* handle_request_vote.                                                    *)
(***************************************************************************)

UpToDate(m, lg) ==
  \/ m.lastTerm > LastTerm(lg)
  \/ m.lastTerm = LastTerm(lg) /\ m.lastIdx >= Len(lg)

IsNewer(m) == m.term > term[m.to]

\* Mutant: the vote already given is not looked at.
AlwaysFree(vote, cand) == TRUE

FreeToVote(vote, cand) == vote \in {None, cand}

HandleRequestVote(m) ==
  LET n      == m.to
      myTerm == IF IsNewer(m) THEN m.term ELSE term[n]
      myVote == IF IsNewer(m) THEN None ELSE votedFor[n]
      ok     == /\ m.term >= myTerm
                /\ UpToDate(m, log[n])
                /\ FreeToVote(myVote, m.cand)
  IN  /\ m.type = "vote"
      /\ term'     = [term EXCEPT ![n] = myTerm]
      /\ role'     = [role EXCEPT ![n] = IF IsNewer(m) THEN "follower" ELSE @]
      /\ votedFor' = [votedFor EXCEPT ![n] = IF ok THEN m.cand ELSE myVote]
      /\ granted'  = IF ok THEN granted \cup {<<n, myTerm, m.cand, life[n]>>} ELSE granted
      /\ net'      = Answered(m, ok)
      /\ UNCHANGED <<logVars, taskVars, timeouts>>

-----------------------------------------------------------------------------
(***************************************************************************)
(* _broadcast_append, run by the heartbeat loop and by submit.             *)
(***************************************************************************)

\* Mutant: the index of the previous entry is one too low.
OffByOneBroadcast(n, lg, entries) ==
  LET prev == Len(lg) - Len(entries) - 1
  IN  [node |-> n, peer |-> 1, acks |-> 1,
       prevIdx |-> prev, prevTerm |-> TermAt(lg, prev), entries |-> entries]

\* The previous entry is looked up once, in the log lg of this moment.
NewBroadcast(n, lg, entries) ==
  LET prev == Len(lg) - Len(entries)
  IN  [node |-> n, peer |-> 1, acks |-> 1,
       prevIdx |-> prev, prevTerm |-> TermAt(lg, prev), entries |-> entries]

\* "while self.role == 'leader'": looked at between broadcasts only.
StartHeartbeat(n) ==
  /\ role[n] = "leader"
  /\ broadcast[Heartbeat(n)].peer = 0
  /\ LET b == NewBroadcast(n, log[n], << >>)
     IN  /\ broadcast' = [broadcast EXCEPT ![Heartbeat(n)] = b]
         /\ net' = net \cup {AppendRequest(Heartbeat(n), 1, b)}
  /\ UNCHANGED <<term, votedFor, role, logVars, campaign, result, timeouts, granted>>

InFlight == {c \in Cmd : broadcast[Submit(c)].peer # 0}

\* A command reaches submit on a leader.  A call elsewhere returns False at
\* once and changes nothing.
StartSubmit(n, c) ==
  /\ role[n] = "leader"
  /\ result[c] = "none" /\ c \notin InFlight
  /\ Cardinality(InFlight) < MaxInflight
  /\ LET entry == [term |-> term[n], cmd |-> c]
         b     == NewBroadcast(n, Append(log[n], entry), <<entry>>)
     IN  /\ log' = [log EXCEPT ![n] = Append(@, entry)]
         /\ broadcast' = [broadcast EXCEPT ![Submit(c)] = b]
         /\ net' = net \cup {AppendRequest(Submit(c), 1, b)}
  /\ UNCHANGED <<term, votedFor, role, commitIndex, lastApplied, campaign, result,
                 timeouts, granted>>

\* Commits everything the log holds by now, and applies it.
CommitAll(n) ==
  /\ commitIndex' = [commitIndex EXCEPT ![n] = Len(log[n])]
  /\ lastApplied' = [lastApplied EXCEPT ![n] = IF @ < Len(log[n]) THEN Len(log[n]) ELSE @]

\* Mutant: the acks are not counted.
FinishUncounted(c, n, acks) == CommitAll(n) /\ result' = [result EXCEPT ![c] = "ok"]

\* The end of submit, with the number of acks collected.
FinishSubmit(c, n, acks) ==
  IF IsMajority(n, acks)
    THEN CommitAll(n) /\ result' = [result EXCEPT ![c] = "ok"]
    ELSE result' = [result EXCEPT ![c] = "failed"] /\ UNCHANGED <<commitIndex, lastApplied>>

\* The call to one peer has ended; msgs is the network without that call.
NextFollower(k, success, msgs) ==
  LET b    == broadcast[k]
      acks == b.acks + (IF success THEN 1 ELSE 0)
  IN  /\ IF b.peer < Len(Peers[b.node])
           THEN /\ broadcast' = [broadcast EXCEPT ![k].peer = @ + 1, ![k].acks = acks]
                /\ net' = msgs \cup {AppendRequest(k, b.peer + 1, b)}
                /\ UNCHANGED <<commitIndex, lastApplied, result>>
           ELSE /\ broadcast' = [broadcast EXCEPT ![k] = IdleBroadcast]
                /\ net' = msgs
                /\ IF k[1] = "submit"
                     THEN FinishSubmit(k[2], b.node, acks)
                     ELSE UNCHANGED <<commitIndex, lastApplied, result>>
      /\ UNCHANGED <<term, votedFor, role, log, campaign, granted>>

AppendReturns(k) ==
  \E m \in net :
    /\ broadcast[k].peer # 0
    /\ m.type = "reply" /\ m.task = k
    /\ NextFollower(k, m.ok, net \ {m})
    /\ UNCHANGED timeouts

AppendTimesOut(k) ==
  /\ broadcast[k].peer # 0
  /\ timeouts < MaxTimeouts
  /\ timeouts' = timeouts + 1
  /\ NextFollower(k, FALSE, Abandoned(net, k))

-----------------------------------------------------------------------------
(***************************************************************************)
(* handle_append_entries: a stale term, a mismatch at the previous entry,  *)
(* or entries appended at the end of whatever the log holds.               *)
(***************************************************************************)

RejectStale(m) ==
  /\ m.type = "append"
  /\ m.term < term[m.to]
  /\ net' = Answered(m, FALSE)
  /\ UNCHANGED <<term, votedFor, role, logVars, taskVars, timeouts, granted>>

\* The sender is accepted as leader of its term; votedFor stays as it was.
FollowSender(m) ==
  /\ m.type = "append"
  /\ m.term >= term[m.to]
  /\ term' = [term EXCEPT ![m.to] = m.term]
  /\ role' = [role EXCEPT ![m.to] = "follower"]
  /\ UNCHANGED <<votedFor, taskVars, timeouts, granted>>

\* Mutant: entries are taken without a look at what precedes them.
PrevUnchecked(m, lg) == TRUE

PrevMatches(m, lg) ==
  m.prevIdx > 0 => m.prevIdx <= Len(lg) /\ lg[m.prevIdx].term = m.prevTerm

RejectMismatch(m) ==
  /\ FollowSender(m)
  /\ ~PrevMatches(m, log[m.to])
  /\ net' = Answered(m, FALSE)
  /\ UNCHANGED logVars

\* Entries go to the end, wherever the sender thought that was.
Extended(lg, m) == lg \o m.entries

\* "if leader_commit > commit_index: commit_index = min(leader_commit, len(log))"
NewCommit(mine, leaders, len) ==
  IF leaders <= mine THEN mine ELSE IF leaders < len THEN leaders ELSE len

AcceptEntries(m) ==
  LET n      == m.to
      longer == Extended(log[n], m)
      commit == NewCommit(commitIndex[n], m.commit, Len(longer))
  IN  /\ FollowSender(m)
      /\ PrevMatches(m, log[n])
      /\ log' = [log EXCEPT ![n] = longer]
      /\ commitIndex' = [commitIndex EXCEPT ![n] = commit]
      /\ lastApplied' = [lastApplied EXCEPT ![n] = IF @ < commit THEN commit ELSE @]
      /\ net' = Answered(m, TRUE)

-----------------------------------------------------------------------------

(***************************************************************************)
(* The process of a node ends and starts anew: RaftCore.__init__ again,    *)
(* with nothing kept from before.  Its tasks are gone, and the calls it    *)
(* was making or serving may go with them.                                 *)
(***************************************************************************)

Tasks(n) == {Election(n)} \cup {k \in Broadcasts : broadcast[k].node = n}

Requests(n) == {m \in net : m.type # "reply" /\ m.to = n}

\* The network once the callers of n are gone and n refuses some requests.
Disconnected(n, refused) ==
  LET others == {m \in net \ refused : m.task \notin Tasks(n)}
      orphans == {[m EXCEPT !.task = NoTask] :
                    m \in {x \in net \ refused : x.task \in Tasks(n) /\ x.type # "reply"}}
      failed  == {Reply(m.task, FALSE) : m \in {x \in refused : x.task # NoTask}}
  IN  others \cup orphans \cup failed

Restart(n) ==
  /\ MapThenSumSet(LAMBDA m : life[m], Node) < MaxRestarts
  /\ life'        = [life EXCEPT ![n] = @ + 1]
  /\ term'        = [term EXCEPT ![n] = 0]
  /\ votedFor'    = [votedFor EXCEPT ![n] = None]
  /\ log'         = [log EXCEPT ![n] = << >>]
  /\ role'        = [role EXCEPT ![n] = "follower"]
  /\ commitIndex' = [commitIndex EXCEPT ![n] = 0]
  /\ lastApplied' = [lastApplied EXCEPT ![n] = 0]
  /\ campaign'    = [campaign EXCEPT ![n] = IdleCampaign]
  /\ broadcast'   = [k \in Broadcasts |->
                       IF k \in Tasks(n) THEN IdleBroadcast ELSE broadcast[k]]
  /\ result'      = [c \in Cmd |-> IF Submit(c) \in Tasks(n) THEN "lost" ELSE result[c]]
  /\ \E refused \in SUBSET Requests(n) : net' = Disconnected(n, refused)
  /\ UNCHANGED <<timeouts, granted>>

-----------------------------------------------------------------------------

\* What the running processes do.
Run ==
  \/ \E n \in Node : StartElection(n) \/ VoteReturns(n) \/ VoteTimesOut(n)
  \/ \E n \in Node : StartHeartbeat(n)
  \/ \E n \in Node, c \in Cmd : StartSubmit(n, c)
  \/ \E k \in Broadcasts : AppendReturns(k) \/ AppendTimesOut(k)
  \/ \E m \in net :
       HandleRequestVote(m) \/ RejectStale(m) \/ RejectMismatch(m) \/ AcceptEntries(m)

Next ==
  \/ Run /\ UNCHANGED life
  \/ \E n \in Node : Restart(n)

Spec == Init /\ [][Next]_vars

-----------------------------------------------------------------------------

Entry == [term : Nat, cmd : Cmd]

VoteMsg == [type : {"vote"}, task : {Election(n) : n \in Node} \cup {NoTask},
            to : Node, term : Nat, cand : Node, lastIdx : Nat, lastTerm : Nat]

AppendMsg == [type : {"append"}, task : Broadcasts \cup {NoTask},
              to : Node, term : Nat, prevIdx : Nat, prevTerm : Nat,
              entries : Seq(Entry), commit : Nat]

ReplyMsg == [type : {"reply"}, task : {Election(n) : n \in Node} \cup Broadcasts,
             ok : BOOLEAN]

Campaign == [peer : Nat, votes : Nat, lastIdx : Nat, lastTerm : Nat]

Broadcast == [node : Node \cup {None}, peer : Nat, acks : Nat,
              prevIdx : Nat, prevTerm : Nat, entries : Seq(Entry)]

\* Type invariant.
TypeOK ==
  /\ term        \in [Node -> Nat]
  /\ votedFor    \in [Node -> Node \cup {None}]
  /\ log         \in [Node -> Seq(Entry)]
  /\ role        \in [Node -> {"follower", "candidate", "leader"}]
  /\ commitIndex \in [Node -> Nat]
  /\ lastApplied \in [Node -> Nat]
  /\ campaign    \in [Node -> Campaign]
  /\ broadcast   \in [Broadcasts -> Broadcast]
  /\ result      \in [Cmd -> {"none", "ok", "failed", "lost"}]
  /\ net         \subseteq VoteMsg \cup AppendMsg \cup ReplyMsg
  /\ timeouts    \in Nat
  /\ life        \in [Node -> Nat]
  /\ granted     \subseteq Node \X Nat \X Node \X Nat

\* A node gives its vote to one candidate per term, whatever mixture of
\* campaigns, late requests and higher terms it goes through (lines 65-67,
\* 152-166, 183: an append raises the term and keeps the old vote), as long as
\* its process lives: a restarted one has forgotten its vote (line 27).
VoteOnce ==
  \A v, w \in granted :
    v[1] = w[1] /\ v[2] = w[2] /\ v[4] = w[4] => v[3] = w[3]

Quorum == {Q \in SUBSET Node : Cardinality(Q) * 2 > Cardinality(Node)}

\* Whoever leads was voted for by a majority of the nodes, in whatever terms
\* (lines 68-91: the count mixes the terms of one campaign).
ElectedByMajority ==
  \A n \in Node : role[n] = "leader" =>
    \E Q \in Quorum : \A v \in Q : \E g \in granted : g[1] = v /\ g[3] = n

\* Nothing is committed beyond the end of the log, and what is committed has
\* been handed to apply_fn (lines 137-147, 197-199).
CommittedIsApplied ==
  \A n \in Node : lastApplied[n] = commitIndex[n] /\ commitIndex[n] <= Len(log[n])

\* Terms only grow, and a vote is taken back only by a newer term, unless the
\* process restarts.
VotesStand ==
  [][\A n \in Node : life'[n] = life[n] =>
       /\ term'[n] >= term[n]
       /\ votedFor'[n] # votedFor[n] /\ votedFor[n] # None => term'[n] > term[n]]_vars

\* What was applied stays applied: no log entry is ever rewritten and no
\* commit index moves back, unless the process restarts.
HistoryStands ==
  [][\A n \in Node : life'[n] = life[n] =>
       /\ Len(log'[n]) >= Len(log[n])
       /\ \A i \in 1 .. Len(log[n]) : log'[n][i] = log[n][i]
       /\ commitIndex'[n] >= commitIndex[n]]_vars

-----------------------------------------------------------------------------
(***************************************************************************)
(* What clients of the log rely on.                                        *)
(***************************************************************************)

\* At most one leader per term.
ElectionSafety ==
  \A m, n \in Node :
    role[m] = "leader" /\ role[n] = "leader" /\ term[m] = term[n] => m = n

Applied(n) == {i \in 1 .. Len(log[n]) : i <= lastApplied[n]}

\* Two nodes that applied an entry at the same position applied the same one.
StateMachineSafety ==
  \A m, n \in Node : \A i \in Applied(m) \cap Applied(n) : log[m][i] = log[n][i]

\* A follower's log is a prefix of the log of any leader.
FollowersBehind ==
  \A m, n \in Node : role[m] = "leader" =>
    /\ Len(log[n]) <= Len(log[m])
    /\ \A i \in 1 .. Len(log[n]) : log[n][i] = log[m][i]

OnMajority(n, i) ==
  \E Q \in Quorum : \A q \in Q : i <= Len(log[q]) /\ log[q][i] = log[n][i]

\* An applied entry is in the logs of a majority.
AppliedOnMajority == \A n \in Node : \A i \in Applied(n) : OnMajority(n, i)

(***************************************************************************)
(* Node n lacks the next entry of a leader, and the one broadcast that     *)
(* carries this entry will not bring it any more.                          *)
(***************************************************************************)
Carries(m, n) ==
  m.type = "append" /\ m.to = n /\ m.entries # << >> /\ m.prevIdx = Len(log[n])

WillCall(b, n) ==
  \E i \in 1 .. Len(Peers[b.node]) : b.peer < i /\ Peers[b.node][i] = n

Missed(n) ==
  /\ \E m \in Node : role[m] = "leader" /\ Len(log[n]) < Len(log[m])
  /\ \A m \in net : ~Carries(m, n)
  /\ \A k \in Broadcasts :
       LET b == broadcast[k]
       IN  b.peer # 0 /\ b.entries # << >> /\ b.prevIdx = Len(log[n]) => ~WillCall(b, n)
=============================================================================
