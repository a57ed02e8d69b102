----------------------------- MODULE RaftProofs -----------------------------
(***************************************************************************)
(* What RaftCore guarantees for any number of nodes, commands, terms and   *)
(* timeouts: typing, one vote per term, votes and logs that are never      *)
(* taken back, commits that stay inside the log; then the elections, with  *)
(* a majority behind every leader and one leader of term one; and last the *)
(* log of the first term.                                                  *)
(***************************************************************************)
EXTENDS RaftLog, FiniteSetTheorems, SequenceTheorems, TLAPS

\* A running broadcast belongs to a node and calls one of its peers.
CallsAPeer ==
  /\ \A n \in Node : campaign[n].peer \in 0 .. Len(Peers[n])
  /\ \A k \in Broadcasts :
       broadcast[k].peer # 0 =>
         broadcast[k].node \in Node /\ broadcast[k].peer \in 1 .. Len(Peers[broadcast[k].node])

\* A vote given in the present life and term of the voter is the one it
\* remembers; every other one is from an older term or an older life.
VotesRemembered ==
  \A g \in granted :
    /\ g[4] <= life[g[1]]
    /\ g[4] = life[g[1]] =>
         /\ g[2] <= term[g[1]]
         /\ g[2] = term[g[1]] => votedFor[g[1]] = g[3]

RaftInv == TypeOK /\ CallsAPeer /\ VotesRemembered /\ VoteOnce /\ CommittedIsApplied

-----------------------------------------------------------------------------

\* Every index of a peer list names a node.
LEMMA PeerIsNode ==
  ASSUME NEW n \in Node, NEW i \in 1 .. Len(Peers[n])
  PROVE  Peers[n][i] \in Node
BY PeersAreTheOthers

\* Every node has a peer.
LEMMA PeersNotEmpty ==
  ASSUME NEW n \in Node
  PROVE  Len(Peers[n]) \in Nat /\ 1 \in 1 .. Len(Peers[n])
PROOF
<1>1. Peers[n] \in Seq(Node) /\ Peers[n] # << >>
  BY PeersAreTheOthers
<1> QED
  BY <1>1

\* The term of an entry, 0 before the first one.
LEMMA TermAtIsNat ==
  ASSUME NEW lg \in Seq(Entry), NEW i \in 0 .. Len(lg)
  PROVE  TermAt(lg, i) \in Nat
PROOF
<1>1. CASE i = 0
  BY <1>1 DEF TermAt
<1>2. CASE i # 0
  <2>1. i > 0 /\ lg[i] \in Entry
    BY <1>2
  <2> QED
    BY <2>1 DEF TermAt, Entry
<1> QED
  BY <1>1, <1>2

\* The term of the last entry is a number.
LEMMA LastTermIsNat ==
  ASSUME NEW lg \in Seq(Entry)
  PROVE  Len(lg) \in Nat /\ LastTerm(lg) \in Nat
BY TermAtIsNat DEF LastTerm

\* Messages that a task gives up on stay messages.
LEMMA AbandonedTyped ==
  ASSUME NEW msgs, msgs \subseteq VoteMsg \cup AppendMsg \cup ReplyMsg, NEW k
  PROVE  Abandoned(msgs, k) \subseteq VoteMsg \cup AppendMsg \cup ReplyMsg
PROOF
<1>1. SUFFICES ASSUME NEW m \in msgs, m.type # "reply"
               PROVE  [m EXCEPT !.task = NoTask] \in VoteMsg \cup AppendMsg
  BY DEF Abandoned
<1>2. CASE m \in VoteMsg
  BY <1>2 DEF VoteMsg
<1>3. CASE m \in AppendMsg
  BY <1>3 DEF AppendMsg
<1>4. m \notin ReplyMsg
  BY <1>1 DEF ReplyMsg
<1> QED
  BY <1>2, <1>3, <1>4

\* The answer to a request is a message.
LEMMA AnsweredTyped ==
  ASSUME TypeOK, NEW m \in net, m.type # "reply", NEW ok \in BOOLEAN
  PROVE  Answered(m, ok) \subseteq VoteMsg \cup AppendMsg \cup ReplyMsg
PROOF
<1>1. m \in VoteMsg \cup AppendMsg
  BY DEF TypeOK, ReplyMsg
<1>2. m.task # NoTask => m.task \in {Election(n) : n \in Node} \cup Broadcasts
  BY <1>1 DEF VoteMsg, AppendMsg
<1>3. m.task # NoTask => Reply(m.task, ok) \in ReplyMsg
  BY <1>2 DEF Reply, ReplyMsg
<1> QED
  BY <1>3 DEF Answered, TypeOK

-----------------------------------------------------------------------------
(***************************************************************************)
(* The election loop.                                                      *)
(***************************************************************************)

\* Requests for votes are messages.
LEMMA VoteRequestTyped ==
  ASSUME NEW n \in Node, NEW i \in 1 .. Len(Peers[n]), NEW t \in Nat,
         NEW cp \in Campaign
  PROVE  VoteRequest(n, i, t, cp) \in VoteMsg
BY PeerIsNode DEF VoteRequest, VoteMsg, Campaign

\* A task that does not run has the type of one that does.
LEMMA IdleTyped == IdleCampaign \in Campaign /\ IdleBroadcast \in Broadcast
PROOF
<1>1. << >> \in Seq(Entry)
  OBVIOUS
<1> QED
  BY <1>1 DEF IdleCampaign, IdleBroadcast, Campaign, Broadcast

\* A node that starts an election raises its term and votes for itself.
LEMMA StartElectionStep ==
  ASSUME RaftInv, NEW n \in Node, StartElection(n), UNCHANGED life
  PROVE  RaftInv'
PROOF
<1> DEFINE cp == [peer |-> 1, votes |-> 1,
                  lastIdx |-> Len(log[n]), lastTerm |-> LastTerm(log[n])]
<1>1. TypeOK /\ CallsAPeer /\ VotesRemembered /\ VoteOnce /\ CommittedIsApplied
  BY DEF RaftInv
<1>2. /\ campaign' = [campaign EXCEPT ![n] = cp]
      /\ net' = net \cup {VoteRequest(n, 1, term[n] + 1, cp)}
      /\ role'     = [role EXCEPT ![n] = "candidate"]
      /\ term'     = [term EXCEPT ![n] = @ + 1]
      /\ votedFor' = [votedFor EXCEPT ![n] = n]
      /\ granted'  = granted \cup {<<n, term[n] + 1, n, life[n]>>}
      /\ UNCHANGED <<log, commitIndex, lastApplied, broadcast, result, timeouts>>
  BY DEF StartElection, logVars
<1>3. term[n] \in Nat /\ life[n] \in Nat /\ log[n] \in Seq(Entry)
  BY <1>1 DEF TypeOK
<1>4. cp \in Campaign
  BY <1>3, LastTermIsNat DEF Campaign
<1>5. VoteRequest(n, 1, term[n] + 1, cp) \in VoteMsg
  <2>1. 1 \in 1 .. Len(Peers[n]) /\ term[n] + 1 \in Nat
    BY <1>3, PeersNotEmpty
  <2> HIDE DEF cp
  <2> QED
    BY <1>4, <2>1, VoteRequestTyped
<1>6. TypeOK'
  <2> HIDE DEF cp
  <2> QED
    BY <1>1, <1>2, <1>3, <1>4, <1>5 DEF TypeOK
<1>7. CallsAPeer'
  BY <1>1, <1>2, PeersNotEmpty DEF CallsAPeer, TypeOK
<1>8. VotesRemembered'
  <2>1. SUFFICES ASSUME NEW g \in granted'
                 PROVE  /\ g[4] <= life[g[1]]
                        /\ g[4] = life[g[1]] =>
                             /\ g[2] <= term'[g[1]]
                             /\ g[2] = term'[g[1]] => votedFor'[g[1]] = g[3]
    BY DEF VotesRemembered
  <2>2. CASE g = <<n, term[n] + 1, n, life[n]>>
    BY <1>1, <1>2, <1>3, <2>2 DEF TypeOK
  <2>3. CASE g \in granted
    <3>1. g[1] \in Node /\ g[2] \in Nat /\ term[g[1]] \in Nat
      BY <1>1, <2>3 DEF TypeOK
    <3>2. /\ g[4] <= life[g[1]]
          /\ g[4] = life[g[1]] =>
               g[2] <= term[g[1]] /\ (g[2] = term[g[1]] => votedFor[g[1]] = g[3])
      BY <1>1, <2>3 DEF VotesRemembered
    <3>3. CASE g[1] = n
      <4>1. term'[g[1]] = term[g[1]] + 1
        BY <1>1, <1>2, <3>3 DEF TypeOK
      <4> QED
        BY <3>1, <3>2, <4>1
    <3>4. CASE g[1] # n
      <4>1. term'[g[1]] = term[g[1]] /\ votedFor'[g[1]] = votedFor[g[1]]
        BY <1>1, <1>2, <3>1, <3>4 DEF TypeOK
      <4> QED
        BY <3>2, <4>1
    <3> QED
      BY <3>3, <3>4
  <2> QED
    BY <1>2, <2>2, <2>3
<1>9. VoteOnce'
  <2>1. \A g \in granted : g[1] = n /\ g[4] = life[n] => g[2] # term[n] + 1
    BY <1>1, <1>3 DEF VotesRemembered, TypeOK
  <2> QED
    BY <1>1, <1>2, <2>1 DEF VoteOnce
<1>10. CommittedIsApplied'
  BY <1>1, <1>2 DEF CommittedIsApplied
<1> QED
  BY <1>6, <1>7, <1>8, <1>9, <1>10 DEF RaftInv

\* The loop goes on to the next peer or ends, with the call's message gone.
LEMMA NextVoterStep ==
  ASSUME RaftInv, NEW n \in Node, campaign[n].peer # 0,
         NEW voteGranted \in BOOLEAN,
         NEW msgs, msgs \subseteq VoteMsg \cup AppendMsg \cup ReplyMsg,
         NextVoter(n, voteGranted, msgs), timeouts' \in Nat, UNCHANGED life
  PROVE  RaftInv'
PROOF
<1> DEFINE cp    == campaign[n]
           votes == cp.votes + (IF voteGranted THEN 1 ELSE 0)
<1>1. TypeOK /\ CallsAPeer /\ VotesRemembered /\ VoteOnce /\ CommittedIsApplied
  BY DEF RaftInv
<1>2. UNCHANGED <<term, votedFor, log, commitIndex, lastApplied, result, granted>>
  BY DEF NextVoter, logVars
<1>3. cp \in Campaign /\ term[n] \in Nat /\ votes \in Nat
  BY <1>1 DEF TypeOK, Campaign
<1>4. cp.peer \in 1 .. Len(Peers[n]) /\ Len(Peers[n]) \in Nat
  BY <1>1, PeersNotEmpty DEF CallsAPeer
<1>5. /\ campaign' \in [Node -> Campaign]
      /\ \A x \in Node : campaign'[x].peer \in 0 .. Len(Peers[x])
      /\ net' \subseteq VoteMsg \cup AppendMsg \cup ReplyMsg
      /\ role' \in [Node -> {"follower", "candidate", "leader"}]
      /\ broadcast' = broadcast \/
           broadcast' = [broadcast EXCEPT ![Heartbeat(n)] = IdleBroadcast]
  <2>1. CASE cp.peer < Len(Peers[n])
    <3> DEFINE next == [cp EXCEPT !.peer = @ + 1, !.votes = votes]
    <3>1. /\ campaign' = [campaign EXCEPT ![n].peer = @ + 1, ![n].votes = votes]
          /\ net' = msgs \cup {VoteRequest(n, cp.peer + 1, term[n], cp)}
          /\ UNCHANGED <<role, broadcast>>
      BY <2>1 DEF NextVoter
    <3>2. next \in Campaign /\ next.peer = cp.peer + 1
      <4>1. cp.peer + 1 \in Nat
        BY <1>4
      <4> HIDE DEF cp, votes
      <4> QED
        BY <1>3, <4>1 DEF Campaign
    <3>3. campaign' = [campaign EXCEPT ![n] = next]
      BY <1>1, <3>1 DEF TypeOK
    <3>4. cp.peer + 1 \in 1 .. Len(Peers[n])
      BY <1>4, <2>1
    <3>5. VoteRequest(n, cp.peer + 1, term[n], cp) \in VoteMsg
      <4> HIDE DEF cp
      <4> QED
        BY <1>3, <3>4, VoteRequestTyped
    <3> HIDE DEF next
    <3>6. campaign' \in [Node -> Campaign]
      BY <1>1, <3>2, <3>3 DEF TypeOK
    <3>7. \A x \in Node : campaign'[x].peer \in 0 .. Len(Peers[x])
      BY <1>1, <1>4, <3>2, <3>3, <3>4 DEF CallsAPeer, TypeOK
    <3> QED
      BY <1>1, <3>1, <3>5, <3>6, <3>7 DEF TypeOK
  <2>2. CASE ~(cp.peer < Len(Peers[n]))
    <3>1. FinishElection(n, votes, msgs)
      BY <2>2 DEF NextVoter
    <3>2. campaign' = [campaign EXCEPT ![n] = IdleCampaign]
      BY <3>1 DEF FinishElection
    <3>3. campaign' \in [Node -> Campaign]
      BY <1>1, <3>2, IdleTyped DEF TypeOK
    <3>4. \A x \in Node : campaign'[x].peer \in 0 .. Len(Peers[x])
      <4>1. IdleCampaign.peer = 0
        BY DEF IdleCampaign
      <4> QED
        BY <1>1, <1>4, <3>2, <4>1 DEF CallsAPeer, TypeOK
    <3>5. net' = msgs \/ net' = Abandoned(msgs, Heartbeat(n))
      BY <3>1 DEF FinishElection
    <3>6. net' \subseteq VoteMsg \cup AppendMsg \cup ReplyMsg
      BY <3>5, AbandonedTyped
    <3>7. /\ role' \in [Node -> {"follower", "candidate", "leader"}]
          /\ broadcast' = broadcast \/
               broadcast' = [broadcast EXCEPT ![Heartbeat(n)] = IdleBroadcast]
      BY <1>1, <3>1 DEF FinishElection, TypeOK
    <3> QED
      BY <3>3, <3>4, <3>6, <3>7
  <2> QED
    BY <2>1, <2>2
<1>6. broadcast' \in [Broadcasts -> Broadcast]
  BY <1>1, <1>5, IdleTyped DEF TypeOK
<1>7. TypeOK'
  BY <1>1, <1>2, <1>5, <1>6 DEF TypeOK
<1>8. CallsAPeer'
  <2>1. IdleBroadcast.peer = 0
    BY DEF IdleBroadcast
  <2>2. \A k \in Broadcasts : broadcast'[k] = broadcast[k] \/ broadcast'[k] = IdleBroadcast
    BY <1>1, <1>5 DEF TypeOK
  <2> QED
    BY <1>1, <1>5, <2>1, <2>2 DEF CallsAPeer
<1>9. VotesRemembered' /\ VoteOnce' /\ CommittedIsApplied'
  BY <1>1, <1>2 DEF VotesRemembered, VoteOnce, CommittedIsApplied
<1> QED
  BY <1>7, <1>8, <1>9 DEF RaftInv

\* Taking a reply off the network, or giving up on a call.
LEMMA ElectionCallEnds ==
  ASSUME RaftInv, NEW n \in Node, VoteReturns(n) \/ VoteTimesOut(n), UNCHANGED life
  PROVE  RaftInv'
PROOF
<1>1. TypeOK
  BY DEF RaftInv
<1>2. CASE VoteReturns(n)
  <2>1. PICK m \in net : /\ campaign[n].peer # 0 /\ m.type = "reply"
                         /\ NextVoter(n, m.ok, net \ {m}) /\ UNCHANGED timeouts
    BY <1>2 DEF VoteReturns
  <2>2. m.ok \in BOOLEAN
    BY <1>1, <2>1 DEF TypeOK, VoteMsg, AppendMsg, ReplyMsg
  <2>3. net \ {m} \subseteq VoteMsg \cup AppendMsg \cup ReplyMsg /\ timeouts' \in Nat
    BY <1>1, <2>1 DEF TypeOK
  <2> QED
    BY <2>1, <2>2, <2>3, NextVoterStep
<1>3. CASE VoteTimesOut(n)
  <2>1. /\ campaign[n].peer # 0 /\ timeouts' = timeouts + 1
        /\ NextVoter(n, FALSE, Abandoned(net, Election(n)))
    BY <1>3 DEF VoteTimesOut
  <2>2. Abandoned(net, Election(n)) \subseteq VoteMsg \cup AppendMsg \cup ReplyMsg
    BY <1>1, AbandonedTyped DEF TypeOK
  <2>3. timeouts' \in Nat
    BY <1>1, <2>1 DEF TypeOK
  <2> QED
    BY <2>1, <2>2, <2>3, NextVoterStep
<1> QED
  BY <1>2, <1>3

-----------------------------------------------------------------------------
(***************************************************************************)
(* The vote handler: the only place where a node votes for another.        *)
(***************************************************************************)

\* A vote is given in the present term to the candidate already chosen, or to the first.
LEMMA HandleRequestVoteStep ==
  ASSUME RaftInv, NEW m \in net, HandleRequestVote(m), UNCHANGED life
  PROVE  RaftInv'
PROOF
<1> DEFINE n      == m.to
           newer  == IsNewer(m)
           myTerm == IF newer THEN m.term ELSE term[n]
           myVote == IF newer THEN None ELSE votedFor[n]
           ok     == /\ m.term >= myTerm /\ UpToDate(m, log[n])
                     /\ FreeToVote(myVote, m.cand)
<1>1. TypeOK /\ CallsAPeer /\ VotesRemembered /\ VoteOnce /\ CommittedIsApplied
  BY DEF RaftInv
<1>2. /\ m.type = "vote"
      /\ term'     = [term EXCEPT ![n] = myTerm]
      /\ role'     = [role EXCEPT ![n] = IF newer THEN "follower" ELSE @]
      /\ votedFor' = [votedFor EXCEPT ![n] = IF ok THEN m.cand ELSE myVote]
      /\ granted'  = IF ok THEN granted \cup {<<n, myTerm, m.cand, life[n]>>} ELSE granted
      /\ net'      = Answered(m, ok)
      /\ UNCHANGED <<log, commitIndex, lastApplied, campaign, broadcast, result, timeouts>>
  BY DEF HandleRequestVote, logVars, taskVars
<1>3. n \in Node /\ m.cand \in Node /\ m.term \in Nat
  <2>1. m \in VoteMsg
    BY <1>1, <1>2 DEF TypeOK, AppendMsg, ReplyMsg
  <2> QED
    BY <2>1 DEF VoteMsg
<1>4. term[n] \in Nat /\ votedFor[n] \in Node \cup {None} /\ life[n] \in Nat
  BY <1>1, <1>3 DEF TypeOK
<1>5. myTerm \in Nat /\ myVote \in Node \cup {None} /\ myTerm >= term[n]
  BY <1>3, <1>4 DEF IsNewer
<1>6. ok \in BOOLEAN
  BY DEF FreeToVote
<1>7. net' \subseteq VoteMsg \cup AppendMsg \cup ReplyMsg
  BY <1>1, <1>2, <1>6, AnsweredTyped
\* What a granted vote means for the voter's memory.
<1>8. ok => /\ m.term = myTerm
            /\ newer \/ (myTerm = term[n] /\ votedFor[n] \in {None, m.cand})
  BY <1>3, <1>4 DEF IsNewer, FreeToVote
<1>9. ~newer => myTerm = term[n] /\ myVote = votedFor[n]
  OBVIOUS
<1>10. newer => myTerm > term[n]
  BY <1>3, <1>4 DEF IsNewer
<1> HIDE DEF n, newer, myTerm, myVote, ok
<1>11. TypeOK'
  <2>1. granted' \subseteq Node \X Nat \X Node \X Nat
    BY <1>1, <1>2, <1>3, <1>5 DEF TypeOK
  <2>2. votedFor' \in [Node -> Node \cup {None}]
    BY <1>1, <1>2, <1>3, <1>5 DEF TypeOK
  <2>3. term' \in [Node -> Nat] /\ role' \in [Node -> {"follower", "candidate", "leader"}]
    BY <1>1, <1>2, <1>3, <1>5 DEF TypeOK
  <2> QED
    BY <1>1, <1>2, <1>7, <2>1, <2>2, <2>3 DEF TypeOK
<1>12. CallsAPeer' /\ CommittedIsApplied'
  BY <1>1, <1>2 DEF CallsAPeer, CommittedIsApplied
\* An older vote of this life of n, in the term n is in now.
<1>13. \A g \in granted : g[1] = n /\ g[2] = myTerm /\ g[4] = life[n] =>
         ~newer /\ votedFor[n] = g[3] /\ g[3] \in Node
  <2>1. SUFFICES ASSUME NEW g \in granted, g[1] = n, g[2] = myTerm, g[4] = life[n]
                 PROVE  ~newer /\ votedFor[n] = g[3] /\ g[3] \in Node
    OBVIOUS
  <2>2. g[3] \in Node /\ g[2] <= term[n] /\ (g[2] = term[n] => votedFor[n] = g[3])
    BY <1>1, <2>1 DEF TypeOK, VotesRemembered
  <2> QED
    BY <1>4, <1>5, <1>9, <1>10, <2>1, <2>2
<1>14. VotesRemembered'
  <2>1. SUFFICES ASSUME NEW g \in granted'
                 PROVE  /\ g[4] <= life[g[1]]
                        /\ g[4] = life[g[1]] =>
                             /\ g[2] <= term'[g[1]]
                             /\ g[2] = term'[g[1]] => votedFor'[g[1]] = g[3]
    BY DEF VotesRemembered
  <2>2. CASE ok /\ g = <<n, myTerm, m.cand, life[n]>>
    <3>1. term'[n] = myTerm /\ votedFor'[n] = m.cand
      BY <1>1, <1>2, <1>3, <2>2 DEF TypeOK
    <3> QED
      BY <1>4, <1>5, <2>2, <3>1
  <2>3. CASE g \in granted
    <3>1. /\ g[1] \in Node /\ g[2] \in Nat /\ g[3] \in Node /\ term[g[1]] \in Nat
          /\ g[4] <= life[g[1]]
          /\ g[4] = life[g[1]] =>
               g[2] <= term[g[1]] /\ (g[2] = term[g[1]] => votedFor[g[1]] = g[3])
      BY <1>1, <2>3 DEF TypeOK, VotesRemembered
    <3>2. CASE g[1] # n
      BY <1>1, <1>2, <1>3, <3>1, <3>2 DEF TypeOK
    <3>3. CASE g[1] = n
      <4>1. term'[n] = myTerm /\ votedFor'[n] = IF ok THEN m.cand ELSE myVote
        BY <1>1, <1>2, <1>3 DEF TypeOK
      <4>2. g[4] = life[n] => g[2] <= myTerm
        BY <1>4, <1>5, <3>1, <3>3
      <4>3. g[4] = life[n] /\ g[2] = myTerm => votedFor'[n] = g[3]
        BY <1>8, <1>9, <1>13, <2>3, <3>3, <4>1, NoneIsNoNode
      <4> QED
        BY <3>1, <3>3, <4>1, <4>2, <4>3
    <3> QED
      BY <3>2, <3>3
  <2> QED
    BY <1>2, <2>2, <2>3
<1>15. VoteOnce'
  <2>1. ok => \A g \in granted : g[1] = n /\ g[2] = myTerm /\ g[4] = life[n] => g[3] = m.cand
    BY <1>8, <1>13, NoneIsNoNode
  <2> QED
    BY <1>1, <1>2, <2>1 DEF VoteOnce
<1> QED
  BY <1>11, <1>12, <1>14, <1>15 DEF RaftInv

-----------------------------------------------------------------------------
(***************************************************************************)
(* _broadcast_append and submit.                                           *)
(***************************************************************************)

\* A broadcast starts at its node's first peer.
LEMMA NewBroadcastTyped ==
  ASSUME NEW n \in Node, NEW lg \in Seq(Entry), NEW entries \in Seq(Entry),
         Len(entries) <= Len(lg)
  PROVE  /\ NewBroadcast(n, lg, entries) \in Broadcast
         /\ NewBroadcast(n, lg, entries).node = n
         /\ NewBroadcast(n, lg, entries).peer = 1
PROOF
<1>1. Len(lg) - Len(entries) \in 0 .. Len(lg) /\ Len(lg) - Len(entries) \in Nat
  OBVIOUS
<1>2. TermAt(lg, Len(lg) - Len(entries)) \in Nat
  BY <1>1, TermAtIsNat
<1> QED
  BY <1>1, <1>2 DEF NewBroadcast, Broadcast

\* What a broadcast sends is an append request.
LEMMA AppendRequestTyped ==
  ASSUME TypeOK, NEW k \in Broadcasts, NEW b \in Broadcast, b.node \in Node,
         NEW i \in 1 .. Len(Peers[b.node])
  PROVE  AppendRequest(k, i, b) \in AppendMsg
PROOF
<1>1. term[b.node] \in Nat /\ commitIndex[b.node] \in Nat
  BY DEF TypeOK
<1>2. Peers[b.node][i] \in Node
  BY PeerIsNode
<1> QED
  BY <1>1, <1>2 DEF AppendRequest, AppendMsg, Broadcast

\* A task starts a broadcast by calling the first peer.
LEMMA BroadcastStarts ==
  ASSUME TypeOK, CallsAPeer, NEW k \in Broadcasts, NEW n \in Node,
         NEW lg \in Seq(Entry), NEW entries \in Seq(Entry), Len(entries) <= Len(lg),
         NEW b, b = NewBroadcast(n, lg, entries),
         broadcast' = [broadcast EXCEPT ![k] = b],
         net' = net \cup {AppendRequest(k, 1, b)}
  PROVE  /\ broadcast' \in [Broadcasts -> Broadcast]
         /\ net' \subseteq VoteMsg \cup AppendMsg \cup ReplyMsg
         /\ \A x \in Broadcasts :
              broadcast'[x].peer # 0 =>
                /\ broadcast'[x].node \in Node
                /\ broadcast'[x].peer \in 1 .. Len(Peers[broadcast'[x].node])
PROOF
<1>1. b \in Broadcast /\ b.node = n /\ b.peer = 1 /\ 1 \in 1 .. Len(Peers[n])
  BY NewBroadcastTyped, PeersNotEmpty
<1>2. AppendRequest(k, 1, b) \in AppendMsg
  BY <1>1, AppendRequestTyped
<1>3. broadcast \in [Broadcasts -> Broadcast]
  BY DEF TypeOK
<1> QED
  BY <1>1, <1>2, <1>3 DEF TypeOK, CallsAPeer

\* A heartbeat is a broadcast without entries.
LEMMA HeartbeatStep ==
  ASSUME RaftInv, NEW n \in Node, StartHeartbeat(n), UNCHANGED life
  PROVE  RaftInv'
PROOF
<1> DEFINE b == NewBroadcast(n, log[n], << >>)
<1>1. TypeOK /\ CallsAPeer /\ VotesRemembered /\ VoteOnce /\ CommittedIsApplied
  BY DEF RaftInv
<1>2. /\ broadcast' = [broadcast EXCEPT ![Heartbeat(n)] = b]
      /\ net' = net \cup {AppendRequest(Heartbeat(n), 1, b)}
      /\ UNCHANGED <<term, votedFor, role, log, commitIndex, lastApplied, campaign,
                     result, timeouts, granted>>
  BY DEF StartHeartbeat, logVars
<1>3. /\ log[n] \in Seq(Entry) /\ << >> \in Seq(Entry) /\ Len(<< >>) <= Len(log[n])
      /\ Heartbeat(n) \in Broadcasts
  BY <1>1 DEF TypeOK, Broadcasts
<1> HIDE DEF b
<1>4. /\ broadcast' \in [Broadcasts -> Broadcast]
      /\ net' \subseteq VoteMsg \cup AppendMsg \cup ReplyMsg
      /\ \A x \in Broadcasts :
           broadcast'[x].peer # 0 =>
             /\ broadcast'[x].node \in Node
             /\ broadcast'[x].peer \in 1 .. Len(Peers[broadcast'[x].node])
  BY <1>1, <1>2, <1>3, BroadcastStarts DEF b
<1>5. TypeOK' /\ CallsAPeer'
  BY <1>1, <1>2, <1>4 DEF TypeOK, CallsAPeer
<1>6. VotesRemembered' /\ VoteOnce' /\ CommittedIsApplied'
  BY <1>1, <1>2 DEF VotesRemembered, VoteOnce, CommittedIsApplied
<1> QED
  BY <1>5, <1>6 DEF RaftInv

\* A submit adds an entry to the leader's log and starts a broadcast.
LEMMA SubmitStep ==
  ASSUME RaftInv, NEW n \in Node, NEW c \in Cmd, StartSubmit(n, c), UNCHANGED life
  PROVE  RaftInv'
PROOF
<1> DEFINE entry == [term |-> term[n], cmd |-> c]
           lg    == Append(log[n], entry)
           one   == <<entry>>
           b     == NewBroadcast(n, lg, one)
<1>1. TypeOK /\ CallsAPeer /\ VotesRemembered /\ VoteOnce /\ CommittedIsApplied
  BY DEF RaftInv
<1>2. /\ log' = [log EXCEPT ![n] = lg]
      /\ broadcast' = [broadcast EXCEPT ![Submit(c)] = b]
      /\ net' = net \cup {AppendRequest(Submit(c), 1, b)}
      /\ UNCHANGED <<term, votedFor, role, commitIndex, lastApplied, campaign,
                     result, timeouts, granted>>
  BY DEF StartSubmit
<1>3. entry \in Entry /\ log[n] \in Seq(Entry)
  BY <1>1 DEF TypeOK, Entry
<1> HIDE DEF entry
<1>4. /\ lg \in Seq(Entry) /\ one \in Seq(Entry) /\ Len(one) <= Len(lg)
      /\ Len(lg) = Len(log[n]) + 1
  BY <1>3
<1>5. Submit(c) \in Broadcasts
  BY DEF Broadcasts
<1> HIDE DEF b, lg, one
<1>6. /\ broadcast' \in [Broadcasts -> Broadcast]
      /\ net' \subseteq VoteMsg \cup AppendMsg \cup ReplyMsg
      /\ \A x \in Broadcasts :
           broadcast'[x].peer # 0 =>
             /\ broadcast'[x].node \in Node
             /\ broadcast'[x].peer \in 1 .. Len(Peers[broadcast'[x].node])
  BY <1>1, <1>2, <1>4, <1>5, BroadcastStarts DEF b
<1>7. TypeOK' /\ CallsAPeer'
  BY <1>1, <1>2, <1>4, <1>6 DEF TypeOK, CallsAPeer
<1>8. VotesRemembered' /\ VoteOnce'
  BY <1>1, <1>2 DEF VotesRemembered, VoteOnce
<1>9. CommittedIsApplied'
  <2>1. \A x \in Node : Len(log'[x]) >= Len(log[x]) /\ Len(log'[x]) \in Nat /\ Len(log[x]) \in Nat
    BY <1>1, <1>2, <1>3, <1>4 DEF TypeOK
  <2> QED
    BY <1>1, <1>2, <2>1 DEF CommittedIsApplied, TypeOK
<1> QED
  BY <1>7, <1>8, <1>9 DEF RaftInv

\* The broadcast goes on to the next peer or ends; its end may commit.
LEMMA NextFollowerStep ==
  ASSUME RaftInv, NEW k \in Broadcasts, broadcast[k].peer # 0,
         NEW success \in BOOLEAN,
         NEW msgs, msgs \subseteq VoteMsg \cup AppendMsg \cup ReplyMsg,
         NextFollower(k, success, msgs), timeouts' \in Nat, UNCHANGED life
  PROVE  RaftInv'
PROOF
<1> DEFINE b    == broadcast[k]
           acks == b.acks + (IF success THEN 1 ELSE 0)
<1>1. TypeOK /\ CallsAPeer /\ VotesRemembered /\ VoteOnce /\ CommittedIsApplied
  BY DEF RaftInv
<1>2. UNCHANGED <<term, votedFor, role, log, campaign, granted>>
  BY DEF NextFollower
<1>3. b \in Broadcast /\ acks \in Nat
  BY <1>1 DEF TypeOK, Broadcast
<1>4. b.node \in Node /\ b.peer \in 1 .. Len(Peers[b.node]) /\ Len(Peers[b.node]) \in Nat
  BY <1>1, PeersNotEmpty DEF CallsAPeer
<1>5. CASE b.peer < Len(Peers[b.node])
  <2> DEFINE next == [b EXCEPT !.peer = @ + 1, !.acks = acks]
  <2>1. /\ broadcast' = [broadcast EXCEPT ![k].peer = @ + 1, ![k].acks = acks]
        /\ net' = msgs \cup {AppendRequest(k, b.peer + 1, b)}
        /\ UNCHANGED <<commitIndex, lastApplied, result>>
    BY <1>5 DEF NextFollower
  <2>2. next \in Broadcast /\ next.peer = b.peer + 1 /\ next.node = b.node
    <3>1. b.peer + 1 \in Nat
      BY <1>4
    <3> HIDE DEF b, acks
    <3> QED
      BY <1>3, <3>1 DEF Broadcast
  <2>3. broadcast' = [broadcast EXCEPT ![k] = next]
    BY <1>1, <2>1 DEF TypeOK
  <2>4. b.peer + 1 \in 1 .. Len(Peers[b.node])
    BY <1>4, <1>5
  <2>5. AppendRequest(k, b.peer + 1, b) \in AppendMsg
    <3> HIDE DEF b
    <3> QED
      BY <1>1, <1>3, <1>4, <2>4, AppendRequestTyped
  <2> HIDE DEF b, next
  <2>6. TypeOK'
    BY <1>1, <1>2, <2>1, <2>2, <2>3, <2>5 DEF TypeOK
  <2>7. CallsAPeer'
    BY <1>1, <1>2, <1>4, <2>2, <2>3, <2>4 DEF CallsAPeer, TypeOK
  <2>8. VotesRemembered' /\ VoteOnce' /\ CommittedIsApplied'
    BY <1>1, <1>2, <2>1 DEF VotesRemembered, VoteOnce, CommittedIsApplied
  <2> QED
    BY <2>6, <2>7, <2>8 DEF RaftInv
<1>6. CASE ~(b.peer < Len(Peers[b.node]))
  <2>1. /\ broadcast' = [broadcast EXCEPT ![k] = IdleBroadcast]
        /\ net' = msgs
        /\ IF k[1] = "submit" THEN FinishSubmit(k[2], b.node, acks)
                              ELSE UNCHANGED <<commitIndex, lastApplied, result>>
    BY <1>6 DEF NextFollower
  <2>2. \/ UNCHANGED <<commitIndex, lastApplied, result>>
        \/ /\ result' = [result EXCEPT ![k[2]] = "failed"]
           /\ UNCHANGED <<commitIndex, lastApplied>>
        \/ /\ result' = [result EXCEPT ![k[2]] = "ok"]
           /\ CommitAll(b.node)
    BY <2>1 DEF FinishSubmit
  <2> HIDE DEF b, acks
  <2>3. /\ commitIndex' \in [Node -> Nat] /\ lastApplied' \in [Node -> Nat]
        /\ \A n \in Node : lastApplied'[n] = commitIndex'[n] /\ commitIndex'[n] <= Len(log[n])
    <3>1. \A n \in Node : Len(log[n]) \in Nat /\ commitIndex[n] \in Nat /\ lastApplied[n] \in Nat
      BY <1>1 DEF TypeOK
    <3>2. CASE UNCHANGED <<commitIndex, lastApplied>>
      BY <1>1, <3>2 DEF TypeOK, CommittedIsApplied
    <3>3. CASE CommitAll(b.node)
      <4>1. /\ commitIndex' = [commitIndex EXCEPT ![b.node] = Len(log[b.node])]
            /\ lastApplied' = [lastApplied EXCEPT
                 ![b.node] = IF @ < Len(log[b.node]) THEN Len(log[b.node]) ELSE @]
        BY <3>3 DEF CommitAll
      <4>2. commitIndex' \in [Node -> Nat] /\ lastApplied' \in [Node -> Nat]
        BY <1>1, <1>4, <3>1, <4>1 DEF TypeOK
      <4> QED
        BY <1>1, <1>4, <3>1, <4>1, <4>2 DEF TypeOK, CommittedIsApplied
    <3> QED
      BY <2>2, <3>2, <3>3
  <2>4. result' \in [Cmd -> {"none", "ok", "failed", "lost"}]
    BY <1>1, <2>2 DEF TypeOK
  <2>5. broadcast' \in [Broadcasts -> Broadcast]
    BY <1>1, <2>1, IdleTyped DEF TypeOK
  <2>6. TypeOK'
    BY <1>1, <1>2, <2>1, <2>3, <2>4, <2>5 DEF TypeOK
  <2>7. CallsAPeer'
    <3>1. IdleBroadcast.peer = 0
      BY DEF IdleBroadcast
    <3> QED
      BY <1>1, <1>2, <2>1, <3>1 DEF CallsAPeer, TypeOK
  <2>8. VotesRemembered' /\ VoteOnce' /\ CommittedIsApplied'
    BY <1>1, <1>2, <2>3 DEF VotesRemembered, VoteOnce, CommittedIsApplied
  <2> QED
    BY <2>6, <2>7, <2>8 DEF RaftInv
<1> QED
  BY <1>5, <1>6

\* A call that ends leads to the next, or to the end of the broadcast.
LEMMA AppendCallEnds ==
  ASSUME RaftInv, NEW k \in Broadcasts, AppendReturns(k) \/ AppendTimesOut(k), UNCHANGED life
  PROVE  RaftInv'
PROOF
<1>1. TypeOK
  BY DEF RaftInv
<1>2. CASE AppendReturns(k)
  <2>1. PICK m \in net : /\ broadcast[k].peer # 0 /\ m.type = "reply"
                         /\ NextFollower(k, m.ok, net \ {m}) /\ UNCHANGED timeouts
    BY <1>2 DEF AppendReturns
  <2>2. m.ok \in BOOLEAN
    BY <1>1, <2>1 DEF TypeOK, VoteMsg, AppendMsg, ReplyMsg
  <2>3. net \ {m} \subseteq VoteMsg \cup AppendMsg \cup ReplyMsg /\ timeouts' \in Nat
    BY <1>1, <2>1 DEF TypeOK
  <2> QED
    BY <2>1, <2>2, <2>3, NextFollowerStep
<1>3. CASE AppendTimesOut(k)
  <2>1. /\ broadcast[k].peer # 0 /\ timeouts' = timeouts + 1
        /\ NextFollower(k, FALSE, Abandoned(net, k))
    BY <1>3 DEF AppendTimesOut
  <2>2. Abandoned(net, k) \subseteq VoteMsg \cup AppendMsg \cup ReplyMsg
    BY <1>1, AbandonedTyped DEF TypeOK
  <2>3. timeouts' \in Nat
    BY <1>1, <2>1 DEF TypeOK
  <2> QED
    BY <2>1, <2>2, <2>3, NextFollowerStep
<1> QED
  BY <1>2, <1>3

-----------------------------------------------------------------------------
(***************************************************************************)
(* The append handler.  It raises the term and keeps the vote, so a vote   *)
(* of the new term can only come later.                                    *)
(***************************************************************************)

\* Entries are appended behind what the log holds; nothing in it moves.
LEMMA AppendedEntries ==
  ASSUME NEW lg \in Seq(Entry), NEW entries \in Seq(Entry)
  PROVE  /\ lg \o entries \in Seq(Entry)
         /\ Len(lg \o entries) \in Nat
         /\ Len(lg \o entries) >= Len(lg)
         /\ \A i \in 1 .. Len(lg) : (lg \o entries)[i] = lg[i]
PROOF
<1>1. /\ lg \o entries \in Seq(Entry)
      /\ Len(lg \o entries) = Len(lg) + Len(entries)
  OBVIOUS
<1>2. \A i \in 1 .. Len(lg) : (lg \o entries)[i] = lg[i]
  OBVIOUS
<1> QED
  BY <1>1, <1>2

\* A request of an older term changes nothing but the network.
LEMMA RejectStaleStep ==
  ASSUME RaftInv, NEW m \in net, RejectStale(m), UNCHANGED life
  PROVE  RaftInv'
PROOF
<1>1. TypeOK /\ CallsAPeer /\ VotesRemembered /\ VoteOnce /\ CommittedIsApplied
  BY DEF RaftInv
<1>2. /\ net' = Answered(m, FALSE) /\ m.type = "append"
      /\ UNCHANGED <<term, votedFor, role, log, commitIndex, lastApplied, campaign,
                     broadcast, result, timeouts, granted>>
  BY DEF RejectStale, logVars, taskVars
<1>3. net' \subseteq VoteMsg \cup AppendMsg \cup ReplyMsg
  BY <1>1, <1>2, AnsweredTyped
<1> QED
  BY <1>1, <1>2, <1>3
     DEF RaftInv, TypeOK, CallsAPeer, VotesRemembered, VoteOnce, CommittedIsApplied

\* What an accepted sender changes outside the log.
LEMMA FollowSenderStep ==
  ASSUME RaftInv, NEW m \in net, FollowSender(m), NEW ok \in BOOLEAN,
         net' = Answered(m, ok), UNCHANGED life
  PROVE  /\ m \in AppendMsg
         /\ term' \in [Node -> Nat]
         /\ role' \in [Node -> {"follower", "candidate", "leader"}]
         /\ net' \subseteq VoteMsg \cup AppendMsg \cup ReplyMsg
         /\ VotesRemembered' /\ VoteOnce' /\ CallsAPeer'
         /\ \A n \in Node : term'[n] >= term[n]
PROOF
<1>1. TypeOK /\ CallsAPeer /\ VotesRemembered /\ VoteOnce
  BY DEF RaftInv
<1>2. /\ m.type = "append" /\ m.term >= term[m.to]
      /\ term' = [term EXCEPT ![m.to] = m.term]
      /\ role' = [role EXCEPT ![m.to] = "follower"]
      /\ UNCHANGED <<votedFor, campaign, broadcast, granted>>
  BY DEF FollowSender, taskVars
<1>3. m \in AppendMsg
  BY <1>1, <1>2 DEF TypeOK, VoteMsg, ReplyMsg
<1>4. m.to \in Node /\ m.term \in Nat /\ term[m.to] \in Nat
  BY <1>1, <1>3 DEF AppendMsg, TypeOK
<1>5. term' \in [Node -> Nat] /\ role' \in [Node -> {"follower", "candidate", "leader"}]
  BY <1>1, <1>2, <1>4 DEF TypeOK
<1>6. net' \subseteq VoteMsg \cup AppendMsg \cup ReplyMsg
  BY <1>1, <1>2, AnsweredTyped
<1>7. \A n \in Node : term'[n] >= term[n] /\ term'[n] \in Nat /\ term[n] \in Nat
  BY <1>1, <1>2, <1>4 DEF TypeOK
<1>8. VotesRemembered'
  <2>1. SUFFICES ASSUME NEW g \in granted
                 PROVE  /\ g[4] <= life[g[1]]
                        /\ g[4] = life[g[1]] =>
                             /\ g[2] <= term'[g[1]]
                             /\ g[2] = term'[g[1]] => votedFor[g[1]] = g[3]
    BY <1>2 DEF VotesRemembered
  <2>2. /\ g[1] \in Node /\ g[2] \in Nat
        /\ g[4] <= life[g[1]]
        /\ g[4] = life[g[1]] =>
             g[2] <= term[g[1]] /\ (g[2] = term[g[1]] => votedFor[g[1]] = g[3])
    BY <1>1 DEF TypeOK, VotesRemembered
  <2> QED
    BY <1>7, <2>2
<1>9. VoteOnce' /\ CallsAPeer'
  BY <1>1, <1>2 DEF VoteOnce, CallsAPeer
<1> QED
  BY <1>3, <1>5, <1>6, <1>7, <1>8, <1>9

\* A request that does not fit the log raises the term at most.
LEMMA RejectMismatchStep ==
  ASSUME RaftInv, NEW m \in net, RejectMismatch(m), UNCHANGED life
  PROVE  RaftInv'
PROOF
<1>1. TypeOK /\ CommittedIsApplied
  BY DEF RaftInv
<1>2. /\ FollowSender(m) /\ net' = Answered(m, FALSE)
      /\ UNCHANGED <<log, commitIndex, lastApplied>>
  BY DEF RejectMismatch, logVars
<1>3. UNCHANGED <<votedFor, campaign, broadcast, result, timeouts, granted>>
  BY <1>2 DEF FollowSender, taskVars
<1>4. /\ term' \in [Node -> Nat]
      /\ role' \in [Node -> {"follower", "candidate", "leader"}]
      /\ net' \subseteq VoteMsg \cup AppendMsg \cup ReplyMsg
      /\ VotesRemembered' /\ VoteOnce' /\ CallsAPeer'
  BY <1>2, FollowSenderStep
<1>5. TypeOK' /\ CommittedIsApplied'
  BY <1>1, <1>2, <1>3, <1>4 DEF TypeOK, CommittedIsApplied
<1> QED
  BY <1>4, <1>5 DEF RaftInv

\* A request that fits adds its entries and what the leader has committed.
LEMMA AcceptEntriesStep ==
  ASSUME RaftInv, NEW m \in net, AcceptEntries(m), UNCHANGED life
  PROVE  RaftInv'
PROOF
<1> DEFINE n      == m.to
           longer == Extended(log[n], m)
           commit == NewCommit(commitIndex[n], m.commit, Len(longer))
<1>1. TypeOK /\ CommittedIsApplied
  BY DEF RaftInv
<1>2. /\ FollowSender(m) /\ net' = Answered(m, TRUE)
      /\ log' = [log EXCEPT ![n] = longer]
      /\ commitIndex' = [commitIndex EXCEPT ![n] = commit]
      /\ lastApplied' = [lastApplied EXCEPT ![n] = IF @ < commit THEN commit ELSE @]
  BY DEF AcceptEntries
<1>3. UNCHANGED <<votedFor, campaign, broadcast, result, timeouts, granted>>
  BY <1>2 DEF FollowSender, taskVars
<1>4. /\ m \in AppendMsg
      /\ term' \in [Node -> Nat]
      /\ role' \in [Node -> {"follower", "candidate", "leader"}]
      /\ net' \subseteq VoteMsg \cup AppendMsg \cup ReplyMsg
      /\ VotesRemembered' /\ VoteOnce' /\ CallsAPeer'
  BY <1>2, FollowSenderStep
<1>5. n \in Node /\ m.entries \in Seq(Entry) /\ m.commit \in Nat
  BY <1>4 DEF AppendMsg
<1>6. /\ log[n] \in Seq(Entry) /\ commitIndex[n] \in Nat /\ lastApplied[n] = commitIndex[n]
      /\ commitIndex[n] <= Len(log[n])
  BY <1>1, <1>5 DEF TypeOK, CommittedIsApplied
<1>7. longer \in Seq(Entry) /\ Len(longer) >= Len(log[n]) /\ Len(longer) \in Nat
  BY <1>5, <1>6, AppendedEntries DEF Extended
<1>8. commit \in Nat /\ commit <= Len(longer) /\ commit >= commitIndex[n]
  <2> HIDE DEF longer
  <2> QED
    BY <1>5, <1>6, <1>7 DEF NewCommit
<1> HIDE DEF n, longer, commit
<1>9. lastApplied' = [lastApplied EXCEPT ![n] = commit]
  <2>1. (IF lastApplied[n] < commit THEN commit ELSE lastApplied[n]) = commit
    BY <1>6, <1>8
  <2> QED
    BY <1>2, <2>1
<1>10. /\ log' \in [Node -> Seq(Entry)] /\ commitIndex' \in [Node -> Nat]
       /\ lastApplied' \in [Node -> Nat]
  BY <1>1, <1>2, <1>5, <1>7, <1>8, <1>9 DEF TypeOK
<1>11. TypeOK'
  BY <1>1, <1>3, <1>4, <1>10 DEF TypeOK
<1>12. CommittedIsApplied'
  BY <1>1, <1>2, <1>5, <1>7, <1>8, <1>9 DEF TypeOK, CommittedIsApplied
<1> QED
  BY <1>4, <1>11, <1>12 DEF RaftInv

-----------------------------------------------------------------------------
(***************************************************************************)
(* The end of a process: what it forgets, no invariant speaks of.          *)
(***************************************************************************)

\* What is left on the network when a node restarts is messages.
LEMMA DisconnectedTyped ==
  ASSUME TypeOK, NEW n \in Node, NEW refused \in SUBSET Requests(n)
  PROVE  Disconnected(n, refused) \subseteq VoteMsg \cup AppendMsg \cup ReplyMsg
PROOF
<1>1. ASSUME NEW m \in net, m.type # "reply"
      PROVE  /\ m \in VoteMsg \cup AppendMsg
             /\ [m EXCEPT !.task = NoTask] \in VoteMsg \cup AppendMsg
  <2>1. m \in VoteMsg \cup AppendMsg
    BY <1>1 DEF TypeOK, ReplyMsg
  <2>2. m \in VoteMsg => [m EXCEPT !.task = NoTask] \in VoteMsg
    BY DEF VoteMsg
  <2>3. m \in AppendMsg => [m EXCEPT !.task = NoTask] \in AppendMsg
    BY DEF AppendMsg
  <2> QED
    BY <2>1, <2>2, <2>3
<1>2. ASSUME NEW m \in refused, m.task # NoTask
      PROVE  Reply(m.task, FALSE) \in ReplyMsg
  <2>1. m \in VoteMsg \cup AppendMsg
    BY <1>1 DEF Requests
  <2>2. m.task \in {Election(x) : x \in Node} \cup Broadcasts
    BY <1>2, <2>1 DEF VoteMsg, AppendMsg
  <2> QED
    BY <2>2 DEF Reply, ReplyMsg
<1> QED
  BY <1>1, <1>2 DEF Disconnected, TypeOK

\* A restarted node is a new one: nothing in the network or in a task is its own.
LEMMA RestartStep ==
  ASSUME RaftInv, NEW n \in Node, Restart(n)
  PROVE  RaftInv'
PROOF
<1>1. TypeOK /\ CallsAPeer /\ VotesRemembered /\ VoteOnce /\ CommittedIsApplied
  BY DEF RaftInv
<1>2. /\ life'        = [life EXCEPT ![n] = @ + 1]
      /\ term'        = [term EXCEPT ![n] = 0]
      /\ votedFor'    = [votedFor EXCEPT ![n] = None]
      /\ log'         = [log EXCEPT ![n] = << >>]
      /\ role'        = [role EXCEPT ![n] = "follower"]
      /\ commitIndex' = [commitIndex EXCEPT ![n] = 0]
      /\ lastApplied' = [lastApplied EXCEPT ![n] = 0]
      /\ campaign'    = [campaign EXCEPT ![n] = IdleCampaign]
      /\ broadcast'   = [k \in Broadcasts |->
                           IF k \in Tasks(n) THEN IdleBroadcast ELSE broadcast[k]]
      /\ result'      = [c \in Cmd |-> IF Submit(c) \in Tasks(n) THEN "lost" ELSE result[c]]
      /\ UNCHANGED <<timeouts, granted>>
  BY DEF Restart
<1>3. net' \subseteq VoteMsg \cup AppendMsg \cup ReplyMsg
  <2>1. PICK refused \in SUBSET Requests(n) : net' = Disconnected(n, refused)
    BY DEF Restart
  <2> QED
    BY <1>1, <2>1, DisconnectedTyped
<1>4. << >> \in Seq(Entry) /\ Len(<< >>) = 0
  OBVIOUS
<1>5. IdleCampaign \in Campaign /\ IdleBroadcast \in Broadcast
      /\ IdleCampaign.peer = 0 /\ IdleBroadcast.peer = 0
  BY IdleTyped DEF IdleCampaign, IdleBroadcast
<1>6. TypeOK'
  <2>1. broadcast' \in [Broadcasts -> Broadcast]
    BY <1>1, <1>2, <1>5 DEF TypeOK
  <2>2. result' \in [Cmd -> {"none", "ok", "failed", "lost"}]
    BY <1>1, <1>2 DEF TypeOK
  <2>3. /\ term' \in [Node -> Nat] /\ votedFor' \in [Node -> Node \cup {None}]
        /\ role' \in [Node -> {"follower", "candidate", "leader"}]
        /\ life' \in [Node -> Nat]
    BY <1>1, <1>2 DEF TypeOK
  <2>4. /\ log' \in [Node -> Seq(Entry)] /\ campaign' \in [Node -> Campaign]
        /\ commitIndex' \in [Node -> Nat] /\ lastApplied' \in [Node -> Nat]
    BY <1>1, <1>2, <1>4, <1>5 DEF TypeOK
  <2>5. timeouts' \in Nat /\ granted' \subseteq Node \X Nat \X Node \X Nat
    BY <1>1, <1>2 DEF TypeOK
  <2> QED
    BY <1>3, <2>1, <2>2, <2>3, <2>4, <2>5 DEF TypeOK
<1>7. CallsAPeer'
  <2>1. \A x \in Node : campaign'[x].peer \in 0 .. Len(Peers[x])
    BY <1>1, <1>2, <1>5, PeersNotEmpty DEF CallsAPeer, TypeOK
  <2>2. \A k \in Broadcasts : broadcast'[k] \in {broadcast[k], IdleBroadcast}
    BY <1>2
  <2> QED
    BY <1>1, <1>5, <2>1, <2>2 DEF CallsAPeer
\* The votes of the life that ends are votes of an older life now.
<1>8. VotesRemembered'
  <2>1. SUFFICES ASSUME NEW g \in granted
                 PROVE  /\ g[4] <= life'[g[1]]
                        /\ g[4] = life'[g[1]] =>
                             /\ g[2] <= term'[g[1]]
                             /\ g[2] = term'[g[1]] => votedFor'[g[1]] = g[3]
    BY <1>2 DEF VotesRemembered
  <2>2. /\ g[1] \in Node /\ g[4] \in Nat /\ life[g[1]] \in Nat /\ g[4] <= life[g[1]]
        /\ g[4] = life[g[1]] =>
             g[2] <= term[g[1]] /\ (g[2] = term[g[1]] => votedFor[g[1]] = g[3])
    BY <1>1, <2>1 DEF TypeOK, VotesRemembered
  <2>3. CASE g[1] = n
    <3>1. life'[g[1]] = life[g[1]] + 1
      BY <1>1, <1>2, <2>3 DEF TypeOK
    <3> QED
      BY <2>2, <3>1
  <2>4. CASE g[1] # n
    BY <1>1, <1>2, <2>2, <2>4 DEF TypeOK
  <2> QED
    BY <2>3, <2>4
<1>9. VoteOnce'
  BY <1>1, <1>2 DEF VoteOnce
<1>10. CommittedIsApplied'
  BY <1>1, <1>2, <1>4 DEF CommittedIsApplied, TypeOK
<1> QED
  BY <1>6, <1>7, <1>8, <1>9, <1>10 DEF RaftInv

-----------------------------------------------------------------------------

\* The inductive invariant holds in every reachable state.
THEOREM RaftInvariant == Spec => []RaftInv
PROOF
<1>1. Init => RaftInv
  <2>1. SUFFICES ASSUME Init PROVE RaftInv
    OBVIOUS
  <2>2. << >> \in Seq(Entry) /\ Len(<< >>) = 0
    OBVIOUS
  <2>3. TypeOK
    BY <2>1, <2>2, IdleTyped DEF Init, TypeOK
  <2>4. CallsAPeer
    BY <2>1, PeersNotEmpty DEF Init, CallsAPeer, IdleCampaign, IdleBroadcast
  <2>5. VotesRemembered /\ VoteOnce /\ CommittedIsApplied
    BY <2>1, <2>2 DEF Init, VotesRemembered, VoteOnce, CommittedIsApplied
  <2> QED
    BY <2>3, <2>4, <2>5 DEF RaftInv
<1>2. RaftInv /\ [Next]_vars => RaftInv'
  <2>1. SUFFICES ASSUME RaftInv, [Next]_vars PROVE RaftInv'
    OBVIOUS
  <2>2. ASSUME NEW n \in Node, StartElection(n) \/ VoteReturns(n) \/ VoteTimesOut(n), UNCHANGED life
        PROVE  RaftInv'
    BY <2>1, <2>2, StartElectionStep, ElectionCallEnds
  <2>3. ASSUME NEW n \in Node, StartHeartbeat(n), UNCHANGED life PROVE RaftInv'
    BY <2>1, <2>3, HeartbeatStep
  <2>4. ASSUME NEW n \in Node, NEW c \in Cmd, StartSubmit(n, c), UNCHANGED life
        PROVE  RaftInv'
    BY <2>1, <2>4, SubmitStep
  <2>5. ASSUME NEW k \in Broadcasts, AppendReturns(k) \/ AppendTimesOut(k), UNCHANGED life
        PROVE  RaftInv'
    BY <2>1, <2>5, AppendCallEnds
  <2>6. ASSUME NEW m \in net,
               HandleRequestVote(m) \/ RejectStale(m) \/ RejectMismatch(m) \/ AcceptEntries(m),
               UNCHANGED life
        PROVE  RaftInv'
    BY <2>1, <2>6, HandleRequestVoteStep, RejectStaleStep, RejectMismatchStep,
       AcceptEntriesStep
  <2>7. CASE UNCHANGED vars
    BY <2>1, <2>7
       DEF vars, logVars, taskVars, RaftInv, TypeOK, CallsAPeer, VotesRemembered, VoteOnce,
           CommittedIsApplied
  <2>8. ASSUME NEW n \in Node, Restart(n) PROVE RaftInv'
    BY <2>1, <2>8, RestartStep
  <2> QED
    BY <2>1, <2>2, <2>3, <2>4, <2>5, <2>6, <2>7, <2>8 DEF Next, Run
<1> QED
  BY <1>1, <1>2, PTL DEF Spec

\* Every variable keeps its type.
THEOREM TypeCorrect == Spec => []TypeOK
BY RaftInvariant, PTL DEF RaftInv

\* A node votes for one candidate per term as long as its process lives, with
\* any number of late requests and of restarts elsewhere.
THEOREM OneVotePerTerm == Spec => []VoteOnce
BY RaftInvariant, PTL DEF RaftInv

\* Commits stay inside the log and are applied at once.
THEOREM CommitsInsideLog == Spec => []CommittedIsApplied
BY RaftInvariant, PTL DEF RaftInv

-----------------------------------------------------------------------------

\* Terms only grow, and a vote is taken back only in a newer term, until the
\* process restarts.
THEOREM VotesNeverChange == Spec => VotesStand
PROOF
<1> DEFINE Stand == \A n \in Node : life'[n] = life[n] =>
                      /\ term'[n] >= term[n]
                      /\ votedFor'[n] # votedFor[n] /\ votedFor[n] # None => term'[n] > term[n]
<1>1. RaftInv /\ [Next]_vars => [Stand]_vars
  <2>1. SUFFICES ASSUME RaftInv, Next PROVE Stand
    OBVIOUS
  <2>2. /\ term \in [Node -> Nat] /\ votedFor \in [Node -> Node \cup {None}]
        /\ net \subseteq VoteMsg \cup AppendMsg \cup ReplyMsg /\ life \in [Node -> Nat]
    BY <2>1 DEF RaftInv, TypeOK
  <2>3. CASE UNCHANGED <<term, votedFor>>
    BY <2>2, <2>3
  <2>4. ASSUME NEW n \in Node, StartElection(n) PROVE Stand
    <3>1. term' = [term EXCEPT ![n] = @ + 1] /\ votedFor' = [votedFor EXCEPT ![n] = n]
      BY <2>4 DEF StartElection
    <3> QED
      BY <2>2, <3>1
  <2>5. ASSUME NEW m \in net, HandleRequestVote(m) PROVE Stand
    <3>1. m.to \in Node /\ m.term \in Nat
      BY <2>2, <2>5 DEF HandleRequestVote, VoteMsg, AppendMsg, ReplyMsg
    <3>2. CASE m.term > term[m.to]
      <4>1. \E v : /\ term' = [term EXCEPT ![m.to] = m.term]
                   /\ votedFor' = [votedFor EXCEPT ![m.to] = v]
        BY <2>5, <3>2 DEF HandleRequestVote, IsNewer
      <4> QED
        BY <2>2, <3>1, <3>2, <4>1
    <3>3. CASE ~(m.term > term[m.to])
      <4>1. /\ term' = [term EXCEPT ![m.to] = term[m.to]]
            /\ \/ votedFor' = [votedFor EXCEPT ![m.to] = votedFor[m.to]]
               \/ /\ votedFor' = [votedFor EXCEPT ![m.to] = m.cand]
                  /\ votedFor[m.to] \in {None, m.cand}
        BY <2>5, <3>3 DEF HandleRequestVote, IsNewer, FreeToVote
      <4> QED
        BY <2>2, <3>1, <4>1
    <3> QED
      BY <3>2, <3>3
  <2>6. ASSUME NEW m \in net, FollowSender(m) PROVE Stand
    <3>1. m.to \in Node /\ m.term \in Nat
      BY <2>2, <2>6 DEF FollowSender, VoteMsg, AppendMsg, ReplyMsg
    <3>2. /\ m.term >= term[m.to] /\ term' = [term EXCEPT ![m.to] = m.term]
          /\ UNCHANGED votedFor
      BY <2>6 DEF FollowSender
    <3> QED
      BY <2>2, <3>1, <3>2
  <2>7. ASSUME NEW n \in Node, VoteReturns(n) \/ VoteTimesOut(n)
        PROVE  UNCHANGED <<term, votedFor>>
    BY <2>7 DEF VoteReturns, VoteTimesOut, NextVoter
  <2>8. ASSUME NEW k \in Broadcasts, AppendReturns(k) \/ AppendTimesOut(k)
        PROVE  UNCHANGED <<term, votedFor>>
    BY <2>8 DEF AppendReturns, AppendTimesOut, NextFollower
  <2>9. ASSUME NEW n \in Node, StartHeartbeat(n) \/ \E c \in Cmd : StartSubmit(n, c)
        PROVE  UNCHANGED <<term, votedFor>>
    BY <2>9 DEF StartHeartbeat, StartSubmit
  <2>10. ASSUME NEW m \in net, RejectStale(m) PROVE UNCHANGED <<term, votedFor>>
    BY <2>10 DEF RejectStale
  <2>11. ASSUME NEW m \in net, RejectMismatch(m) \/ AcceptEntries(m) PROVE FollowSender(m)
    BY <2>11 DEF RejectMismatch, AcceptEntries
  <2>12. ASSUME NEW n \in Node, Restart(n) PROVE Stand
    <3>1. /\ life' = [life EXCEPT ![n] = @ + 1] /\ term' = [term EXCEPT ![n] = 0]
          /\ votedFor' = [votedFor EXCEPT ![n] = None]
      BY <2>12 DEF Restart
    <3>2. life'[n] # life[n]
      BY <2>2, <3>1
    <3> QED
      BY <2>2, <3>1, <3>2
  <2> HIDE DEF Stand
  <2> QED
    BY <2>1, <2>3, <2>4, <2>5, <2>6, <2>7, <2>8, <2>9, <2>10, <2>11, <2>12 DEF Next, Run
<1> QED
  BY <1>1, RaftInvariant, PTL DEF Spec, VotesStand

\* No log entry is rewritten and no commit index moves back, whatever leaders
\* of whatever terms send: what a node applied it never unapplies, until its
\* process restarts.
THEOREM HistoryNeverChanges == Spec => HistoryStands
PROOF
<1> DEFINE Stand == \A n \in Node : life'[n] = life[n] =>
                      /\ Len(log'[n]) >= Len(log[n])
                      /\ \A i \in 1 .. Len(log[n]) : log'[n][i] = log[n][i]
                      /\ commitIndex'[n] >= commitIndex[n]
<1>1. RaftInv /\ [Next]_vars => [Stand]_vars
  <2>1. SUFFICES ASSUME RaftInv, Next PROVE Stand
    OBVIOUS
  <2>2. /\ log \in [Node -> Seq(Entry)] /\ commitIndex \in [Node -> Nat] /\ term \in [Node -> Nat]
        /\ net \subseteq VoteMsg \cup AppendMsg \cup ReplyMsg
        /\ \A n \in Node : Len(log[n]) \in Nat /\ commitIndex[n] <= Len(log[n])
        /\ life \in [Node -> Nat]
    BY <2>1 DEF RaftInv, TypeOK, CommittedIsApplied
  <2>3. CASE UNCHANGED <<log, commitIndex>>
    BY <2>2, <2>3
  <2>4. ASSUME NEW n \in Node, NEW c \in Cmd, StartSubmit(n, c) PROVE Stand
    <3> DEFINE entry == [term |-> term[n], cmd |-> c]
    <3>1. log' = [log EXCEPT ![n] = Append(@, entry)] /\ UNCHANGED commitIndex
      BY <2>4 DEF StartSubmit
    <3>2. entry \in Entry
      BY <2>2 DEF Entry
    <3> HIDE DEF entry
    <3>3. /\ Len(Append(log[n], entry)) >= Len(log[n])
          /\ \A i \in 1 .. Len(log[n]) : Append(log[n], entry)[i] = log[n][i]
      BY <2>2, <3>2
    <3> QED
      BY <2>2, <3>1, <3>3
  <2>5. ASSUME NEW m \in net, AcceptEntries(m) PROVE Stand
    <3> DEFINE longer == Extended(log[m.to], m)
               commit == NewCommit(commitIndex[m.to], m.commit, Len(longer))
    <3>1. m.to \in Node /\ m.commit \in Nat /\ m.entries \in Seq(Entry)
      BY <2>2, <2>5 DEF AcceptEntries, FollowSender, VoteMsg, AppendMsg, ReplyMsg
    <3>2. /\ log' = [log EXCEPT ![m.to] = longer]
          /\ commitIndex' = [commitIndex EXCEPT ![m.to] = commit]
      BY <2>5 DEF AcceptEntries
    <3>3. /\ Len(longer) \in Nat /\ Len(longer) >= Len(log[m.to])
          /\ \A i \in 1 .. Len(log[m.to]) : longer[i] = log[m.to][i]
      BY <2>2, <3>1, AppendedEntries DEF Extended
    <3>4. commit >= commitIndex[m.to]
      <4> HIDE DEF longer
      <4> QED
        BY <2>2, <3>1, <3>3 DEF NewCommit
    <3> HIDE DEF longer, commit
    <3> QED
      BY <2>2, <3>1, <3>2, <3>3, <3>4
  <2>6. ASSUME NEW k \in Broadcasts, broadcast[k].peer # 0,
               NEW ok, NEW msgs, NextFollower(k, ok, msgs)
        PROVE  Stand
    <3>1. UNCHANGED log
      BY <2>6 DEF NextFollower
    <3>2. broadcast[k].node \in Node
      BY <2>1, <2>6 DEF RaftInv, CallsAPeer
    <3>3. UNCHANGED commitIndex \/ CommitAll(broadcast[k].node)
      BY <2>6 DEF NextFollower, FinishSubmit
    <3>4. CASE CommitAll(broadcast[k].node)
      <4>1. commitIndex' = [commitIndex EXCEPT
                              ![broadcast[k].node] = Len(log[broadcast[k].node])]
        BY <3>4 DEF CommitAll
      <4> QED
        BY <2>2, <3>1, <3>2, <4>1
    <3> QED
      BY <2>3, <3>1, <3>3, <3>4
  <2>7. ASSUME NEW k \in Broadcasts, AppendReturns(k) \/ AppendTimesOut(k) PROVE Stand
    BY <2>6, <2>7 DEF AppendReturns, AppendTimesOut
  <2>8. ASSUME NEW n \in Node,
               StartElection(n) \/ VoteReturns(n) \/ VoteTimesOut(n) \/ StartHeartbeat(n)
        PROVE  UNCHANGED <<log, commitIndex>>
    BY <2>8 DEF StartElection, VoteReturns, VoteTimesOut, NextVoter, StartHeartbeat, logVars
  <2>9. ASSUME NEW m \in net, HandleRequestVote(m) \/ RejectStale(m) \/ RejectMismatch(m)
        PROVE  UNCHANGED <<log, commitIndex>>
    BY <2>9 DEF HandleRequestVote, RejectStale, RejectMismatch, logVars
  <2>10. ASSUME NEW n \in Node, Restart(n) PROVE Stand
    <3>1. /\ life' = [life EXCEPT ![n] = @ + 1] /\ log' = [log EXCEPT ![n] = << >>]
          /\ commitIndex' = [commitIndex EXCEPT ![n] = 0]
      BY <2>10 DEF Restart
    <3>2. life'[n] # life[n]
      BY <2>2, <3>1
    <3> QED
      BY <2>2, <3>1, <3>2
  <2> HIDE DEF Stand
  <2> QED
    BY <2>1, <2>3, <2>4, <2>5, <2>7, <2>8, <2>9, <2>10 DEF Next, Run
<1> QED
  BY <1>1, RaftInvariant, PTL DEF Spec, HistoryStands

-----------------------------------------------------------------------------
(***************************************************************************)
(* Elections, with messages that get lost and nodes that restart.  A       *)
(* campaign counts replies that do not say whose they are, so the proof    *)
(* follows the single message that each campaign waits for.                *)
(***************************************************************************)

\* v has voted for n at some time.
Backs(v, n) == \E g \in granted : g[1] = v /\ g[3] = n

Called(n) == Peers[n][campaign[n].peer]

\* A running campaign waits for one message at most: its request, or the reply
\* of the peer it calls, and a peer that says yes has voted for it.
Awaited(n, m) ==
  /\ campaign[n].peer # 0
  /\ \A x \in net : x.task = Election(n) => x = m
  /\ \/ m.type = "vote" /\ m.cand = n /\ m.to = Called(n)
     \/ m.type = "reply" /\ (m.ok => Backs(Called(n), n))

OneCall == \A n \in Node : \A m \in net : m.task = Election(n) => Awaited(n, m)

\* The votes counted so far: the node itself and the peers in S.
Counted(n, S) ==
  /\ S \subseteq 1 .. campaign[n].peer - 1
  /\ campaign[n].votes = Cardinality(S) + 1
  /\ \A i \in S : Backs(Peers[n][i], n)

CountIsBacked ==
  \A n \in Node : campaign[n].peer # 0 => Backs(n, n) /\ \E S : Counted(n, S)

\* Nobody campaigns in term 0.
Dated(msgs) == \A m \in msgs : m.type = "vote" => m.term >= 1

TermsBegin ==
  /\ Dated(net)
  /\ \A n \in Node : campaign[n].peer # 0 => term[n] >= 1
  /\ \A g \in granted : g[2] >= 1

ElectInv == OneCall /\ CountIsBacked /\ TermsBegin /\ ElectedByMajority

-----------------------------------------------------------------------------
(***************************************************************************)
(* Counting.                                                               *)
(***************************************************************************)

\* Different indices of a peer list are different peers.
LEMMA PeersCount ==
  ASSUME NEW n \in Node, NEW S \in SUBSET (1 .. Len(Peers[n]))
  PROVE  LET T == {Peers[n][i] : i \in S}
         IN  /\ IsFiniteSet(S) /\ Cardinality(S) \in Nat
             /\ IsFiniteSet({n} \cup T) /\ {n} \cup T \subseteq Node
             /\ Cardinality({n} \cup T) = Cardinality(S) + 1
PROOF
<1> DEFINE T == {Peers[n][i] : i \in S}
           f == [i \in S |-> Peers[n][i]]
<1>1. /\ Len(Peers[n]) \in Nat
      /\ \A i, j \in 1 .. Len(Peers[n]) : Peers[n][i] = Peers[n][j] => i = j
      /\ \A i \in 1 .. Len(Peers[n]) : Peers[n][i] \in Node /\ Peers[n][i] # n
  BY PeersAreTheOthers, PeersNotEmpty
<1>2. IsFiniteSet(S) /\ Cardinality(S) \in Nat
  <2>1. IsFiniteSet(1 .. Len(Peers[n]))
    BY <1>1, FS_Interval
  <2> QED
    BY <2>1, FS_Subset, FS_CardinalityType
<1>3. f \in Bijection(S, T)
  <2>1. f \in [S -> T]
    OBVIOUS
  <2>2. \A i, j \in S : f[i] = f[j] => i = j
    BY <1>1
  <2>3. \A t \in T : \E i \in S : f[i] = t
    OBVIOUS
  <2> QED
    BY <2>1, <2>2, <2>3 DEF Bijection, Injection, Surjection, IsInjective
<1>4. IsFiniteSet(T) /\ Cardinality(T) = Cardinality(S)
  <2>1. ExistsBijection(S, T)
    BY <1>3 DEF ExistsBijection
  <2> HIDE DEF T
  <2> QED
    BY <1>2, <2>1, FS_Bijection
<1>5. n \notin T /\ T \subseteq Node
  BY <1>1
<1>6. IsFiniteSet(T \cup {n}) /\ Cardinality(T \cup {n}) = Cardinality(T) + 1
  <2> HIDE DEF T
  <2> QED
    BY <1>4, <1>5, FS_AddElement
<1>7. {n} \cup T = T \cup {n}
  OBVIOUS
<1> HIDE DEF T
<1> QED
  BY <1>2, <1>4, <1>5, <1>6, <1>7 DEF T

\* The cluster is a node and its peers.
LEMMA ClusterSize ==
  ASSUME NEW n \in Node
  PROVE  IsFiniteSet(Node) /\ Cardinality(Node) = Len(Peers[n]) + 1
PROOF
<1>1. Len(Peers[n]) \in Nat /\ {Peers[n][i] : i \in 1 .. Len(Peers[n])} = Node \ {n}
  BY PeersAreTheOthers, PeersNotEmpty
<1>2. {n} \cup {Peers[n][i] : i \in 1 .. Len(Peers[n])} = Node
  BY <1>1
<1>3. Cardinality(1 .. Len(Peers[n])) = Len(Peers[n])
  BY <1>1, FS_Interval
<1> QED
  BY <1>2, <1>3, PeersCount

\* More votes than half of the cluster come from a majority.
LEMMA VotesMakeQuorum ==
  ASSUME NEW n \in Node, NEW S \in SUBSET (1 .. Len(Peers[n])),
         IsMajority(n, Cardinality(S) + 1)
  PROVE  {n} \cup {Peers[n][i] : i \in S} \in Quorum
PROOF
<1>1. /\ Cardinality(S) \in Nat
      /\ {n} \cup {Peers[n][i] : i \in S} \subseteq Node
      /\ Cardinality({n} \cup {Peers[n][i] : i \in S}) = Cardinality(S) + 1
  BY PeersCount
<1>2. Cardinality(Node) = Len(Peers[n]) + 1 /\ Len(Peers[n]) \in Nat
  BY ClusterSize, PeersNotEmpty
<1>3. (Cardinality(S) + 1) * 2 > Len(Peers[n]) + 1
  <2>1. \A k, l \in Nat : k > l \div 2 => k * 2 > l
    OBVIOUS
  <2>2. Cardinality(S) + 1 > (Len(Peers[n]) + 1) \div 2
    BY DEF IsMajority
  <2>3. Cardinality(S) + 1 \in Nat /\ Len(Peers[n]) + 1 \in Nat
    BY <1>1, <1>2
  <2> QED
    BY <2>1, <2>2, <2>3
<1> QED
  BY <1>1, <1>2, <1>3 DEF Quorum

\* Two majorities share a node.
LEMMA QuorumsMeet ==
  ASSUME NEW n \in Node, NEW Q1 \in Quorum, NEW Q2 \in Quorum
  PROVE  \E v \in Node : v \in Q1 /\ v \in Q2
PROOF
<1>1. /\ IsFiniteSet(Node) /\ Q1 \subseteq Node /\ Q2 \subseteq Node
      /\ Cardinality(Q1) * 2 > Cardinality(Node) /\ Cardinality(Q2) * 2 > Cardinality(Node)
  BY ClusterSize DEF Quorum
<1>2. Cardinality(Q1) \in Nat /\ Cardinality(Q2) \in Nat /\ Cardinality(Node) \in Nat
  BY <1>1, FS_Subset, FS_CardinalityType
<1>3. Cardinality(Q1) + Cardinality(Q2) > Cardinality(Node)
  BY <1>1, <1>2
<1>4. Q1 \cap Q2 # {}
  BY <1>1, <1>3, FS_MajoritiesIntersect
<1> QED
  BY <1>1, <1>4

-----------------------------------------------------------------------------
(***************************************************************************)
(* Messages.                                                               *)
(***************************************************************************)

\* Tasks have different names.
LEMMA TaskNames ==
  ASSUME NEW n \in Node, NEW x \in Node
  PROVE  /\ Election(n) = Election(x) => n = x
         /\ Election(n) # NoTask
         /\ Election(n) \notin Broadcasts
BY DEF Election, NoTask, Broadcasts, Heartbeat, Submit

\* A request that nobody waits for any more is otherwise the same.
LEMMA OrphanedCall ==
  ASSUME NEW x \in VoteMsg \cup AppendMsg \cup ReplyMsg, x.type # "reply"
  PROVE  LET m == [x EXCEPT !.task = NoTask]
         IN  m.task = NoTask /\ m.type = x.type /\ (x.type = "vote" => m.term = x.term)
PROOF
<1>1. CASE x \in VoteMsg
  BY <1>1 DEF VoteMsg
<1>2. CASE x \in AppendMsg
  BY <1>2 DEF AppendMsg
<1>3. x \notin ReplyMsg
  BY DEF ReplyMsg
<1> QED
  BY <1>1, <1>2, <1>3

\* What a task gives up on is nobody's, and no younger than it was.
LEMMA AbandonedCalls ==
  ASSUME NEW msgs, msgs \subseteq VoteMsg \cup AppendMsg \cup ReplyMsg, NEW k
  PROVE  /\ Dated(msgs) => Dated(Abandoned(msgs, k))
         /\ \A m \in Abandoned(msgs, k) : m.task # NoTask => m \in msgs /\ m.task # k
PROOF
<1>1. ASSUME NEW x \in msgs, x.type # "reply"
      PROVE  LET m == [x EXCEPT !.task = NoTask]
             IN  m.task = NoTask /\ m.type = x.type /\ (x.type = "vote" => m.term = x.term)
  BY <1>1, OrphanedCall
<1>2. ASSUME NEW m \in Abandoned(msgs, k)
      PROVE  \/ m \in msgs /\ m.task # k
             \/ \E x \in msgs : x.type # "reply" /\ m = [x EXCEPT !.task = NoTask]
  BY DEF Abandoned
<1>3. ASSUME Dated(msgs), NEW m \in Abandoned(msgs, k), m.type = "vote" PROVE m.term >= 1
  <2>1. CASE m \in msgs
    BY <1>3, <2>1 DEF Dated
  <2>2. CASE \E x \in msgs : x.type # "reply" /\ m = [x EXCEPT !.task = NoTask]
    <3>1. PICK x \in msgs : x.type # "reply" /\ m = [x EXCEPT !.task = NoTask]
      BY <2>2
    <3>2. m.type = x.type /\ (x.type = "vote" => m.term = x.term)
      BY <1>1, <3>1
    <3> QED
      BY <1>3, <3>2 DEF Dated
  <2> QED
    BY <1>2, <2>1, <2>2
<1>4. ASSUME NEW m \in Abandoned(msgs, k), m.task # NoTask PROVE m \in msgs /\ m.task # k
  BY <1>1, <1>2, <1>4
<1> QED
  BY <1>3, <1>4 DEF Dated

\* Steps that start no campaign and answer none, and that keep all votes.
LEMMA OtherMessages ==
  ASSUME OneCall, UNCHANGED campaign, granted \subseteq granted',
         \A m \in net' : m \in net \/ \A n \in Node : m.task # Election(n)
  PROVE  OneCall'
PROOF
<1>1. SUFFICES ASSUME NEW n \in Node, NEW m \in net', m.task = Election(n)
               PROVE  Awaited(n, m)'
  BY DEF OneCall
<1>2. m \in net /\ Awaited(n, m)
  BY <1>1 DEF OneCall
<1>3. \A x \in net' : x.task = Election(n) => x = m
  BY <1>2 DEF Awaited
<1> QED
  BY <1>2, <1>3 DEF Awaited, Called, Backs

\* What holds of campaigns goes on holding while they stand still.
LEMMA CountStands ==
  ASSUME CountIsBacked, ElectedByMajority, UNCHANGED campaign, granted \subseteq granted',
         \A n \in Node : role'[n] = "leader" => role[n] = "leader"
  PROVE  CountIsBacked' /\ ElectedByMajority'
PROOF
<1>1. ASSUME NEW v, NEW n, Backs(v, n) PROVE Backs(v, n)'
  BY <1>1 DEF Backs
<1>2. CountIsBacked'
  BY <1>1 DEF CountIsBacked, Counted
<1>3. ElectedByMajority'
  BY DEF ElectedByMajority, Quorum
<1> QED
  BY <1>2, <1>3

OthersStand(n) ==
  \A m \in net', x \in Node : m.task = Election(x) /\ x # n => m \in net

\* What n waits for in campaign state cp is a request to the peer it calls.
Calls(n, cp) ==
  \A m \in net' : m.task = Election(n) =>
    /\ cp.peer # 0 /\ m.type = "vote" /\ m.cand = n /\ m.to = Peers[n][cp.peer]
    /\ \A y \in net' : y.task = Election(n) => y = m

\* Node n starts to wait for another call, or for none.
LEMMA NewCall ==
  ASSUME OneCall, TypeOK, NEW n \in Node, NEW cp, campaign' = [campaign EXCEPT ![n] = cp],
         granted \subseteq granted', OthersStand(n), Calls(n, cp)
  PROVE  OneCall'
PROOF
<1>1. SUFFICES ASSUME NEW x \in Node, NEW m \in net', m.task = Election(x)
               PROVE  Awaited(x, m)'
  BY DEF OneCall
<1>2. CASE x = n
  <2>1. campaign'[n] = cp
    BY DEF TypeOK
  <2> QED
    BY <1>1, <1>2, <2>1 DEF Awaited, Called, Calls
<1>3. CASE x # n
  <2>1. campaign'[x] = campaign[x]
    BY <1>3 DEF TypeOK
  <2>2. m \in net /\ Awaited(x, m)
    BY <1>1, <1>3 DEF OneCall, OthersStand
  <2>3. \A y \in net' : y.task = Election(x) => y = m
    BY <1>3, <2>2 DEF Awaited, OthersStand
  <2> QED
    BY <2>1, <2>2, <2>3 DEF Awaited, Called, Backs
<1> QED
  BY <1>2, <1>3

\* The count of n goes on with the votes of S, or ends.
LEMMA NewCount ==
  ASSUME CountIsBacked, TypeOK, NEW n \in Node, NEW cp, NEW S,
         campaign' = [campaign EXCEPT ![n] = cp], granted \subseteq granted',
         cp.peer # 0 => Backs(n, n)' /\ Counted(n, S)'
  PROVE  CountIsBacked'
PROOF
<1>1. SUFFICES ASSUME NEW x \in Node, campaign'[x].peer # 0
               PROVE  Backs(x, x)' /\ \E T : Counted(x, T)'
  BY DEF CountIsBacked
<1>2. CASE x = n
  BY <1>1, <1>2 DEF TypeOK
<1>3. CASE x # n
  <2>1. campaign'[x] = campaign[x]
    BY <1>3 DEF TypeOK
  <2>2. PICK T : Counted(x, T) /\ Backs(x, x)
    BY <1>1, <2>1 DEF CountIsBacked
  <2>3. \A v : Backs(v, x) => Backs(v, x)'
    BY DEF Backs
  <2>4. Counted(x, T)'
    BY <2>1, <2>2, <2>3 DEF Counted
  <2> QED
    BY <2>2, <2>3, <2>4
<1> QED
  BY <1>2, <1>3

-----------------------------------------------------------------------------
(***************************************************************************)
(* The steps.                                                              *)
(***************************************************************************)

\* A campaign begins with the vote of the node itself.
LEMMA StartElectionElects ==
  ASSUME RaftInv, ElectInv, NEW n \in Node, StartElection(n)
  PROVE  ElectInv'
PROOF
<1>1. TypeOK /\ OneCall /\ CountIsBacked /\ TermsBegin /\ ElectedByMajority
  BY DEF RaftInv, ElectInv
<1> PICK cp : cp = [peer |-> 1, votes |-> 1,
                    lastIdx |-> Len(log[n]), lastTerm |-> LastTerm(log[n])]
  OBVIOUS
<1> PICK req : req = VoteRequest(n, 1, term[n] + 1, cp)
  OBVIOUS
<1>2. /\ campaign[n].peer = 0
      /\ campaign' = [campaign EXCEPT ![n] = cp]
      /\ net' = net \cup {req}
      /\ role' = [role EXCEPT ![n] = "candidate"]
      /\ term' = [term EXCEPT ![n] = @ + 1]
      /\ granted' = granted \cup {<<n, term[n] + 1, n, life[n]>>}
  BY DEF StartElection
<1>3. term[n] \in Nat
  BY <1>1 DEF TypeOK
<1>4. /\ req.task = Election(n) /\ req.type = "vote" /\ req.cand = n
      /\ req.to = Peers[n][1] /\ req.term = term[n] + 1
  BY DEF VoteRequest
<1>5. cp.peer = 1 /\ cp.votes = 1
  OBVIOUS
<1>6. Backs(n, n)'
  <2>1. <<n, term[n] + 1, n, life[n]>> \in granted'
    BY <1>2
  <2> QED
    BY <2>1 DEF Backs
<1>7. OneCall'
  <2>1. \A m \in net : m.task # Election(n)
    BY <1>1, <1>2 DEF OneCall, Awaited
  <2>2. OthersStand(n)
    BY <1>2, <1>4, TaskNames DEF OthersStand
  <2>3. \A m \in net' : m.task = Election(n) => m = req
    BY <1>2, <2>1
  <2>4. Calls(n, cp)
    BY <1>4, <1>5, <2>3 DEF Calls
  <2>5. granted \subseteq granted'
    BY <1>2
  <2> QED
    BY <1>1, <1>2, <2>2, <2>4, <2>5, NewCall
<1>8. CountIsBacked'
  <2>1. campaign'[n] = cp
    BY <1>1, <1>2 DEF TypeOK
  <2>2. Counted(n, {})'
    BY <1>5, <2>1, FS_EmptySet DEF Counted
  <2> QED
    BY <1>1, <1>2, <1>6, <2>2, NewCount
<1>9. TermsBegin'
  <2>1. Dated(net')
    BY <1>1, <1>2, <1>3, <1>4 DEF TermsBegin, Dated
  <2>2. \A x \in Node : campaign'[x].peer # 0 => term'[x] >= 1
    BY <1>1, <1>2, <1>3 DEF TermsBegin, TypeOK
  <2>3. \A g \in granted' : g[2] >= 1
    BY <1>1, <1>2, <1>3 DEF TermsBegin
  <2> QED
    BY <2>1, <2>2, <2>3 DEF TermsBegin
<1>10. ElectedByMajority'
  <2>1. \A x \in Node : role'[x] = "leader" => role[x] = "leader"
    BY <1>1, <1>2 DEF TypeOK
  <2> QED
    BY <1>1, <1>2, <2>1 DEF ElectedByMajority, Quorum
<1> QED
  BY <1>7, <1>8, <1>9, <1>10 DEF ElectInv

\* The peer called has answered, or has not; the count goes on or is over.
LEMMA NextVoterElects ==
  ASSUME RaftInv, ElectInv, NEW n \in Node, campaign[n].peer # 0,
         NEW ok \in BOOLEAN, ok => Backs(Called(n), n),
         NEW msgs, msgs \subseteq VoteMsg \cup AppendMsg \cup ReplyMsg, Dated(msgs),
         \A m \in msgs : m.task = NoTask \/ (m \in net /\ m.task # Election(n)),
         NextVoter(n, ok, msgs)
  PROVE  ElectInv'
PROOF
<1> PICK p : p = campaign[n].peer
  OBVIOUS
<1> PICK votes : votes = campaign[n].votes + (IF ok THEN 1 ELSE 0)
  OBVIOUS
<1>1. /\ TypeOK /\ CallsAPeer
      /\ OneCall /\ CountIsBacked /\ TermsBegin /\ ElectedByMajority
  BY DEF RaftInv, ElectInv
<1>2. UNCHANGED <<term, granted>>
  BY DEF NextVoter
<1>3. p \in 1 .. Len(Peers[n]) /\ Len(Peers[n]) \in Nat /\ campaign[n] \in Campaign
  BY <1>1, PeersNotEmpty DEF CallsAPeer, TypeOK
<1>4. PICK S : Counted(n, S)
  BY <1>1 DEF CountIsBacked
<1> PICK T : T = IF ok THEN S \cup {p} ELSE S
  OBVIOUS
<1>5. /\ T \subseteq 1 .. p /\ T \in SUBSET (1 .. Len(Peers[n]))
      /\ votes = Cardinality(T) + 1
      /\ \A i \in T : Backs(Peers[n][i], n)
  <2>1. S \subseteq 1 .. p - 1 /\ S \in SUBSET (1 .. Len(Peers[n])) /\ p \notin S
    BY <1>3, <1>4 DEF Counted
  <2>2. IsFiniteSet(S) /\ Cardinality(S) \in Nat
    BY <2>1, PeersCount
  <2>3. Cardinality(S \cup {p}) = Cardinality(S) + 1
    BY <2>1, <2>2, FS_AddElement
  <2>4. campaign[n].votes = Cardinality(S) + 1 /\ \A i \in S : Backs(Peers[n][i], n)
    BY <1>4 DEF Counted
  <2>5. ok => Backs(Peers[n][p], n)
    BY DEF Called
  <2>6. CASE ok
    <3>1. T = S \cup {p}
      BY <2>6
    <3>2. T \subseteq 1 .. p /\ T \in SUBSET (1 .. Len(Peers[n]))
      <4>1. p \in Nat /\ p >= 1 /\ p \in 1 .. Len(Peers[n])
        BY <1>3
      <4>2. 1 .. p - 1 \subseteq 1 .. p /\ p \in 1 .. p
        BY <4>1
      <4> QED
        BY <2>1, <3>1, <4>1, <4>2, Zenon
    <3>3. votes = Cardinality(T) + 1
      BY <2>2, <2>3, <2>4, <2>6, <3>1
    <3>4. \A i \in T : Backs(Peers[n][i], n)
      BY <2>4, <2>5, <2>6, <3>1
    <3> QED
      BY <3>2, <3>3, <3>4
  <2>7. CASE ~ok
    BY <1>3, <2>1, <2>2, <2>4, <2>7
  <2> QED
    BY <2>6, <2>7
<1>6. Backs(n, n)
  BY <1>1 DEF CountIsBacked
<1>7. CASE p < Len(Peers[n])
  <2> PICK cp : cp = [campaign[n] EXCEPT !.peer = p + 1, !.votes = votes]
    OBVIOUS
  <2> PICK req : req = VoteRequest(n, p + 1, term[n], campaign[n])
    OBVIOUS
  <2>1. /\ campaign' = [campaign EXCEPT ![n].peer = @ + 1, ![n].votes = votes]
        /\ net' = msgs \cup {req}
        /\ UNCHANGED role
    BY <1>7, Zenon DEF NextVoter
  <2>2. campaign' = [campaign EXCEPT ![n] = cp] /\ campaign'[n] = cp
    BY <1>1, <2>1 DEF TypeOK
  <2>3. cp.peer = p + 1 /\ cp.votes = votes
    BY <1>3 DEF Campaign
  <2>4. /\ req.task = Election(n) /\ req.type = "vote" /\ req.cand = n
        /\ req.to = Peers[n][p + 1] /\ req.term = term[n]
    BY DEF VoteRequest
  <2>5. OneCall'
    <3>1. \A m \in net' : m.task = Election(n) => m = req
      BY <2>1, TaskNames
    <3>2. OthersStand(n)
      BY <2>1, <2>4, TaskNames DEF OthersStand
    <3>3. cp.peer # 0
      BY <1>3, <2>3
    <3>4. Calls(n, cp)
      BY <2>3, <2>4, <3>1, <3>3 DEF Calls
    <3> QED
      BY <1>1, <1>2, <2>2, <3>2, <3>4, NewCall
  <2>6. CountIsBacked'
    <3>1. T \subseteq 1 .. cp.peer - 1
      BY <1>3, <1>5, <2>3
    <3>2. Counted(n, T)'
      <4>1. \A i \in T : Backs(Peers[n][i], n)'
        BY <1>2, <1>5 DEF Backs
      <4> QED
        BY <1>5, <2>2, <2>3, <3>1, <4>1 DEF Counted
    <3>3. Backs(n, n)'
      BY <1>2, <1>6 DEF Backs
    <3> QED
      BY <1>1, <1>2, <2>2, <3>2, <3>3, NewCount
  <2>7. TermsBegin'
    <3>1. term[n] >= 1
      BY <1>1 DEF TermsBegin
    <3>2. Dated(net')
      BY <2>1, <2>4, <3>1 DEF Dated
    <3> QED
      BY <1>1, <1>2, <2>2, <3>1, <3>2 DEF TermsBegin, TypeOK
  <2>8. ElectedByMajority'
    BY <1>1, <1>2, <2>1 DEF ElectedByMajority, Quorum
  <2> QED
    BY <2>5, <2>6, <2>7, <2>8 DEF ElectInv
<1>8. CASE ~(p < Len(Peers[n]))
  <2>1. FinishElection(n, votes, msgs)
    BY <1>8 DEF NextVoter
  <2>2. campaign' = [campaign EXCEPT ![n] = IdleCampaign] /\ IdleCampaign.peer = 0
    BY <2>1 DEF FinishElection, IdleCampaign
  <2>3. net' = msgs \/ net' = Abandoned(msgs, Heartbeat(n))
    BY <2>1 DEF FinishElection
  <2>4. /\ Dated(net')
        /\ \A m \in net' : m.task # NoTask => m \in net /\ m.task # Election(n)
    BY <2>3, AbandonedCalls
  <2>5. OneCall'
    <3>1. Calls(n, IdleCampaign)
      BY <2>4, TaskNames DEF Calls
    <3>2. OthersStand(n)
      BY <2>4, TaskNames DEF OthersStand
    <3> QED
      BY <1>1, <1>2, <2>2, <3>1, <3>2, NewCall
  <2>6. CountIsBacked'
    BY <1>1, <1>2, <2>2, NewCount
  <2>7. TermsBegin'
    BY <1>1, <1>2, <2>2, <2>4 DEF TermsBegin, TypeOK
  <2>8. ElectedByMajority'
    <3>1. SUFFICES ASSUME NEW x \in Node, role'[x] = "leader"
                   PROVE  \E Q \in Quorum : \A v \in Q : Backs(v, x)
      BY <1>2 DEF ElectedByMajority, Backs, Quorum
    <3>2. CASE role[x] = "leader"
      BY <1>1, <3>2 DEF ElectedByMajority, Backs
    <3>3. CASE role[x] # "leader"
      <4>1. x = n /\ IsMajority(n, votes)
        BY <1>1, <2>1, <3>1, <3>3 DEF FinishElection, TypeOK
      <4>2. {n} \cup {Peers[n][i] : i \in T} \in Quorum
        BY <1>5, <4>1, VotesMakeQuorum
      <4> QED
        BY <1>5, <1>6, <4>1, <4>2
    <3> QED
      BY <3>2, <3>3
  <2> QED
    BY <2>5, <2>6, <2>7, <2>8 DEF ElectInv
<1> QED
  BY <1>7, <1>8

\* A call of n has returned or timed out.
LEMMA ElectionCallElects ==
  ASSUME RaftInv, ElectInv, NEW n \in Node, VoteReturns(n) \/ VoteTimesOut(n)
  PROVE  ElectInv'
PROOF
<1>1. TypeOK /\ OneCall /\ TermsBegin
  BY DEF RaftInv, ElectInv
<1>2. net \subseteq VoteMsg \cup AppendMsg \cup ReplyMsg /\ Dated(net)
  BY <1>1 DEF TypeOK, TermsBegin
<1>3. CASE VoteReturns(n)
  <2>1. PICK m \in net : /\ campaign[n].peer # 0
                         /\ m.type = "reply" /\ m.task = Election(n)
                         /\ NextVoter(n, m.ok, net \ {m})
    BY <1>3 DEF VoteReturns
  <2>2. Awaited(n, m)
    BY <1>1, <2>1 DEF OneCall
  <2>3. m.ok \in BOOLEAN
    BY <1>2, <2>1 DEF VoteMsg, AppendMsg, ReplyMsg
  <2>4. m.ok => Backs(Called(n), n)
    BY <2>1, <2>2 DEF Awaited
  <2>5. \A y \in net \ {m} : y \in net /\ y.task # Election(n)
    BY <2>2 DEF Awaited
  <2>6. Dated(net \ {m}) /\ net \ {m} \subseteq VoteMsg \cup AppendMsg \cup ReplyMsg
    BY <1>2 DEF Dated
  <2> QED
    BY <2>1, <2>3, <2>4, <2>5, <2>6, NextVoterElects
<1>4. CASE VoteTimesOut(n)
  <2> PICK msgs : msgs = Abandoned(net, Election(n))
    OBVIOUS
  <2>1. campaign[n].peer # 0 /\ NextVoter(n, FALSE, msgs)
    BY <1>4 DEF VoteTimesOut
  <2>2. \A y \in msgs : y.task = NoTask \/ (y \in net /\ y.task # Election(n))
    BY <1>2, AbandonedCalls
  <2>3. Dated(msgs) /\ msgs \subseteq VoteMsg \cup AppendMsg \cup ReplyMsg
    BY <1>2, AbandonedCalls, AbandonedTyped
  <2> QED
    BY <2>1, <2>2, <2>3, NextVoterElects
<1> QED
  BY <1>3, <1>4

\* A voter that says yes has voted for the candidate that asked.
LEMMA HandleRequestVoteElects ==
  ASSUME RaftInv, ElectInv, NEW m \in net, HandleRequestVote(m)
  PROVE  ElectInv'
PROOF
<1>1. TypeOK /\ OneCall /\ CountIsBacked /\ TermsBegin /\ ElectedByMajority
  BY DEF RaftInv, ElectInv
<1> PICK n : n = m.to
  OBVIOUS
<1> PICK myTerm : myTerm = IF IsNewer(m) THEN m.term ELSE term[n]
  OBVIOUS
<1>2. PICK ok \in BOOLEAN :
        /\ ok => m.term >= myTerm
        /\ net' = Answered(m, ok)
        /\ granted' = IF ok THEN granted \cup {<<n, myTerm, m.cand, life[n]>>} ELSE granted
  BY DEF HandleRequestVote
<1>3. /\ m.type = "vote"
      /\ term' = [term EXCEPT ![n] = myTerm]
      /\ role' = [role EXCEPT ![n] = IF IsNewer(m) THEN "follower" ELSE @]
      /\ UNCHANGED campaign
  BY DEF HandleRequestVote, taskVars
<1>4. m \in VoteMsg
  BY <1>1, <1>3 DEF TypeOK, AppendMsg, ReplyMsg
<1>5. n \in Node /\ m.term \in Nat /\ term[n] \in Nat
  BY <1>1, <1>4 DEF VoteMsg, TypeOK
<1>6. m.term >= 1
  BY <1>1, <1>3 DEF TermsBegin, Dated
<1>7. myTerm >= term[n] /\ (ok => myTerm >= 1)
  BY <1>2, <1>5, <1>6 DEF IsNewer
<1>8. granted \subseteq granted'
  BY <1>2
<1>9. OneCall'
  <2>1. SUFFICES ASSUME NEW x \in Node, NEW y \in net', y.task = Election(x)
                 PROVE  Awaited(x, y)'
    BY DEF OneCall
  <2>2. \A z \in net' :
          (z \in net /\ z # m) \/ (m.task # NoTask /\ z = Reply(m.task, ok))
    BY <1>2 DEF Answered
  <2>3. Called(x)' = Called(x) /\ (campaign'[x].peer # 0 <=> campaign[x].peer # 0)
    BY <1>3 DEF Called
  <2>4. CASE y \in net /\ y # m
    <3>1. Awaited(x, y)
      BY <1>1, <2>1, <2>4 DEF OneCall
    <3>2. m.task # Election(x)
      BY <2>4, <3>1 DEF Awaited
    <3>3. \A z \in net' : z.task = Election(x) => z = y
      BY <2>2, <3>1, <3>2 DEF Awaited, Reply
    <3> QED
      BY <1>8, <2>3, <3>1, <3>3 DEF Awaited, Backs
  <2>5. CASE y = Reply(m.task, ok)
    <3>1. y.task = m.task /\ y.type = "reply" /\ y.ok = ok
      BY <2>5 DEF Reply
    <3>2. Awaited(x, m)
      BY <1>1, <2>1, <3>1 DEF OneCall
    <3>3. m.cand = x /\ m.to = Called(x)
      BY <1>3, <3>2 DEF Awaited
    <3>4. \A z \in net' : z.task = Election(x) => z = y
      BY <2>2, <2>5, <3>2 DEF Awaited
    <3>5. ok => Backs(Called(x), x)'
      <4>1. ok => <<n, myTerm, m.cand, life[n]>> \in granted'
        BY <1>2
      <4> QED
        BY <2>3, <3>3, <4>1 DEF Backs
    <3> QED
      BY <2>3, <3>1, <3>2, <3>4, <3>5 DEF Awaited
  <2> QED
    BY <2>1, <2>2, <2>4, <2>5
<1>10. \A x \in Node : role'[x] = "leader" => role[x] = "leader"
  BY <1>1, <1>3 DEF TypeOK
<1>11. CountIsBacked' /\ ElectedByMajority'
  BY <1>1, <1>3, <1>8, <1>10, CountStands
<1>12. TermsBegin'
  <2>1. Dated(net')
    BY <1>1, <1>2 DEF TermsBegin, Dated, Answered, Reply
  <2>2. \A x \in Node : campaign'[x].peer # 0 => term'[x] >= 1
    BY <1>1, <1>3, <1>5, <1>7 DEF TermsBegin, TypeOK
  <2>3. \A g \in granted' : g[2] >= 1
    <3>1. \A g \in granted : g[2] >= 1
      BY <1>1 DEF TermsBegin
    <3>2. \A g \in granted' : g \in granted \/ (ok /\ g[2] = myTerm)
      BY <1>2
    <3> QED
      BY <1>7, <3>1, <3>2
  <2> QED
    BY <2>1, <2>2, <2>3 DEF TermsBegin
<1> QED
  BY <1>9, <1>11, <1>12 DEF ElectInv

-----------------------------------------------------------------------------
(***************************************************************************)
(* Steps that no campaign notices.                                         *)
(***************************************************************************)

NoElections(msgs) == \A m \in msgs : m \in net \/ \A n \in Node : m.task # Election(n)

NoNewLeader == \A n \in Node : role'[n] = "leader" => role[n] = "leader"

TermsGrow == \A n \in Node : term'[n] >= term[n]

\* What starts no election call and makes no leader keeps the invariant.
LEMMA QuietStep ==
  ASSUME RaftInv, RaftInv', ElectInv, UNCHANGED <<campaign, granted>>,
         NoElections(net'), Dated(net'), NoNewLeader, TermsGrow
  PROVE  ElectInv'
PROOF
<1>1. TypeOK /\ OneCall /\ CountIsBacked /\ TermsBegin /\ ElectedByMajority
  BY DEF RaftInv, ElectInv
<1>2. granted \subseteq granted'
  OBVIOUS
<1>3. OneCall'
  BY <1>1, <1>2, OtherMessages DEF NoElections
<1>4. CountIsBacked' /\ ElectedByMajority'
  BY <1>1, <1>2, CountStands DEF NoNewLeader
<1>5. TermsBegin'
  <2>1. term \in [Node -> Nat] /\ term' \in [Node -> Nat]
    BY DEF RaftInv, TypeOK
  <2> QED
    BY <1>1, <2>1 DEF TermsBegin, TermsGrow
<1> QED
  BY <1>3, <1>4, <1>5 DEF ElectInv

\* A request to append belongs to a broadcast.
LEMMA AppendRequestIs ==
  ASSUME NEW k, NEW i, NEW b
  PROVE  AppendRequest(k, i, b).task = k /\ AppendRequest(k, i, b).type = "append"
BY DEF AppendRequest

\* A leader starts to call its peers.
LEMMA BroadcastStartElects ==
  ASSUME RaftInv, RaftInv', ElectInv, NEW n \in Node,
         StartHeartbeat(n) \/ \E c \in Cmd : StartSubmit(n, c)
  PROVE  ElectInv'
PROOF
<1>1. UNCHANGED <<campaign, granted, role, term>>
  BY DEF StartHeartbeat, StartSubmit
<1>2. \E k \in Broadcasts : \E b : net' = net \cup {AppendRequest(k, 1, b)}
  BY DEF StartHeartbeat, StartSubmit, Broadcasts
<1>3. NoElections(net') /\ Dated(net')
  <2>1. Dated(net)
    BY DEF ElectInv, TermsBegin
  <2> QED
    BY <1>2, <2>1, AppendRequestIs, TaskNames DEF NoElections, Dated
<1>4. NoNewLeader /\ TermsGrow
  BY <1>1 DEF NoNewLeader, TermsGrow, RaftInv, TypeOK
<1> QED
  BY <1>1, <1>3, <1>4, QuietStep

\* A call of a broadcast has returned or timed out.
LEMMA AppendCallElects ==
  ASSUME RaftInv, RaftInv', ElectInv, NEW k \in Broadcasts,
         AppendReturns(k) \/ AppendTimesOut(k)
  PROVE  ElectInv'
PROOF
<1>1. UNCHANGED <<campaign, granted, role, term>>
  BY DEF AppendReturns, AppendTimesOut, NextFollower
<1>2. PICK msgs : /\ msgs \subseteq net \/ msgs = Abandoned(net, k)
                  /\ \/ net' = msgs
                     \/ \E i, b : net' = msgs \cup {AppendRequest(k, i, b)}
  BY DEF AppendReturns, AppendTimesOut, NextFollower
<1>3. net \subseteq VoteMsg \cup AppendMsg \cup ReplyMsg /\ Dated(net)
  BY DEF RaftInv, TypeOK, ElectInv, TermsBegin
<1>4. NoElections(msgs) /\ Dated(msgs)
  <2>1. CASE msgs \subseteq net
    BY <1>3, <2>1 DEF NoElections, Dated
  <2>2. CASE msgs = Abandoned(net, k)
    BY <1>3, <2>2, AbandonedCalls, TaskNames DEF NoElections
  <2> QED
    BY <1>2, <2>1, <2>2
<1>5. NoElections(net') /\ Dated(net')
  BY <1>2, <1>4, AppendRequestIs, TaskNames DEF NoElections, Dated
<1>6. NoNewLeader /\ TermsGrow
  BY <1>1 DEF NoNewLeader, TermsGrow, RaftInv, TypeOK
<1> QED
  BY <1>1, <1>5, <1>6, QuietStep

\* A request to append is answered.
LEMMA HandleAppendElects ==
  ASSUME RaftInv, RaftInv', ElectInv, NEW m \in net,
         RejectStale(m) \/ RejectMismatch(m) \/ AcceptEntries(m)
  PROVE  ElectInv'
PROOF
<1>1. TypeOK /\ m.type = "append"
  BY DEF RaftInv, RejectStale, RejectMismatch, AcceptEntries, FollowSender
<1>2. m \in AppendMsg
  BY <1>1 DEF TypeOK, VoteMsg, ReplyMsg
<1>3. UNCHANGED <<campaign, granted>>
  BY DEF RejectStale, RejectMismatch, AcceptEntries, FollowSender, taskVars
<1>4. NoNewLeader /\ TermsGrow
  <2>1. CASE RejectStale(m)
    BY <1>1, <2>1 DEF RejectStale, NoNewLeader, TermsGrow, TypeOK
  <2>2. CASE FollowSender(m)
    <3>1. m.to \in Node /\ m.term \in Nat
      BY <1>2 DEF AppendMsg
    <3> QED
      BY <1>1, <2>2, <3>1 DEF FollowSender, NoNewLeader, TermsGrow, TypeOK
  <2> QED
    BY <2>1, <2>2 DEF RejectMismatch, AcceptEntries
<1>5. PICK ok : net' = Answered(m, ok)
  BY DEF RejectStale, RejectMismatch, AcceptEntries
<1>6. \A y \in net' : y \in net \/ (y.type = "reply" /\ y.task = m.task)
  BY <1>5 DEF Answered, Reply
<1>7. Dated(net)
  BY DEF ElectInv, TermsBegin
<1>8. \A n \in Node : m.task # Election(n)
  BY <1>2, TaskNames DEF AppendMsg
<1>9. NoElections(net') /\ Dated(net')
  BY <1>6, <1>7, <1>8 DEF NoElections, Dated
<1> QED
  BY <1>3, <1>4, <1>9, QuietStep

-----------------------------------------------------------------------------
(***************************************************************************)
(* A restart: the node calls nobody any more and refuses some requests.    *)
(***************************************************************************)

\* y is a call of x that n did not touch, or the failure of a call of x to n.
KeptOrFailed(y, x, n, refused) ==
  \/ y \in net /\ y \notin refused /\ x # n
  \/ \E m \in refused : m.task = Election(x) /\ y = Reply(Election(x), FALSE)

\* What is left of the election calls when n restarts.
LEMMA DisconnectedCalls ==
  ASSUME TypeOK, NEW n \in Node, NEW refused \in SUBSET Requests(n), NEW x \in Node
  PROVE  \A y \in Disconnected(n, refused) :
           y.task = Election(x) => KeptOrFailed(y, x, n, refused)
PROOF
<1> TAKE y \in Disconnected(n, refused)
<1> HAVE y.task = Election(x)
<1> DEFINE others  == {m \in net \ refused : m.task \notin Tasks(n)}
           orphans == {[m EXCEPT !.task = NoTask] :
                         m \in {z \in net \ refused : z.task \in Tasks(n) /\ z.type # "reply"}}
           failed  == {Reply(m.task, FALSE) : m \in {z \in refused : z.task # NoTask}}
<1>1. y \in others \/ y \in orphans \/ y \in failed
  BY DEF Disconnected
<1>2. CASE y \in others
  BY <1>2 DEF Tasks, KeptOrFailed
<1>3. CASE y \in orphans
  <2>1. PICK m \in net : m.type # "reply" /\ y = [m EXCEPT !.task = NoTask]
    BY <1>3
  <2>2. y.task = NoTask
    BY <2>1, OrphanedCall DEF TypeOK
  <2> QED
    BY <2>2, TaskNames
<1>4. CASE y \in failed
  BY <1>4 DEF Reply, KeptOrFailed
<1> QED
  BY <1>1, <1>2, <1>3, <1>4

\* A restart makes no request of term 0.
LEMMA DisconnectedDated ==
  ASSUME TypeOK, NEW n \in Node, NEW refused \in SUBSET Requests(n), Dated(net)
  PROVE  Dated(Disconnected(n, refused))
PROOF
<1>1. SUFFICES ASSUME NEW y \in Disconnected(n, refused), y.type = "vote"
               PROVE  y.term >= 1
  BY DEF Dated
<1>2. \/ y \in net
      \/ \E m \in net : m.type # "reply" /\ y = [m EXCEPT !.task = NoTask]
      \/ \E m \in refused : y = Reply(m.task, FALSE)
  BY DEF Disconnected
<1>3. CASE y \in net
  BY <1>1, <1>3 DEF Dated
<1>4. CASE \E m \in net : m.type # "reply" /\ y = [m EXCEPT !.task = NoTask]
  <2>1. PICK m \in net : m.type # "reply" /\ y = [m EXCEPT !.task = NoTask]
    BY <1>4
  <2>2. y.type = m.type /\ (m.type = "vote" => y.term = m.term)
    BY <2>1, OrphanedCall DEF TypeOK
  <2> QED
    BY <1>1, <2>2 DEF Dated
<1>5. CASE \E m \in refused : y = Reply(m.task, FALSE)
  BY <1>1, <1>5 DEF Reply
<1> QED
  BY <1>2, <1>3, <1>4, <1>5

\* A restarted node neither campaigns nor leads; the votes it gave count on.
LEMMA RestartElects ==
  ASSUME RaftInv, ElectInv, NEW n \in Node, Restart(n)
  PROVE  ElectInv'
PROOF
<1>1. /\ TypeOK /\ CallsAPeer
      /\ OneCall /\ CountIsBacked /\ TermsBegin /\ ElectedByMajority
  BY DEF RaftInv, ElectInv
<1>2. /\ term'     = [term EXCEPT ![n] = 0]
      /\ role'     = [role EXCEPT ![n] = "follower"]
      /\ campaign' = [campaign EXCEPT ![n] = IdleCampaign]
      /\ UNCHANGED granted
  BY DEF Restart
<1>3. PICK refused \in SUBSET Requests(n) : net' = Disconnected(n, refused)
  BY DEF Restart
<1>4. IdleCampaign.peer = 0
  BY DEF IdleCampaign
<1>5. OneCall'
  <2>1. SUFFICES ASSUME NEW x \in Node, NEW y \in net', y.task = Election(x)
                 PROVE  Awaited(x, y)'
    BY DEF OneCall
  <2>2. \A z \in net' : z.task = Election(x) => KeptOrFailed(z, x, n, refused)
    BY <1>1, <1>3, DisconnectedCalls
  <2>3. CASE y \in net /\ y \notin refused /\ x # n
    <3>1. Awaited(x, y)
      BY <1>1, <2>1, <2>3 DEF OneCall
    <3>2. \A m \in refused : m.task # Election(x)
      BY <2>3, <3>1 DEF Awaited, Requests
    <3>3. \A z \in net' : z.task = Election(x) => z = y
      BY <2>2, <3>1, <3>2 DEF Awaited, KeptOrFailed
    <3>4. campaign'[x] = campaign[x]
      BY <1>1, <1>2, <2>3 DEF TypeOK
    <3> QED
      BY <1>2, <3>1, <3>3, <3>4 DEF Awaited, Called, Backs
  <2>4. CASE \E m \in refused : m.task = Election(x) /\ y = Reply(Election(x), FALSE)
    <3>1. PICK m \in refused : m.task = Election(x) /\ y = Reply(Election(x), FALSE)
      BY <2>4
    <3>2. m \in net /\ m.type # "reply" /\ m.to = n
      BY DEF Requests
    <3>3. Awaited(x, m)
      BY <1>1, <3>1, <3>2 DEF OneCall
    <3>4. n = Called(x) /\ campaign[x].peer # 0
      BY <3>2, <3>3 DEF Awaited
    <3>5. x # n
      <4>1. campaign[x].peer \in 1 .. Len(Peers[x])
        BY <1>1, <3>4, PeersNotEmpty DEF CallsAPeer
      <4>2. Peers[x][campaign[x].peer] # x
        BY <4>1, PeersAreTheOthers
      <4> QED
        BY <3>4, <4>2 DEF Called
    <3>6. campaign'[x] = campaign[x]
      BY <1>1, <1>2, <3>5 DEF TypeOK
    <3>7. \A z \in net' : z.task = Election(x) => z = y
      BY <2>2, <3>1, <3>2, <3>3 DEF Awaited, KeptOrFailed
    <3>8. y.type = "reply" /\ y.ok = FALSE
      BY <3>1 DEF Reply
    <3> QED
      BY <3>4, <3>6, <3>7, <3>8 DEF Awaited
  <2> QED
    BY <2>1, <2>2, <2>3, <2>4 DEF KeptOrFailed
<1>6. CountIsBacked'
  BY <1>1, <1>2, <1>4, NewCount
<1>7. TermsBegin'
  <2>1. Dated(net')
    BY <1>1, <1>3, DisconnectedDated DEF TermsBegin
  <2> QED
    BY <1>1, <1>2, <1>4, <2>1 DEF TermsBegin, TypeOK
<1>8. ElectedByMajority'
  <2>1. \A x \in Node : role'[x] = "leader" => role[x] = "leader"
    BY <1>1, <1>2 DEF TypeOK
  <2> QED
    BY <1>1, <1>2, <2>1 DEF ElectedByMajority, Quorum
<1> QED
  BY <1>5, <1>6, <1>7, <1>8 DEF ElectInv

-----------------------------------------------------------------------------

\* Every campaign waits for one call at most and counts votes that were given.
THEOREM ElectInvariant == Spec => []ElectInv
PROOF
<1>1. Init => ElectInv
  BY DEF Init, IdleCampaign, ElectInv, OneCall, CountIsBacked, TermsBegin, Dated,
         ElectedByMajority
<1>2. RaftInv /\ RaftInv' /\ ElectInv /\ [Next]_vars => ElectInv'
  <2> SUFFICES ASSUME RaftInv, RaftInv', ElectInv, [Next]_vars PROVE ElectInv'
    OBVIOUS
  <2>1. CASE UNCHANGED vars
    BY <2>1 DEF vars, taskVars, ElectInv, OneCall, Awaited, Called, Backs, CountIsBacked,
                Counted, TermsBegin, Dated, ElectedByMajority, Quorum
  <2>2. CASE Next
    BY <2>2, StartElectionElects, ElectionCallElects, HandleRequestVoteElects,
       BroadcastStartElects, AppendCallElects, HandleAppendElects, RestartElects
       DEF Next, Run
  <2> QED
    BY <2>1, <2>2
<1> QED
  BY <1>1, <1>2, RaftInvariant, PTL DEF Spec

\* Whoever leads was voted for by a majority of the nodes, in whatever terms.
THEOREM LeadersAreElected == Spec => []ElectedByMajority
PROOF
<1>1. ElectInv => ElectedByMajority
  BY DEF ElectInv
<1> QED
  BY <1>1, ElectInvariant, PTL

\* No two nodes lead in the first term, before any restart.
THEOREM FirstTermHasOneLeader == Spec => []OneLeader
PROOF
<1>1. RaftInv /\ ElectInv => OneLeader
  <2>1. SUFFICES ASSUME RaftInv, ElectInv, FirstTerm, NEW m \in Node, NEW n \in Node,
                        role[m] = "leader", role[n] = "leader"
                 PROVE  m = n
    BY DEF OneLeader, ElectionSafety
  <2>2. TypeOK /\ VotesRemembered /\ VoteOnce /\ TermsBegin /\ ElectedByMajority
    BY <2>1 DEF RaftInv, ElectInv
  <2>3. PICK Q1 \in Quorum : \A v \in Q1 : Backs(v, m)
    BY <2>1, <2>2 DEF ElectedByMajority, Backs
  <2>4. PICK Q2 \in Quorum : \A v \in Q2 : Backs(v, n)
    BY <2>1, <2>2 DEF ElectedByMajority, Backs
  <2>5. PICK v \in Node : v \in Q1 /\ v \in Q2
    BY QuorumsMeet
  <2>6. PICK g \in granted : g[1] = v /\ g[3] = m
    BY <2>3, <2>5 DEF Backs
  <2>7. PICK h \in granted : h[1] = v /\ h[3] = n
    BY <2>4, <2>5 DEF Backs
  <2>8. ASSUME NEW f \in granted, f[1] = v PROVE f[2] = 1 /\ f[4] = 0
    <3>1. f \in Node \X Nat \X Node \X Nat
      BY <2>2 DEF TypeOK
    <3>2. f[2] \in Nat /\ f[4] \in Nat
      BY <3>1
    <3>3. f[4] <= life[v] /\ (f[4] = life[v] => f[2] <= term[v])
      BY <2>2, <2>8 DEF VotesRemembered
    <3>4. life[v] = 0 /\ term[v] <= 1 /\ term[v] \in Nat
      BY <2>1, <2>2 DEF FirstTerm, TypeOK
    <3>5. f[2] >= 1
      BY <2>2 DEF TermsBegin
    <3> QED
      BY <3>2, <3>3, <3>4, <3>5
  <2> QED
    BY <2>2, <2>6, <2>7, <2>8 DEF VoteOnce
<1> QED
  BY <1>1, RaftInvariant, ElectInvariant, PTL

-----------------------------------------------------------------------------
(***************************************************************************)
(* The log of the first term: every entry is sent to a node once, by the   *)
(* one broadcast that carries it, and is taken at its place or not at all. *)
(* Hence followers hold prefixes of the leader's log, and the replication  *)
(* core implements CommandLog.                                             *)
(***************************************************************************)

Running(k) == broadcast[k].peer # 0

\* Before somebody leads there is nothing in the logs or on the way to them.
NothingYet ==
  Leaders = {} =>
    /\ \A n \in Node : log[n] = << >>
    /\ \A k \in Broadcasts : ~Running(k)
    /\ \A m \in net : m.type # "append"

Leading == \A n \in Node : role[n] = "leader" => term[n] >= 1 /\ campaign[n].peer = 0

\* x, a broadcast or a request, carries no entry or the one that comes next.
Piece(x, lg) ==
  x.entries # << >> => x.prevIdx < Len(lg) /\ x.entries = <<lg[x.prevIdx + 1]>>

Behind(n, lead) ==
  /\ Len(log[n]) <= Len(log[lead])
  /\ \A i \in 1 .. Len(log[n]) : log[n][i] = log[lead][i]
  /\ commitIndex[n] <= commitIndex[lead]

\* Requests are never sent to the leader, and are copied from its log.
Sent(m, lead) ==
  /\ m.to # lead
  /\ Piece(m, log[lead])
  /\ m.commit <= commitIndex[lead]

\* Message m takes the entry after i to n.
Brings(m, n, i) == m.type = "append" /\ m.to = n /\ m.entries # << >> /\ m.prevIdx = i

\* Nothing took the entry after i to n so far.
Unsent(n, i) == Len(log[n]) <= i /\ \A m \in net : ~Brings(m, n, i)

\* A task copies from the leader's log, and has not sent its entry to those it
\* will still call.
Sends(k, lead) ==
  LET b == broadcast[k]
  IN  /\ b.node = lead /\ Piece(b, log[lead])
      /\ b.entries # << >> =>
           \A j \in b.peer + 1 .. Len(Peers[lead]) : Unsent(Peers[lead][j], b.prevIdx)

\* No entry reaches a node twice.
SentOnce ==
  \A m \in net : m.type = "append" /\ m.entries # << >> =>
    /\ Len(log[m.to]) <= m.prevIdx
    /\ \A x \in net : Brings(x, m.to, m.prevIdx) => x = m

\* A submit carries its command, a heartbeat nothing.
Loaded ==
  /\ \A n \in Node : Running(Heartbeat(n)) => broadcast[Heartbeat(n)].entries = << >>
  /\ \A c \in Cmd : Running(Submit(c)) =>
       /\ result[c] = "none"
       /\ Len(broadcast[Submit(c)].entries) = 1 /\ broadcast[Submit(c)].entries[1].cmd = c

\* A command is in the leader's log once, and was submitted.
InOrder(lead) ==
  /\ \A i, j \in 1 .. Len(log[lead]) : log[lead][i].cmd = log[lead][j].cmd => i = j
  /\ \A c \in Cmd : ~Running(Submit(c)) /\ result[c] = "none" =>
       \A i \in 1 .. Len(log[lead]) : log[lead][i].cmd # c

Led(lead) ==
  /\ \A n \in Node : Behind(n, lead)
  /\ \A m \in net : m.type = "append" => Sent(m, lead)
  /\ \A k \in Broadcasts : Running(k) => Sends(k, lead)
  /\ InOrder(lead)

\* Node n has what broadcast b brings.
Took(n, b) == b.prevIdx + Len(b.entries) <= Len(log[n])

Asked(b) == Peers[b.node][b.peer]

\* A broadcast waits for one message at most, its request or the answer.
AwaitsCall(k, m) ==
  LET b == broadcast[k]
  IN  /\ Running(k)
      /\ \A x \in net : x.task = k => x = m
      /\ \/ /\ m.type = "append" /\ m.to = Asked(b)
            /\ m.prevIdx = b.prevIdx /\ m.entries = b.entries
         \/ m.type = "reply" /\ (m.ok => Took(Asked(b), b))

OneAppendCall == \A k \in Broadcasts : \A m \in net : m.task = k => AwaitsCall(k, m)

\* The acks counted so far are the node's own and those of the peers in S.
AckedBy(b, S) ==
  /\ S \subseteq 1 .. b.peer - 1
  /\ b.acks = Cardinality(S) + 1
  /\ \A i \in S : Took(Peers[b.node][i], b)

AcksAreTrue == \A k \in Broadcasts : Running(k) => \E S : AckedBy(broadcast[k], S)

LogInv ==
  /\ NothingYet /\ Leading /\ Loaded /\ SentOnce
  /\ OneAppendCall /\ AcksAreTrue
  /\ \A lead \in Leaders : Led(lead)

\* A step within the first term, with all that is known about its two states.
InFirstTerm ==
  /\ RaftInv /\ RaftInv' /\ ElectInv /\ LogInv
  /\ ElectionSafety /\ ElectionSafety' /\ FirstTerm /\ FirstTerm' /\ UNCHANGED life

-----------------------------------------------------------------------------
(***************************************************************************)
(* Names and messages.                                                     *)
(***************************************************************************)

\* The tasks that broadcast have different names.
LEMMA BroadcastNames ==
  /\ NoTask \notin Broadcasts
  /\ \A n \in Node : Heartbeat(n) \in Broadcasts /\ Heartbeat(n)[1] # "submit"
  /\ \A c \in Cmd : /\ Submit(c) \in Broadcasts
                    /\ Submit(c)[1] = "submit" /\ Submit(c)[2] = c
  /\ \A n, x \in Node : Heartbeat(n) = Heartbeat(x) => n = x
  /\ \A n \in Node, c \in Cmd : Heartbeat(n) # Submit(c)
  /\ \A c, d \in Cmd : Submit(c) = Submit(d) => c = d
BY DEF NoTask, Broadcasts, Heartbeat, Submit

\* What the messages under way are.
LEMMA Messages ==
  ASSUME TypeOK, NEW m \in net
  PROVE  /\ m.type = "append" => m \in AppendMsg
         /\ m.type = "vote" => m \in VoteMsg
         /\ m.type = "reply" => m \in ReplyMsg
         /\ m.type \in {"append", "vote", "reply"}
BY DEF TypeOK, AppendMsg, VoteMsg, ReplyMsg

\* The fields of an append request.
LEMMA AppendFields ==
  ASSUME TypeOK, NEW m \in net, m.type = "append"
  PROVE  /\ m.task \in Broadcasts \cup {NoTask} /\ m.to \in Node
         /\ m.prevIdx \in Nat /\ m.entries \in Seq(Entry) /\ m.commit \in Nat
BY Messages DEF AppendMsg

\* There is one leader, and it stays until the first term ends.
LEMMA LeaderIsOne ==
  ASSUME RaftInv, LogInv, ElectionSafety, FirstTerm, NEW m \in Leaders, NEW n \in Leaders
  PROVE  m = n
PROOF
<1>1. /\ m \in Node /\ n \in Node /\ role[m] = "leader" /\ role[n] = "leader"
      /\ term[m] >= 1 /\ term[n] >= 1
  BY DEF Leaders, LogInv, Leading
<1>2. term[m] <= 1 /\ term[n] <= 1 /\ term[m] \in Nat /\ term[n] \in Nat
  BY <1>1 DEF FirstTerm, RaftInv, TypeOK
<1> QED
  BY <1>1, <1>2 DEF ElectionSafety

-----------------------------------------------------------------------------
(***************************************************************************)
(* Steps that append nothing.                                              *)
(***************************************************************************)

NoNewAppends == \A m \in net' : m.type = "append" \/ m.task \in Broadcasts => m \in net

\* Such steps keep the invariant if they make no leader.
LEMMA QuietLog ==
  ASSUME LogInv, UNCHANGED <<log, commitIndex, broadcast, result>>,
         NoNewAppends, Leaders' = Leaders, Leading'
  PROVE  LogInv'
PROOF
<1>1. NothingYet' /\ Loaded'
  BY DEF LogInv, NothingYet, Loaded, Running, NoNewAppends
<1>2. SentOnce'
  BY DEF LogInv, SentOnce, Brings, NoNewAppends
<1>3. OneAppendCall' /\ AcksAreTrue'
  <2>1. ASSUME NEW k \in Broadcasts, NEW m \in net', m.task = k PROVE AwaitsCall(k, m)'
    <3>1. m \in net /\ AwaitsCall(k, m)
      BY <2>1 DEF LogInv, OneAppendCall, NoNewAppends
    <3> QED
      BY <2>1, <3>1 DEF AwaitsCall, Running, Took, Asked, NoNewAppends
  <2>2. AcksAreTrue'
    BY DEF LogInv, AcksAreTrue, AckedBy, Running, Took
  <2> QED
    BY <2>1, <2>2 DEF OneAppendCall
<1>4. ASSUME NEW lead \in Leaders PROVE Led(lead)'
  <2>1. Led(lead)
    BY DEF LogInv
  <2>2. ASSUME NEW m \in net', m.type = "append" PROVE Sent(m, lead)'
    <3>1. m \in net /\ Sent(m, lead)
      BY <2>1, <2>2 DEF Led, NoNewAppends
    <3> QED
      BY <3>1 DEF Sent, Piece
  <2>3. ASSUME NEW k \in Broadcasts, Running(k)' PROVE Sends(k, lead)'
    <3>1. Sends(k, lead)
      BY <2>1, <2>3 DEF Led, Running
    <3> QED
      BY <3>1 DEF Sends, Piece, Unsent, Brings, NoNewAppends
  <2>4. (\A n \in Node : Behind(n, lead)') /\ InOrder(lead)'
    BY <2>1 DEF Led, Behind, InOrder, Running
  <2> QED
    BY <2>2, <2>3, <2>4 DEF Led
<1> QED
  BY <1>1, <1>2, <1>3, <1>4 DEF LogInv

\* A campaign starts.
LEMMA StartElectionLogs ==
  ASSUME InFirstTerm, NEW n \in Node, StartElection(n)
  PROVE  LogInv' /\ Leaders' = Leaders
PROOF
<1>1. /\ role[n] # "leader" /\ role' = [role EXCEPT ![n] = "candidate"]
      /\ term' = [term EXCEPT ![n] = @ + 1]
      /\ \E cp : campaign' = [campaign EXCEPT ![n] = cp]
                 /\ net' = net \cup {VoteRequest(n, 1, term[n] + 1, cp)}
      /\ UNCHANGED <<log, commitIndex, broadcast, result>>
  BY DEF StartElection, logVars
<1>2. TypeOK /\ Leading
  BY DEF InFirstTerm, RaftInv, LogInv
<1>3. Leaders' = Leaders
  BY <1>1, <1>2 DEF Leaders, TypeOK
<1>4. Leading'
  BY <1>1, <1>2 DEF Leading, TypeOK
<1>5. NoNewAppends
  BY <1>1, TaskNames DEF NoNewAppends, VoteRequest
<1> QED
  BY <1>1, <1>3, <1>4, <1>5, QuietLog DEF InFirstTerm

\* A request for a vote is answered.
LEMMA HandleRequestVoteLogs ==
  ASSUME InFirstTerm, NEW m \in net, HandleRequestVote(m)
  PROVE  LogInv' /\ Leaders' = Leaders
PROOF
<1>1. TypeOK /\ Leading /\ FirstTerm' /\ m.type = "vote"
  BY DEF InFirstTerm, RaftInv, LogInv, HandleRequestVote
<1>2. m \in VoteMsg /\ m.to \in Node /\ m.term \in Nat
  BY <1>1, Messages DEF VoteMsg
<1>3. /\ term' = [term EXCEPT ![m.to] = IF IsNewer(m) THEN m.term ELSE term[m.to]]
      /\ role' = [role EXCEPT ![m.to] = IF IsNewer(m) THEN "follower" ELSE @]
      /\ \E ok : net' = Answered(m, ok)
      /\ UNCHANGED <<log, commitIndex, broadcast, result, campaign>>
  BY DEF HandleRequestVote, logVars, taskVars
<1>4. role[m.to] = "leader" => ~IsNewer(m)
  <2>1. SUFFICES ASSUME role[m.to] = "leader", IsNewer(m) PROVE FALSE
    OBVIOUS
  <2>2. term'[m.to] = m.term /\ term[m.to] \in Nat /\ term[m.to] >= 1 /\ m.term > term[m.to]
    BY <1>1, <1>2, <1>3, <2>1 DEF Leading, IsNewer, TypeOK
  <2> QED
    BY <1>1, <1>2, <2>2 DEF FirstTerm
<1>5. Leaders' = Leaders
  BY <1>1, <1>2, <1>3, <1>4 DEF Leaders, TypeOK
<1>6. Leading'
  BY <1>1, <1>2, <1>3, <1>4 DEF Leading, TypeOK
<1>7. NoNewAppends
  <2>1. m.task \notin Broadcasts
    BY <1>2, TaskNames, BroadcastNames DEF VoteMsg
  <2> QED
    BY <1>3, <2>1 DEF NoNewAppends, Answered, Reply
<1> QED
  BY <1>3, <1>5, <1>6, <1>7, QuietLog DEF InFirstTerm

\* The leader of the first term is new: it finds nothing in the logs.
LEMMA FirstLeads ==
  ASSUME InFirstTerm, NEW n \in Node, NEW msgs,
         UNCHANGED <<log, commitIndex, result, term>>,
         role' = [role EXCEPT ![n] = "leader"],
         campaign' = [campaign EXCEPT ![n] = IdleCampaign],
         broadcast' = [broadcast EXCEPT ![Heartbeat(n)] = IdleBroadcast],
         net' = Abandoned(msgs, Heartbeat(n)), campaign[n].peer # 0,
         \A m \in msgs : m.type = "append" \/ m.task \in Broadcasts => m \in net
  PROVE  /\ LogInv' /\ Leaders = {} /\ Leaders' = {n}
         /\ \A x \in Node : log[x] = << >>
PROOF
<1>1. /\ TypeOK /\ CallsAPeer /\ TermsBegin /\ Leading /\ NothingYet /\ OneAppendCall
      /\ CommittedIsApplied
  BY DEF InFirstTerm, RaftInv, ElectInv, LogInv
<1>2. role[n] # "leader" /\ term[n] >= 1
  BY <1>1 DEF Leading, TermsBegin
<1>3. Leaders' = Leaders \cup {n} /\ n \notin Leaders
  BY <1>1, <1>2 DEF Leaders, TypeOK
<1>4. Leaders = {}
  <2>1. SUFFICES ASSUME NEW x \in Leaders PROVE FALSE
    OBVIOUS
  <2>2. x \in Node /\ role'[x] = "leader" /\ role'[n] = "leader" /\ x # n
    BY <1>1, <1>2, <2>1 DEF Leaders, TypeOK
  <2>3. term'[x] >= 1 /\ term'[n] >= 1 /\ term'[x] \in Nat /\ term'[n] \in Nat
    BY <1>1, <1>2, <2>1 DEF Leaders, Leading, TypeOK
  <2>4. term'[x] <= 1 /\ term'[n] <= 1
    BY <2>2 DEF InFirstTerm, FirstTerm
  <2> QED
    BY <2>2, <2>3, <2>4 DEF InFirstTerm, ElectionSafety
<1>5. /\ \A x \in Node : log[x] = << >>
      /\ \A k \in Broadcasts : ~Running(k)
      /\ \A m \in net : m.type # "append" /\ m.task \notin Broadcasts
  BY <1>1, <1>4 DEF NothingYet, OneAppendCall, AwaitsCall
<1>6. \A k \in Broadcasts : ~Running(k)'
  BY <1>1, <1>5 DEF Running, IdleBroadcast, TypeOK
<1>7. \A m \in net' : m.type # "append" /\ m.task \notin Broadcasts
  <2>1. \A m \in msgs : m.task # Heartbeat(n)
    BY <1>5, BroadcastNames
  <2> QED
    BY <1>5, <2>1 DEF Abandoned
<1>8. NothingYet' /\ Loaded' /\ SentOnce' /\ OneAppendCall' /\ AcksAreTrue'
  BY <1>3, <1>6, <1>7, BroadcastNames
     DEF NothingYet, Loaded, SentOnce, OneAppendCall, AcksAreTrue
<1>9. Leading'
  BY <1>1, <1>2 DEF Leading, IdleCampaign, TypeOK
<1>10. Led(n)'
  <2>1. ASSUME NEW x \in Node PROVE Behind(x, n)'
    <3>1. log[x] = << >> /\ log[n] = << >> /\ commitIndex[x] = 0 /\ commitIndex[n] = 0
      BY <1>1, <1>5 DEF CommittedIsApplied, TypeOK
    <3> QED
      BY <3>1 DEF Behind
  <2>2. InOrder(n)'
    <3>1. log'[n] = << >>
      BY <1>5
    <3> QED
      BY <3>1 DEF InOrder
  <2> QED
    BY <1>6, <1>7, <2>1, <2>2 DEF Led
<1> QED
  BY <1>3, <1>4, <1>5, <1>8, <1>9, <1>10 DEF LogInv

\* The call of a campaign has ended.
LEMMA NextVoterLogs ==
  ASSUME InFirstTerm, NEW n \in Node, NEW voteGranted \in BOOLEAN, NEW msgs,
         NextVoter(n, voteGranted, msgs), campaign[n].peer # 0,
         \A m \in msgs : m.type = "append" \/ m.task \in Broadcasts => m \in net
  PROVE  /\ LogInv'
         /\ \/ Leaders' = Leaders
            \/ /\ Leaders = {} /\ Leaders' = {n} /\ UNCHANGED result
               /\ \A x \in Node : log[x] = << >>
PROOF
<1>1. TypeOK /\ Leading /\ n \notin Leaders
  BY DEF InFirstTerm, RaftInv, LogInv, Leading, Leaders
<1>2. UNCHANGED <<term, log, commitIndex, result>>
  BY DEF NextVoter, logVars
<1> PICK votes : votes = campaign[n].votes + (IF voteGranted THEN 1 ELSE 0)
  OBVIOUS
<1>3. CASE campaign[n].peer < Len(Peers[n])
  <2>1. /\ UNCHANGED <<role, broadcast>>
        /\ \E cp : campaign' = [campaign EXCEPT ![n] = cp]
        /\ \E i, t, cp : net' = msgs \cup {VoteRequest(n, i, t, cp)}
    BY <1>1, <1>3 DEF NextVoter, TypeOK
  <2>2. NoNewAppends
    BY <2>1, TaskNames DEF NoNewAppends, VoteRequest
  <2>3. Leaders' = Leaders /\ Leading'
    BY <1>1, <1>2, <2>1 DEF Leaders, Leading, TypeOK
  <2> QED
    BY <1>2, <2>1, <2>2, <2>3, QuietLog DEF InFirstTerm
<1>4. CASE ~(campaign[n].peer < Len(Peers[n]))
  <2>1. FinishElection(n, votes, msgs)
    BY <1>4 DEF NextVoter
  <2>2. campaign' = [campaign EXCEPT ![n] = IdleCampaign]
    BY <2>1 DEF FinishElection
  <2>3. CASE IsMajority(n, votes)
    <3>1. /\ role' = [role EXCEPT ![n] = "leader"]
          /\ broadcast' = [broadcast EXCEPT ![Heartbeat(n)] = IdleBroadcast]
          /\ net' = Abandoned(msgs, Heartbeat(n))
      BY <2>1, <2>3 DEF FinishElection
    <3> QED
      BY <1>2, <2>2, <3>1, FirstLeads
  <2>4. CASE ~IsMajority(n, votes)
    <3>1. net' = msgs /\ UNCHANGED <<role, broadcast>>
      BY <2>1, <2>4 DEF FinishElection
    <3>2. Leaders' = Leaders /\ Leading'
      BY <1>1, <1>2, <2>2, <3>1 DEF Leaders, Leading, TypeOK
    <3>3. NoNewAppends
      BY <3>1 DEF NoNewAppends
    <3> QED
      BY <1>2, <3>1, <3>2, <3>3, QuietLog DEF InFirstTerm
  <2> QED
    BY <2>3, <2>4
<1> QED
  BY <1>3, <1>4

\* A call of a campaign ends with a vote or without; nothing else is touched.
LEMMA CampaignCall ==
  ASSUME InFirstTerm, NEW n \in Node, VoteReturns(n) \/ VoteTimesOut(n)
  PROVE  \E voteGranted \in BOOLEAN : \E msgs :
           /\ campaign[n].peer # 0 /\ NextVoter(n, voteGranted, msgs)
           /\ \A m \in msgs : m.type = "append" \/ m.task \in Broadcasts => m \in net
PROOF
<1>1. TypeOK /\ net \subseteq VoteMsg \cup AppendMsg \cup ReplyMsg
  BY DEF InFirstTerm, RaftInv, TypeOK
<1>2. CASE VoteReturns(n)
  <2>1. PICK m \in net : /\ campaign[n].peer # 0 /\ m.type = "reply"
                         /\ NextVoter(n, m.ok, net \ {m})
    BY <1>2 DEF VoteReturns
  <2>2. m.ok \in BOOLEAN
    BY <1>1, <2>1, Messages DEF ReplyMsg
  <2>3. \A x \in net \ {m} : x.type = "append" \/ x.task \in Broadcasts => x \in net
    OBVIOUS
  <2> QED
    BY <2>1, <2>2, <2>3
<1>3. CASE VoteTimesOut(n)
  <2> DEFINE msgs == Abandoned(net, Election(n))
  <2>1. campaign[n].peer # 0 /\ NextVoter(n, FALSE, msgs)
    BY <1>3 DEF VoteTimesOut
  <2>2. ASSUME NEW m \in msgs, m.type = "append" \/ m.task \in Broadcasts PROVE m \in net
    <3>1. SUFFICES ASSUME NEW x \in net, x.task = Election(n), x.type # "reply",
                          m = [x EXCEPT !.task = NoTask]
                   PROVE  FALSE
      BY <2>2 DEF Abandoned
    <3>2. m.task = NoTask /\ m.type = x.type
      BY <1>1, <3>1, OrphanedCall
    <3>3. x \in AppendMsg
      BY <1>1, <2>2, <3>2, BroadcastNames, Messages
    <3>4. x.task \in Broadcasts \cup {NoTask}
      BY <3>3 DEF AppendMsg
    <3> QED
      BY <3>1, <3>4, TaskNames
  <2> HIDE DEF msgs
  <2> QED
    BY <2>1, <2>2
<1> QED
  BY <1>2, <1>3

\* A call of a campaign has returned or timed out.
LEMMA ElectionCallLogs ==
  ASSUME InFirstTerm, NEW n \in Node, VoteReturns(n) \/ VoteTimesOut(n)
  PROVE  /\ LogInv'
         /\ \/ Leaders' = Leaders
            \/ /\ Leaders = {} /\ Leaders' = {n} /\ UNCHANGED result
               /\ \A x \in Node : log[x] = << >>
BY CampaignCall, NextVoterLogs

-----------------------------------------------------------------------------
(***************************************************************************)
(* Broadcasts.                                                             *)
(***************************************************************************)

\* Two requests that differ at most in who waits for them.
SameRequest(m, x) ==
  /\ x.type = "append" /\ m.type = "append"
  /\ m.to = x.to /\ m.prevIdx = x.prevIdx /\ m.entries = x.entries /\ m.commit = x.commit
  /\ m # x => m = [x EXCEPT !.task = NoTask]

\* What is under way when a call of k has ended: nothing of k, requests that
\* were there before or have lost their task, and answers to others.
Ended(msgs, k) ==
  /\ \A m \in msgs : m.task # k /\ (m.task \in Broadcasts => m \in net)
  /\ \A m \in msgs : m.type = "append" =>
       \E x \in net : SameRequest(m, x) /\ (m = x \/ x \notin msgs)

\* A call ends with its answer, or is given up.
LEMMA CallEnds ==
  ASSUME TypeOK, OneAppendCall, NEW k \in Broadcasts, NEW msgs,
         \/ msgs = Abandoned(net, k)
         \/ \E m \in net : m.task = k /\ msgs = net \ {m}
  PROVE  Ended(msgs, k)
PROOF
<1>1. CASE \E m \in net : m.task = k /\ msgs = net \ {m}
  <2>1. PICK m \in net : m.task = k /\ msgs = net \ {m}
    BY <1>1
  <2>2. \A x \in net : x.task = k => x = m
    BY <2>1 DEF OneAppendCall, AwaitsCall
  <2> QED
    BY <2>1, <2>2 DEF Ended, SameRequest
<1>2. CASE msgs = Abandoned(net, k)
  <2>1. \A x \in net : x.task = k => x \notin msgs
    <3>1. SUFFICES ASSUME NEW x \in net, x.task = k, NEW y \in net, y.type # "reply",
                          x = [y EXCEPT !.task = NoTask]
                   PROVE  FALSE
      BY <1>2 DEF Abandoned
    <3>2. x.task = NoTask
      BY <3>1, OrphanedCall DEF TypeOK
    <3> QED
      BY <3>1, <3>2, BroadcastNames
  <2>2. ASSUME NEW m \in msgs
        PROVE  /\ m.task # k /\ (m.task \in Broadcasts => m \in net)
               /\ m.type = "append" =>
                    \E x \in net : SameRequest(m, x) /\ (m = x \/ x \notin msgs)
    <3>1. CASE m \in net /\ m.task # k
      BY <3>1 DEF SameRequest
    <3>2. CASE \E x \in net : x.task = k /\ x.type # "reply" /\ m = [x EXCEPT !.task = NoTask]
      <4>1. PICK x \in net : x.task = k /\ x.type # "reply" /\ m = [x EXCEPT !.task = NoTask]
        BY <3>2
      <4>2. m.task = NoTask /\ m.type = x.type /\ x \notin msgs
        BY <2>1, <4>1, OrphanedCall DEF TypeOK
      <4>3. m.type = "append" => SameRequest(m, x)
        <5>1. SUFFICES ASSUME x \in AppendMsg, x.type = "append", m.type = "append"
                       PROVE  SameRequest(m, x)
          BY <4>2, Messages
        <5> QED
          BY <4>1, <5>1 DEF AppendMsg, SameRequest
      <4> QED
        BY <4>2, <4>3, BroadcastNames
    <3> QED
      BY <1>2, <3>1, <3>2 DEF Abandoned
  <2> QED
    BY <2>2 DEF Ended
<1> QED
  BY <1>1, <1>2

\* What is left under way is still copied from the leader's log, once.
LEMMA EndedRequests ==
  ASSUME TypeOK, LogInv, NEW k, NEW msgs, Ended(msgs, k), NEW m \in msgs, m.type = "append"
  PROVE  /\ m.to \in Node /\ m.prevIdx \in Nat
         /\ \A lead \in Leaders : Sent(m, lead)
         /\ m.entries # << >> =>
              /\ Len(log[m.to]) <= m.prevIdx
              /\ \A y \in msgs : Brings(y, m.to, m.prevIdx) => y = m
         /\ \A n, i : Brings(m, n, i) => \E x \in net : Brings(x, n, i)
PROOF
<1>1. PICK x \in net : SameRequest(m, x) /\ (m = x \/ x \notin msgs)
  BY DEF Ended
<1>2. x.to \in Node /\ x.prevIdx \in Nat /\ x.type = "append"
  BY <1>1, AppendFields DEF SameRequest
<1>3. \A lead \in Leaders : Sent(m, lead)
  BY <1>1 DEF LogInv, Led, Sent, Piece, SameRequest
<1>4. ASSUME m.entries # << >>, NEW y \in msgs, Brings(y, m.to, m.prevIdx) PROVE y = m
  <2>1. PICK z \in net : SameRequest(y, z) /\ (y = z \/ z \notin msgs)
    BY <1>4 DEF Ended, Brings
  <2>2. Brings(z, x.to, x.prevIdx)
    BY <1>1, <1>4, <2>1 DEF Brings, SameRequest
  <2>3. z = x
    BY <1>1, <1>2, <1>4, <2>2 DEF LogInv, SentOnce, SameRequest
  <2> QED
    BY <1>1, <2>1, <2>3 DEF SameRequest
<1>5. m.entries # << >> => Len(log[m.to]) <= m.prevIdx
  BY <1>1, <1>2 DEF LogInv, SentOnce, SameRequest
<1> QED
  BY <1>1, <1>2, <1>3, <1>4, <1>5 DEF SameRequest, Brings

\* A running broadcast belongs to the one leader.
LEMMA RunsAtLeader ==
  ASSUME InFirstTerm, NEW k \in Broadcasts, Running(k)
  PROVE  LET lead == broadcast[k].node
         IN  /\ lead \in Node /\ Leaders = {lead} /\ Led(lead)
             /\ Sends(k, lead)
             /\ broadcast[k] \in Broadcast
             /\ broadcast[k].peer \in 1 .. Len(Peers[lead]) /\ Len(Peers[lead]) \in Nat
PROOF
<1>1. TypeOK /\ CallsAPeer /\ NothingYet /\ \A lead \in Leaders : Led(lead)
  BY DEF InFirstTerm, RaftInv, LogInv
<1>2. PICK lead \in Leaders : Led(lead)
  BY <1>1 DEF NothingYet
<1>3. Leaders = {lead}
  BY <1>2, LeaderIsOne DEF InFirstTerm
<1>4. Sends(k, lead) /\ broadcast[k].node = lead /\ lead \in Node
  BY <1>2 DEF Led, Sends, Leaders
<1>5. broadcast[k] \in Broadcast /\ broadcast[k].peer \in 1 .. Len(Peers[lead])
  BY <1>1, <1>4 DEF TypeOK, CallsAPeer, Running
<1> QED
  BY <1>2, <1>3, <1>4, <1>5, PeersNotEmpty

\* Different tasks carry different entries.
LEMMA OneCarrier ==
  ASSUME InFirstTerm, NEW j \in Broadcasts, NEW k \in Broadcasts, Running(j), Running(k),
         broadcast[j].entries # << >>, broadcast[k].entries # << >>,
         broadcast[j].prevIdx = broadcast[k].prevIdx
  PROVE  j = k
PROOF
<1>1. TypeOK /\ Loaded
  BY DEF InFirstTerm, RaftInv, LogInv
<1>2. /\ Sends(j, broadcast[j].node) /\ Sends(k, broadcast[k].node)
      /\ broadcast[j].node = broadcast[k].node
  BY RunsAtLeader
<1>3. broadcast[j].entries = broadcast[k].entries
  BY <1>2 DEF Sends, Piece
<1>4. PICK c \in Cmd : j = Submit(c)
  BY <1>1 DEF Loaded, Broadcasts
<1>5. PICK d \in Cmd : k = Submit(d)
  BY <1>1 DEF Loaded, Broadcasts
<1> QED
  BY <1>1, <1>3, <1>4, <1>5 DEF Loaded

\* One more ack, or none.
LEMMA AckCounts ==
  ASSUME NEW b \in Broadcast, b.peer >= 1, NEW S, AckedBy(b, S), NEW acks,
         acks = b.acks \/ (acks = b.acks + 1 /\ Took(Asked(b), b))
  PROVE  \E T : /\ T \subseteq 1 .. b.peer
                /\ acks = Cardinality(T) + 1
                /\ \A i \in T : Took(Peers[b.node][i], b)
PROOF
<1>1. /\ b.peer \in Nat /\ S \subseteq 1 .. b.peer - 1 /\ b.acks = Cardinality(S) + 1
      /\ \A i \in S : Took(Peers[b.node][i], b)
  BY DEF Broadcast, AckedBy
<1>2. IsFiniteSet(S) /\ Cardinality(S) \in Nat
  <2>1. IsFiniteSet(1 .. b.peer - 1)
    BY <1>1, FS_Interval
  <2> QED
    BY <1>1, <2>1, FS_Subset, FS_CardinalityType
<1>3. S \subseteq 1 .. b.peer /\ S \cup {b.peer} \subseteq 1 .. b.peer /\ b.peer \notin S
  <2>1. \A i \in 1 .. b.peer - 1 : i \in 1 .. b.peer /\ i # b.peer
    BY <1>1
  <2>2. b.peer \in 1 .. b.peer
    BY <1>1
  <2> QED
    BY <1>1, <2>1, <2>2, Zenon
<1>4. CASE acks = b.acks + 1 /\ Took(Asked(b), b)
  <2>1. acks = Cardinality(S \cup {b.peer}) + 1
    BY <1>1, <1>2, <1>3, <1>4, FS_AddElement
  <2>2. \A i \in S \cup {b.peer} : Took(Peers[b.node][i], b)
    <3>1. Took(Peers[b.node][b.peer], b)
      BY <1>4 DEF Asked
    <3> QED
      BY <1>1, <3>1
  <2> QED
    BY <1>3, <2>1, <2>2
<1>5. CASE acks = b.acks
  BY <1>1, <1>3, <1>5
<1> QED
  BY <1>4, <1>5

\* The next peer is called: its request is the first that brings it the entry.
LEMMA NextCall ==
  ASSUME InFirstTerm, NEW k \in Broadcasts, Running(k), NEW msgs, Ended(msgs, k),
         NEW b, b = broadcast[k], b.peer < Len(Peers[b.node]),
         NEW acks \in Nat, acks = b.acks \/ (acks = b.acks + 1 /\ Took(Asked(b), b)),
         broadcast' = [broadcast EXCEPT ![k].peer = @ + 1, ![k].acks = acks],
         net' = msgs \cup {AppendRequest(k, b.peer + 1, b)},
         UNCHANGED <<log, role, commitIndex, result, term, campaign>>
  PROVE  LogInv'
PROOF
<1> PICK lead : lead = b.node
  OBVIOUS
<1> PICK q : q = AppendRequest(k, b.peer + 1, b)
  OBVIOUS
<1>1. /\ TypeOK /\ LogInv /\ NothingYet /\ Leading /\ Loaded /\ SentOnce /\ OneAppendCall
      /\ AcksAreTrue
  BY DEF InFirstTerm, RaftInv, LogInv
<1>2. /\ lead \in Node /\ Leaders = {lead} /\ Led(lead) /\ Sends(k, lead) /\ b \in Broadcast
      /\ b.peer \in 1 .. Len(Peers[lead]) /\ Len(Peers[lead]) \in Nat
  BY RunsAtLeader
<1>3. /\ b.peer + 1 \in 1 .. Len(Peers[lead]) /\ b.prevIdx \in Nat /\ b.node = lead
      /\ b.peer \in Nat
  BY <1>2 DEF Broadcast
<1> PICK to : to = Peers[lead][b.peer + 1]
  OBVIOUS
<1>4. to \in Node /\ to # lead
  BY <1>2, <1>3, PeersAreTheOthers
<1>5. /\ q.type = "append" /\ q.task = k /\ q.to = to /\ q.prevIdx = b.prevIdx
      /\ q.entries = b.entries /\ q.commit = commitIndex[lead]
  BY <1>3 DEF AppendRequest
<1>6. /\ broadcast'[k] = [b EXCEPT !.peer = b.peer + 1, !.acks = acks]
      /\ \A x \in Broadcasts : x # k => broadcast'[x] = broadcast[x]
  BY <1>1 DEF TypeOK
<1>7. /\ broadcast'[k].node = lead /\ broadcast'[k].peer = b.peer + 1
      /\ broadcast'[k].acks = acks /\ broadcast'[k].prevIdx = b.prevIdx
      /\ broadcast'[k].entries = b.entries
  <2>1. b \in Broadcast
    BY <1>2
  <2>2. broadcast'[k] = [b EXCEPT !.peer = b.peer + 1, !.acks = acks]
    BY <1>6
  <2> QED
    BY <1>3, <2>1, <2>2 DEF Broadcast
<1>8. \A x \in Broadcasts : /\ Running(x)' <=> Running(x)
                            /\ broadcast'[x].entries = broadcast[x].entries
                            /\ broadcast'[x].prevIdx = broadcast[x].prevIdx
                            /\ broadcast'[x].node = broadcast[x].node
  <2>1. Running(k) /\ Running(k)'
    BY <1>3, <1>7 DEF Running
  <2>2. \A x \in Broadcasts : x # k => (Running(x)' <=> Running(x))
    BY <1>6 DEF Running
  <2> QED
    BY <1>3, <1>6, <1>7, <2>1, <2>2
<1>9. b.entries # << >> => Unsent(to, b.prevIdx)
  BY <1>2, <1>3 DEF Sends
<1>10. NothingYet' /\ Leading' /\ Loaded'
  <2>1. Leaders' = Leaders
    BY DEF Leaders
  <2>2. NothingYet'
    BY <1>2, <2>1 DEF NothingYet
  <2>3. Leading'
    BY <1>1 DEF Leading
  <2>4. Loaded'
    <3>1. ASSUME NEW n \in Node, Running(Heartbeat(n))'
          PROVE  broadcast'[Heartbeat(n)].entries = << >>
      BY <1>1, <1>8, <3>1, BroadcastNames DEF Loaded
    <3>2. ASSUME NEW c \in Cmd, Running(Submit(c))'
          PROVE  /\ result[c] = "none"
                 /\ Len(broadcast'[Submit(c)].entries) = 1
                 /\ broadcast'[Submit(c)].entries[1].cmd = c
      <4>1. /\ Submit(c) \in Broadcasts /\ Running(Submit(c))
            /\ broadcast'[Submit(c)].entries = broadcast[Submit(c)].entries
        BY <1>8, <3>2, BroadcastNames
      <4> QED
        BY <1>1, <4>1 DEF Loaded
    <3> QED
      BY <3>1, <3>2 DEF Loaded
  <2> QED
    BY <2>2, <2>3, <2>4
<1>11. SentOnce'
  <2>1. SUFFICES ASSUME NEW m \in net', m.type = "append", m.entries # << >>
                 PROVE  /\ Len(log[m.to]) <= m.prevIdx
                        /\ \A x \in net' : Brings(x, m.to, m.prevIdx) => x = m
    BY DEF SentOnce, Brings
  <2>2. CASE m = q
    BY <1>1, <1>5, <1>9, <2>1, <2>2, EndedRequests DEF Unsent, Brings
  <2>3. CASE m \in msgs
    <3>1. /\ Len(log[m.to]) <= m.prevIdx
          /\ \A x \in msgs : Brings(x, m.to, m.prevIdx) => x = m
      BY <1>1, <2>1, <2>3, EndedRequests
    <3>2. ~Brings(q, m.to, m.prevIdx)
      <4>1. SUFFICES ASSUME Brings(q, m.to, m.prevIdx) PROVE FALSE
        OBVIOUS
      <4>2. Brings(m, to, b.prevIdx) /\ b.entries # << >>
        BY <1>5, <2>1, <4>1 DEF Brings
      <4> QED
        BY <1>1, <1>9, <2>1, <2>3, <4>2, EndedRequests DEF Unsent
    <3> QED
      BY <3>1, <3>2
  <2> QED
    BY <2>2, <2>3
<1>12. Led(lead)'
  <2>1. ASSUME NEW m \in net', m.type = "append" PROVE Sent(m, lead)'
    <3>1. CASE m = q
      <4>1. commitIndex[lead] \in Nat
        BY <1>1, <1>2 DEF TypeOK
      <4>2. Piece(b, log[lead])
        BY <1>2 DEF Sends
      <4> QED
        BY <1>4, <1>5, <3>1, <4>1, <4>2 DEF Sent, Piece
    <3>2. CASE m \in msgs
      <4>1. Sent(m, lead)
        BY <1>1, <1>2, <2>1, <3>2, EndedRequests
      <4> QED
        BY <4>1 DEF Sent, Piece
    <3> QED
      BY <3>1, <3>2
  <2>2. ASSUME NEW x \in Broadcasts, Running(x)' PROVE Sends(x, lead)'
    <3>1. Sends(x, lead)
      BY <1>2, <1>8, <2>2 DEF Led
    <3>2. ASSUME broadcast[x].entries # << >>,
                 NEW j \in broadcast'[x].peer + 1 .. Len(Peers[lead])
          PROVE  Unsent(Peers[lead][j], broadcast[x].prevIdx)'
      <4>1. broadcast[x].peer \in Nat
        BY <1>1 DEF TypeOK, Broadcast
      <4>2. j \in broadcast[x].peer + 1 .. Len(Peers[lead])
        <5>1. broadcast'[x].peer \in {broadcast[x].peer, broadcast[x].peer + 1}
          BY <1>6, <1>7
        <5> QED
          BY <1>2, <3>2, <4>1, <5>1
      <4>3. Unsent(Peers[lead][j], broadcast[x].prevIdx)
        BY <3>1, <3>2, <4>2 DEF Sends
      <4>4. ~Brings(q, Peers[lead][j], broadcast[x].prevIdx)
        <5>1. CASE x = k
          <6>1. j # b.peer + 1 /\ j \in 1 .. Len(Peers[lead])
            BY <1>3, <1>7, <3>2, <4>1, <4>2, <5>1
          <6>2. Peers[lead][j] # to
            BY <1>2, <1>3, <6>1, PeersAreTheOthers
          <6> QED
            BY <1>5, <6>2 DEF Brings
        <5>2. CASE x # k
          <6>1. SUFFICES ASSUME Brings(q, Peers[lead][j], broadcast[x].prevIdx) PROVE FALSE
            OBVIOUS
          <6>2. Running(x) /\ b.entries # << >> /\ b.prevIdx = broadcast[x].prevIdx
            BY <1>5, <1>8, <2>2, <6>1 DEF Brings
          <6> QED
            BY <3>2, <5>2, <6>2, OneCarrier
        <5> QED
          BY <5>1, <5>2
      <4>5. ASSUME NEW m \in msgs PROVE ~Brings(m, Peers[lead][j], broadcast[x].prevIdx)
        BY <1>1, <4>3, EndedRequests DEF Unsent, Brings
      <4> QED
        BY <1>8, <4>3, <4>4, <4>5 DEF Unsent, Brings
    <3> QED
      BY <1>8, <3>1, <3>2 DEF Sends, Piece
  <2>3. (\A n \in Node : Behind(n, lead)') /\ InOrder(lead)'
    BY <1>2, <1>8, BroadcastNames DEF Led, Behind, InOrder
  <2> QED
    BY <2>1, <2>2, <2>3 DEF Led
<1>13. OneAppendCall'
  <2>1. SUFFICES ASSUME NEW x \in Broadcasts, NEW m \in net', m.task = x
                 PROVE  AwaitsCall(x, m)'
    BY DEF OneAppendCall
  <2>2. CASE x = k
    <3>1. m = q /\ \A y \in net' : y.task = k => y = q
      BY <1>5, <2>1, <2>2 DEF Ended
    <3> QED
      BY <1>2, <1>3, <1>5, <1>7, <2>2, <3>1 DEF AwaitsCall, Running, Asked
  <2>3. CASE x # k
    <3>1. m \in net /\ AwaitsCall(x, m)
      BY <1>1, <1>5, <2>1, <2>3 DEF Ended, OneAppendCall
    <3>2. \A y \in net' : y.task = x => y \in net
      BY <1>5, <2>1, <2>3 DEF Ended
    <3> QED
      BY <1>6, <2>3, <3>1, <3>2 DEF AwaitsCall, Running, Asked, Took
  <2> QED
    BY <2>2, <2>3
<1>14. AcksAreTrue'
  <2>1. SUFFICES ASSUME NEW x \in Broadcasts, Running(x)'
                 PROVE  (\E S : AckedBy(broadcast[x], S))'
    BY DEF AcksAreTrue
  <2>2. CASE x = k
    <3>1. PICK S : AckedBy(b, S)
      BY <1>1 DEF AcksAreTrue
    <3>2. PICK T : /\ T \subseteq 1 .. b.peer /\ acks = Cardinality(T) + 1
                   /\ \A i \in T : Took(Peers[b.node][i], b)
      <4>1. b.peer >= 1
        BY <1>2
      <4> QED
        BY <1>2, <3>1, <4>1, AckCounts
    <3>3. AckedBy(broadcast[k], T)'
      <4>1. T \subseteq 1 .. broadcast'[k].peer - 1 /\ broadcast'[k].acks = Cardinality(T) + 1
        <5>1. broadcast'[k].peer - 1 = b.peer
          BY <1>3, <1>7
        <5>2. T \subseteq 1 .. b.peer
          BY <3>2
        <5>3. broadcast'[k].acks = Cardinality(T) + 1
          BY <1>7, <3>2
        <5> QED
          BY <5>1, <5>2, <5>3
      <4>2. ASSUME NEW i \in T PROVE Took(Peers[broadcast[k].node][i], broadcast[k])'
        <5>1. Took(Peers[lead][i], b)
          BY <3>2
        <5> QED
          BY <1>7, <5>1 DEF Took
      <4> QED
        BY <4>1, <4>2 DEF AckedBy
    <3> QED
      BY <2>2, <3>3
  <2>3. CASE x # k
    <3>1. PICK S : AckedBy(broadcast[x], S)
      BY <1>1, <1>8, <2>1 DEF AcksAreTrue
    <3>2. AckedBy(broadcast[x], S)'
      BY <1>6, <2>3, <3>1 DEF AckedBy, Took
    <3> QED
      BY <3>2
  <2> QED
    BY <2>2, <2>3
<1>15. Leaders' = {lead}
  BY <1>2 DEF Leaders
<1> QED
  BY <1>10, <1>11, <1>12, <1>13, <1>14, <1>15 DEF LogInv

\* The last peer was called: the task ends, and the leader may have committed.
LEMMA LastCall ==
  ASSUME InFirstTerm, NEW k \in Broadcasts, Running(k), NEW lead, lead = broadcast[k].node,
         Ended(net', k), broadcast' = [broadcast EXCEPT ![k] = IdleBroadcast],
         UNCHANGED <<log, role, term, campaign>>,
         commitIndex'[lead] >= commitIndex[lead],
         \A n \in Node : n # lead => commitIndex'[n] = commitIndex[n],
         \A c \in Cmd : k = Submit(c) => result'[c] # "none",
         \A c \in Cmd : k # Submit(c) => result'[c] = result[c]
  PROVE  LogInv'
PROOF
<1>1. /\ TypeOK /\ TypeOK' /\ LogInv /\ NothingYet /\ Leading /\ Loaded /\ OneAppendCall
      /\ AcksAreTrue
  BY DEF InFirstTerm, RaftInv, LogInv
<1>2. lead \in Node /\ Leaders = {lead} /\ Led(lead)
  BY RunsAtLeader
<1>3. \A x \in Broadcasts : Running(x)' => x # k
  BY <1>1 DEF Running, IdleBroadcast, TypeOK
<1>4. \A x \in Broadcasts : x # k => broadcast'[x] = broadcast[x]
  BY <1>1 DEF TypeOK
<1>5. \A x \in Broadcasts : Running(x)' => Running(x) /\ broadcast'[x] = broadcast[x]
  BY <1>3, <1>4 DEF Running
<1>6. Leaders' = {lead} /\ NothingYet' /\ Leading'
  BY <1>1, <1>2 DEF Leaders, NothingYet, Leading
<1>7. Loaded'
  <2>1. ASSUME NEW n \in Node, Running(Heartbeat(n))'
        PROVE  broadcast'[Heartbeat(n)].entries = << >>
    BY <1>1, <1>5, <2>1, BroadcastNames DEF Loaded
  <2>2. ASSUME NEW c \in Cmd, Running(Submit(c))'
        PROVE  /\ result'[c] = "none" /\ Len(broadcast'[Submit(c)].entries) = 1
               /\ broadcast'[Submit(c)].entries[1].cmd = c
    BY <1>1, <1>3, <1>5, <2>2, BroadcastNames DEF Loaded
  <2> QED
    BY <2>1, <2>2 DEF Loaded
<1>8. SentOnce'
  <2>1. SUFFICES ASSUME NEW m \in net', m.type = "append", m.entries # << >>
                 PROVE  /\ Len(log[m.to]) <= m.prevIdx
                        /\ \A x \in net' : Brings(x, m.to, m.prevIdx) => x = m
    BY DEF SentOnce, Brings
  <2> QED
    BY <1>1, <2>1, EndedRequests
<1>9. OneAppendCall'
  <2>1. SUFFICES ASSUME NEW x \in Broadcasts, NEW m \in net', m.task = x
                 PROVE  AwaitsCall(x, m)'
    BY DEF OneAppendCall
  <2>2. x # k /\ m \in net /\ AwaitsCall(x, m) /\ \A y \in net' : y.task = x => y \in net
    BY <1>1, <2>1 DEF Ended, OneAppendCall
  <2> QED
    BY <1>4, <2>2 DEF AwaitsCall, Running, Asked, Took
<1>10. AcksAreTrue'
  <2>1. SUFFICES ASSUME NEW x \in Broadcasts, Running(x)'
                 PROVE  (\E S : AckedBy(broadcast[x], S))'
    BY DEF AcksAreTrue
  <2>2. PICK S : AckedBy(broadcast[x], S)
    BY <1>1, <1>5, <2>1 DEF AcksAreTrue
  <2>3. AckedBy(broadcast[x], S)'
    BY <1>5, <2>1, <2>2 DEF AckedBy, Took
  <2> QED
    BY <2>3
<1>11. Led(lead)'
  <2>1. ASSUME NEW n \in Node PROVE Behind(n, lead)'
    <3>1. Behind(n, lead)
      BY <1>2 DEF Led
    <3>2. /\ commitIndex[n] \in Nat /\ commitIndex'[n] \in Nat
          /\ commitIndex[lead] \in Nat /\ commitIndex'[lead] \in Nat
      BY <1>1, <1>2 DEF TypeOK
    <3>3. commitIndex'[n] <= commitIndex'[lead]
      BY <1>2, <3>1, <3>2 DEF Behind
    <3> QED
      BY <3>1, <3>3 DEF Behind
  <2>2. ASSUME NEW m \in net', m.type = "append" PROVE Sent(m, lead)'
    <3>1. Sent(m, lead) /\ m.commit \in Nat
      <4>1. PICK x \in net : SameRequest(m, x)
        BY <2>2 DEF Ended
      <4> QED
        BY <1>1, <1>2, <2>2, <4>1, AppendFields, EndedRequests DEF SameRequest
    <3>2. commitIndex[lead] <= commitIndex'[lead]
          /\ commitIndex[lead] \in Nat /\ commitIndex'[lead] \in Nat
      BY <1>1, <1>2 DEF TypeOK
    <3> QED
      BY <3>1, <3>2 DEF Sent, Piece
  <2>3. ASSUME NEW x \in Broadcasts, Running(x)' PROVE Sends(x, lead)'
    <3>1. Sends(x, lead) /\ broadcast'[x] = broadcast[x]
      BY <1>2, <1>5, <2>3 DEF Led
    <3>2. ASSUME NEW n, NEW i, Unsent(n, i) PROVE Unsent(n, i)'
      BY <1>1, <3>2, EndedRequests DEF Unsent, Brings
    <3> QED
      BY <3>1, <3>2 DEF Sends, Piece
  <2>4. InOrder(lead)'
    <3>1. ASSUME NEW c \in Cmd, ~Running(Submit(c))', result'[c] = "none"
          PROVE  ~Running(Submit(c)) /\ result[c] = "none"
      BY <1>4, <3>1, BroadcastNames DEF Running
    <3> QED
      BY <1>2, <3>1 DEF Led, InOrder
  <2> QED
    BY <2>1, <2>2, <2>3, <2>4 DEF Led
<1> QED
  BY <1>6, <1>7, <1>8, <1>9, <1>10, <1>11 DEF LogInv

\* The acks of b once the call under way has ended.
AcksAfter(b, acks) == acks \in Nat /\ (acks = b.acks \/ (acks = b.acks + 1 /\ Took(Asked(b), b)))

\* A call ends with success only if the peer has what it was sent.
LEMMA AppendCallResult ==
  ASSUME InFirstTerm, NEW k \in Broadcasts, AppendReturns(k) \/ AppendTimesOut(k)
  PROVE  \E success \in BOOLEAN : \E msgs :
           /\ Running(k) /\ Ended(msgs, k) /\ NextFollower(k, success, msgs)
           /\ AcksAfter(broadcast[k], broadcast[k].acks + (IF success THEN 1 ELSE 0))
PROOF
<1>1. TypeOK /\ OneAppendCall
  BY DEF InFirstTerm, RaftInv, LogInv
<1>2. Running(k) /\ broadcast[k].acks \in Nat
  BY <1>1 DEF AppendReturns, AppendTimesOut, Running, TypeOK, Broadcast
<1>3. CASE AppendReturns(k)
  <2>1. PICK m \in net : m.type = "reply" /\ m.task = k /\ NextFollower(k, m.ok, net \ {m})
    BY <1>3 DEF AppendReturns
  <2>2. m.ok \in BOOLEAN
    BY <1>1, <2>1, Messages DEF ReplyMsg
  <2>3. Ended(net \ {m}, k)
    BY <1>1, <2>1, CallEnds
  <2>4. m.ok => Took(Asked(broadcast[k]), broadcast[k])
    BY <1>1, <2>1 DEF OneAppendCall, AwaitsCall
  <2>5. AcksAfter(broadcast[k], broadcast[k].acks + (IF m.ok THEN 1 ELSE 0))
    <3>1. CASE m.ok
      <4>1. (IF m.ok THEN 1 ELSE 0) = 1
        BY <3>1
      <4> QED
        BY <1>2, <2>4, <3>1, <4>1 DEF AcksAfter
    <3>2. CASE ~m.ok
      <4>1. (IF m.ok THEN 1 ELSE 0) = 0
        BY <3>2
      <4> QED
        BY <1>2, <4>1 DEF AcksAfter
    <3> QED
      BY <3>1, <3>2
  <2> QED
    BY <1>2, <2>1, <2>2, <2>3, <2>5
<1>4. CASE AppendTimesOut(k)
  <2>1. NextFollower(k, FALSE, Abandoned(net, k)) /\ Ended(Abandoned(net, k), k)
    BY <1>1, <1>4, CallEnds DEF AppendTimesOut
  <2>2. AcksAfter(broadcast[k], broadcast[k].acks + (IF FALSE THEN 1 ELSE 0))
    BY <1>2 DEF AcksAfter
  <2> QED
    BY <1>2, <2>1, <2>2
<1> QED
  BY <1>3, <1>4

\* A call of a broadcast has returned or timed out.
LEMMA AppendCallLogs ==
  ASSUME InFirstTerm, NEW k \in Broadcasts, AppendReturns(k) \/ AppendTimesOut(k)
  PROVE  LogInv' /\ Leaders' = Leaders
PROOF
<1>1. PICK success \in BOOLEAN : \E msgs :
        /\ Running(k) /\ Ended(msgs, k) /\ NextFollower(k, success, msgs)
        /\ AcksAfter(broadcast[k], broadcast[k].acks + (IF success THEN 1 ELSE 0))
  BY AppendCallResult
<1>2. PICK msgs :
        /\ Running(k) /\ Ended(msgs, k) /\ NextFollower(k, success, msgs)
        /\ AcksAfter(broadcast[k], broadcast[k].acks + (IF success THEN 1 ELSE 0))
  BY <1>1
<1> PICK b : b = broadcast[k]
  OBVIOUS
<1>3. PICK acks : acks = broadcast[k].acks + (IF success THEN 1 ELSE 0)
  OBVIOUS
<1>4. TypeOK /\ TypeOK' /\ CommittedIsApplied
  BY DEF InFirstTerm, RaftInv
<1>5. UNCHANGED <<term, role, log, campaign>>
  BY <1>2 DEF NextFollower
<1>6. AcksAfter(b, acks)
  BY <1>3, <1>2
<1>7. b.node \in Node
  BY <1>2, RunsAtLeader
<1>8. CASE b.peer < Len(Peers[b.node])
  <2>1. /\ broadcast' = [broadcast EXCEPT ![k].peer = @ + 1, ![k].acks = acks]
        /\ net' = msgs \cup {AppendRequest(k, b.peer + 1, b)}
        /\ UNCHANGED <<commitIndex, result>>
    BY <1>3, <1>2, <1>8 DEF NextFollower
  <2>2. acks \in Nat /\ (acks = b.acks \/ (acks = b.acks + 1 /\ Took(Asked(b), b)))
    BY <1>6 DEF AcksAfter
  <2>3. Running(k) /\ Ended(msgs, k)
    BY <1>2
  <2>4. LogInv'
    BY <1>5, <1>8, <2>1, <2>2, <2>3, NextCall
  <2> QED
    BY <1>5, <2>4 DEF Leaders
<1>9. CASE ~(b.peer < Len(Peers[b.node]))
  <2>1. /\ broadcast' = [broadcast EXCEPT ![k] = IdleBroadcast]
        /\ net' = msgs
        /\ IF k[1] = "submit"
             THEN FinishSubmit(k[2], b.node, acks)
             ELSE UNCHANGED <<commitIndex, lastApplied, result>>
    BY <1>3, <1>2, <1>9 DEF NextFollower
  <2>2. \A n \in Node : commitIndex[n] \in Nat /\ commitIndex[n] <= Len(log[n])
                        /\ Len(log[n]) \in Nat
    BY <1>4 DEF CommittedIsApplied, TypeOK
  <2>3. /\ commitIndex'[b.node] >= commitIndex[b.node]
        /\ \A n \in Node : n # b.node => commitIndex'[n] = commitIndex[n]
        /\ \A c \in Cmd : k = Submit(c) => result'[c] # "none"
        /\ \A c \in Cmd : k # Submit(c) => result'[c] = result[c]
    <3>1. CASE k \in {Submit(c) : c \in Cmd}
      <4>1. PICK c \in Cmd : k = Submit(c) /\ FinishSubmit(c, b.node, acks)
        BY <2>1, <3>1, BroadcastNames
      <4>2. /\ commitIndex' = commitIndex
               \/ commitIndex' = [commitIndex EXCEPT ![b.node] = Len(log[b.node])]
            /\ \E r \in {"ok", "failed"} : result' = [result EXCEPT ![c] = r]
        BY <4>1 DEF FinishSubmit, CommitAll
      <4>3. /\ commitIndex'[b.node] >= commitIndex[b.node]
            /\ \A n \in Node : n # b.node => commitIndex'[n] = commitIndex[n]
        <5>1. CASE commitIndex' = commitIndex
          BY <1>7, <2>2, <5>1
        <5>2. CASE commitIndex' = [commitIndex EXCEPT ![b.node] = Len(log[b.node])]
          BY <1>4, <1>7, <2>2, <5>2 DEF TypeOK
        <5> QED
          BY <4>2, <5>1, <5>2
      <4>4. \A d \in Cmd : k = Submit(d) <=> d = c
        BY <4>1, BroadcastNames
      <4>5. result'[c] # "none" /\ \A d \in Cmd : d # c => result'[d] = result[d]
        BY <1>4, <4>2 DEF TypeOK
      <4> QED
        BY <4>3, <4>4, <4>5
    <3>2. CASE k \notin {Submit(c) : c \in Cmd}
      <4>1. k[1] # "submit"
        BY <3>2, BroadcastNames DEF Broadcasts
      <4> QED
        BY <1>7, <2>1, <2>2, <3>2, <4>1
    <3> QED
      BY <3>1, <3>2
  <2>4. Running(k) /\ Ended(net', k)
    BY <1>2, <2>1
  <2>5. LogInv'
    BY <1>5, <2>1, <2>3, <2>4, LastCall
  <2> QED
    BY <1>5, <2>5 DEF Leaders
<1> QED
  BY <1>8, <1>9

\* Requests under way carry entries that the leader has.
LEMMA CarriesLess ==
  ASSUME InFirstTerm, NEW lead \in Leaders, NEW m \in net, m.type = "append", m.entries # << >>
  PROVE  m.to # lead /\ m.prevIdx < Len(log[lead])
BY DEF InFirstTerm, LogInv, Led, Sent, Piece

\* Task k brings what lg has beyond old: a new command or nothing.
Grows(k, lead, old, lg, entries) ==
  /\ Len(lg) = Len(old) + Len(entries)
  /\ \A i \in 1 .. Len(old) : lg[i] = old[i]
  /\ \/ k = Heartbeat(lead) /\ entries = << >>
     \/ \E c \in Cmd : /\ k = Submit(c) /\ result[c] = "none"
                       /\ lg[Len(old) + 1].cmd = c
                       /\ entries = <<lg[Len(old) + 1]>>

\* The leader starts a broadcast, with a new entry at the end of its log or
\* with none.
LEMMA NewTask ==
  ASSUME InFirstTerm, NEW lead \in Leaders, NEW k \in Broadcasts, ~Running(k),
         NEW b \in Broadcast, b.node = lead, b.peer = 1, b.acks = 1,
         b.prevIdx = Len(log[lead]),
         NEW lg \in Seq(Entry), log' = [log EXCEPT ![lead] = lg],
         Grows(k, lead, log[lead], lg, b.entries),
         broadcast' = [broadcast EXCEPT ![k] = b],
         net' = net \cup {AppendRequest(k, 1, b)},
         UNCHANGED <<role, term, commitIndex, campaign, result>>
  PROVE  LogInv' /\ Leaders' = Leaders
PROOF
<1> PICK q : q = AppendRequest(k, 1, b)
  OBVIOUS
<1> PICK to : to = Peers[lead][1]
  OBVIOUS
<1> PICK len : len = Len(log[lead])
  OBVIOUS
<1>1. /\ TypeOK /\ LogInv /\ NothingYet /\ Leading /\ Loaded /\ SentOnce /\ OneAppendCall
      /\ AcksAreTrue /\ Led(lead)
  BY DEF InFirstTerm, RaftInv, LogInv
<1>2. /\ lead \in Node /\ Leaders = {lead} /\ Leaders' = {lead}
      /\ len \in Nat /\ Len(lg) \in Nat
      /\ \A n \in Node : Len(log[n]) \in Nat
  <2>1. lead \in Node /\ \A n \in Leaders : n = lead
    BY LeaderIsOne DEF InFirstTerm, Leaders
  <2> QED
    BY <1>1, <2>1 DEF Leaders, TypeOK
<1>3. /\ 1 \in 1 .. Len(Peers[lead]) /\ Len(Peers[lead]) \in Nat
      /\ to \in Node /\ to # lead
      /\ \A j \in 1 .. Len(Peers[lead]) : Peers[lead][j] \in Node \ {lead}
  BY <1>2, PeersNotEmpty, PeersAreTheOthers
<1>4. /\ q.type = "append" /\ q.task = k /\ q.to = to /\ q.prevIdx = len
      /\ q.entries = b.entries /\ q.commit = commitIndex[lead]
  BY DEF AppendRequest
<1>5. /\ log'[lead] = lg
      /\ \A n \in Node : n # lead => log'[n] = log[n]
      /\ broadcast'[k] = b
      /\ \A x \in Broadcasts : x # k => broadcast'[x] = broadcast[x]
  BY <1>1, <1>2 DEF TypeOK
<1>6. Len(lg) = len + Len(b.entries) /\ Len(b.entries) \in {0, 1} /\ len <= Len(lg)
  <2>1. Len(lg) = len + Len(b.entries)
    BY DEF Grows
  <2>2. CASE b.entries = << >>
    BY <1>2, <2>1, <2>2
  <2>3. CASE b.entries = <<lg[len + 1]>>
    <3>1. Len(b.entries) = 1
      BY <2>3
    <3> QED
      BY <1>2, <2>1, <3>1
  <2> QED
    BY <2>2, <2>3 DEF Grows
<1>7. b.entries # << >> => len < Len(lg) /\ b.entries = <<lg[len + 1]>>
  <2>1. SUFFICES ASSUME b.entries # << >> PROVE len < Len(lg) /\ b.entries = <<lg[len + 1]>>
    OBVIOUS
  <2>2. b.entries = <<lg[len + 1]>>
    BY <2>1 DEF Grows
  <2>3. Len(b.entries) = 1
    BY <2>2
  <2>4. len < Len(lg)
    BY <1>2, <1>6, <2>3
  <2> QED
    BY <2>2, <2>4
<1>8. \A i \in 1 .. len : lg[i] = log[lead][i]
  <2>1. \A i \in 1 .. Len(log[lead]) : lg[i] = log[lead][i]
    BY Zenon DEF Grows
  <2> QED
    BY <2>1, Zenon
<1>9. \A n \in Node : Len(log[n]) <= Len(log'[n]) /\ Len(log'[n]) \in Nat
  <2>1. len <= Len(lg)
    BY <1>6
  <2>2. ASSUME NEW n \in Node PROVE Len(log[n]) <= Len(log'[n]) /\ Len(log'[n]) \in Nat
    <3>1. CASE n = lead
      BY <1>2, <1>5, <2>1, <3>1
    <3>2. CASE n # lead
      BY <1>2, <1>5, <3>2
    <3> QED
      BY <3>1, <3>2
  <2> QED
    BY <2>2
<1>10. \A x : Piece(x, log[lead]) /\ x.prevIdx \in Nat => Piece(x, lg)
  <2>1. \A i \in Nat : i < len => i + 1 \in 1 .. len /\ i < Len(lg)
    <3>1. len \in Nat /\ Len(lg) \in Nat /\ len <= Len(lg)
      BY <1>2, <1>6
    <3>2. \A i \in Nat : i < len => i < Len(lg)
      BY <3>1
    <3>3. \A i \in Nat : i < len => i + 1 \in 1 .. len
      BY <3>1
    <3> QED
      BY <3>2, <3>3
  <2>2. SUFFICES ASSUME NEW x, Piece(x, log[lead]), x.prevIdx \in Nat, x.entries # << >>
                 PROVE  x.prevIdx < Len(lg) /\ x.entries = <<lg[x.prevIdx + 1]>>
    BY DEF Piece
  <2>3. x.prevIdx < len
    BY <2>2, Zenon DEF Piece
  <2>4. x.entries = <<log[lead][x.prevIdx + 1]>>
    BY <2>2, Zenon DEF Piece
  <2>5. x.prevIdx + 1 \in 1 .. len /\ x.prevIdx < Len(lg)
    BY <2>1, <2>2, <2>3, Zenon
  <2> QED
    BY <1>8, <2>4, <2>5, Zenon
<1>11. \A x \in Broadcasts : Running(x)' <=> (x = k \/ Running(x))
  BY <1>5 DEF Running
<1>12. NothingYet' /\ Leading'
  BY <1>1, <1>2 DEF NothingYet, Leading
<1>13. Loaded'
  <2>1. ASSUME NEW n \in Node, Running(Heartbeat(n))'
        PROVE  broadcast'[Heartbeat(n)].entries = << >>
    <3>1. CASE Heartbeat(n) = k
      BY <1>5, <3>1, BroadcastNames DEF Grows
    <3>2. CASE Heartbeat(n) # k
      BY <1>1, <1>5, <1>11, <2>1, <3>2, BroadcastNames DEF Loaded
    <3> QED
      BY <3>1, <3>2
  <2>2. ASSUME NEW c \in Cmd, Running(Submit(c))'
        PROVE  /\ result'[c] = "none" /\ Len(broadcast'[Submit(c)].entries) = 1
               /\ broadcast'[Submit(c)].entries[1].cmd = c
    <3>1. CASE Submit(c) = k
      <4>1. result[c] = "none" /\ lg[len + 1].cmd = c /\ b.entries = <<lg[len + 1]>>
        BY <1>2, <3>1, BroadcastNames DEF Grows
      <4>2. Len(b.entries) = 1 /\ b.entries[1] = lg[len + 1]
        BY <4>1
      <4> QED
        BY <1>5, <3>1, <4>1, <4>2
    <3>2. CASE Submit(c) # k
      BY <1>1, <1>5, <1>11, <2>2, <3>2, BroadcastNames DEF Loaded
    <3> QED
      BY <3>1, <3>2
  <2> QED
    BY <2>1, <2>2 DEF Loaded
<1>14. \A m \in net : m.task # k
  BY <1>1 DEF OneAppendCall, AwaitsCall
<1>15. \A m \in net : \A n : ~Brings(m, n, len)
  BY <1>2, CarriesLess DEF Brings
<1>16. SentOnce'
  <2>1. SUFFICES ASSUME NEW m \in net', m.type = "append", m.entries # << >>
                 PROVE  /\ Len(log'[m.to]) <= m.prevIdx
                        /\ \A x \in net' : Brings(x, m.to, m.prevIdx) => x = m
    BY DEF SentOnce, Brings
  <2>2. CASE m = q
    <3>1. Len(log'[to]) <= len
      BY <1>1, <1>3, <1>5 DEF Led, Behind
    <3> QED
      BY <1>4, <1>15, <2>2, <3>1
  <2>3. CASE m \in net
    <3>1. m.to \in Node /\ m.to # lead /\ m.prevIdx \in Nat /\ m.prevIdx < len
      BY <1>1, <2>1, <2>3, CarriesLess, AppendFields
    <3>2. Len(log'[m.to]) <= m.prevIdx /\ \A x \in net : Brings(x, m.to, m.prevIdx) => x = m
      BY <1>1, <1>5, <2>1, <2>3, <3>1 DEF SentOnce
    <3>3. ~Brings(q, m.to, m.prevIdx)
      BY <1>2, <1>4, <3>1 DEF Brings
    <3> QED
      BY <3>2, <3>3
  <2> QED
    BY <2>2, <2>3
<1>17. OneAppendCall'
  <2>1. SUFFICES ASSUME NEW x \in Broadcasts, NEW m \in net', m.task = x
                 PROVE  AwaitsCall(x, m)'
    BY DEF OneAppendCall
  <2>2. CASE x = k
    <3>1. m = q /\ \A y \in net' : y.task = k => y = q
      BY <1>14, <2>1, <2>2
    <3>2. Running(k)'
      BY <1>11
    <3> QED
      BY <1>4, <1>5, <2>2, <3>1, <3>2 DEF AwaitsCall, Asked
  <2>3. CASE x # k
    <3>1. m \in net /\ AwaitsCall(x, m)
      BY <1>1, <1>4, <2>1, <2>3 DEF OneAppendCall
    <3>2. \A y \in net' : y.task = x => y \in net
      BY <1>4, <2>3
    <3>3. Took(Asked(broadcast[x]), broadcast[x]) => Took(Asked(broadcast[x]), broadcast[x])'
      <4>1. Running(x) /\ broadcast[x] \in Broadcast
        BY <1>1, <3>1 DEF AwaitsCall, TypeOK
      <4>2. Asked(broadcast[x]) \in Node
        BY <1>2, <1>3, <4>1, RunsAtLeader DEF Asked
      <4>3. broadcast[x].prevIdx + Len(broadcast[x].entries) \in Nat
        BY <4>1 DEF Broadcast
      <4> QED
        BY <1>2, <1>5, <1>9, <2>3, <4>2, <4>3 DEF Took, Asked
    <3> QED
      BY <1>5, <2>3, <3>1, <3>2, <3>3 DEF AwaitsCall, Running, Asked
  <2> QED
    BY <2>2, <2>3
<1>18. AcksAreTrue'
  <2>1. SUFFICES ASSUME NEW x \in Broadcasts, Running(x)'
                 PROVE  (\E S : AckedBy(broadcast[x], S))'
    BY DEF AcksAreTrue
  <2>2. CASE x = k
    <3>1. AckedBy(broadcast[k], {})'
      BY <1>5, FS_EmptySet DEF AckedBy
    <3> QED
      BY <2>2, <3>1
  <2>3. CASE x # k
    <3>1. Running(x) /\ broadcast'[x] = broadcast[x] /\ broadcast[x] \in Broadcast
      BY <1>1, <1>5, <1>11, <2>1, <2>3 DEF TypeOK
    <3>2. PICK S : AckedBy(broadcast[x], S)
      BY <1>1, <3>1 DEF AcksAreTrue
    <3>3. ASSUME NEW i \in S PROVE Took(Peers[broadcast[x].node][i], broadcast[x])'
      <4>1. broadcast[x].node = lead /\ broadcast[x].peer \in 1 .. Len(Peers[lead])
        BY <1>2, <3>1, RunsAtLeader
      <4>2. S \subseteq 1 .. broadcast[x].peer - 1
            /\ Took(Peers[broadcast[x].node][i], broadcast[x])
        BY <3>2 DEF AckedBy
      <4>3. Peers[lead][i] \in Node
        BY <1>3, <4>1, <4>2
      <4>4. broadcast[x].prevIdx + Len(broadcast[x].entries) \in Nat
        BY <3>1 DEF Broadcast
      <4> QED
        BY <1>2, <1>9, <3>1, <4>1, <4>2, <4>3, <4>4 DEF Took
    <3>4. AckedBy(broadcast[x], S)'
      BY <3>1, <3>2, <3>3 DEF AckedBy
    <3> QED
      BY <3>4
  <2> QED
    BY <2>2, <2>3
<1>19. Led(lead)'
  <2>1. ASSUME NEW n \in Node PROVE Behind(n, lead)'
    <3>1. Behind(n, lead)
      BY <1>1 DEF Led
    <3>2. CASE n = lead
      <4>1. commitIndex[lead] \in Nat
        BY <1>1, <1>2 DEF TypeOK
      <4> QED
        BY <1>2, <1>5, <3>2, <4>1 DEF Behind
    <3>3. CASE n # lead
      <4>1. /\ Len(log[n]) \in Nat /\ Len(log[n]) <= len /\ len <= Len(lg)
            /\ \A i \in 1 .. Len(log[n]) : log[n][i] = log[lead][i]
        <5>1. Len(log[n]) <= Len(log[lead]) /\ Len(log[n]) \in Nat
          BY <1>2, <3>1 DEF Behind
        <5>2. \A i \in 1 .. Len(log[n]) : log[n][i] = log[lead][i]
          BY <3>1, Zenon DEF Behind
        <5> QED
          BY <1>2, <1>6, <5>1, <5>2
      <4>2. \A i \in 1 .. Len(log[n]) : log[n][i] = lg[i]
        BY <1>2, <1>8, <4>1
      <4>3. Len(log[n]) <= Len(lg)
        BY <1>2, <4>1
      <4> QED
        BY <1>5, <3>1, <3>3, <4>2, <4>3 DEF Behind
    <3> QED
      BY <3>2, <3>3
  <2>2. ASSUME NEW m \in net', m.type = "append" PROVE Sent(m, lead)'
    <3>1. CASE m = q
      <4>1. commitIndex[lead] \in Nat
        BY <1>1, <1>2 DEF TypeOK
      <4>2. Piece(q, lg)
        BY <1>4, <1>7 DEF Piece
      <4> QED
        BY <1>3, <1>4, <1>5, <3>1, <4>1, <4>2 DEF Sent
    <3>2. CASE m \in net
      <4>1. Sent(m, lead) /\ m.prevIdx \in Nat
        BY <1>1, <2>2, <3>2, AppendFields DEF Led
      <4> QED
        BY <1>5, <1>10, <4>1 DEF Sent
    <3> QED
      BY <3>1, <3>2
  <2>3. ASSUME NEW x \in Broadcasts, Running(x)' PROVE Sends(x, lead)'
    <3>1. CASE x = k
      <4>1. ASSUME b.entries # << >>, NEW j \in b.peer + 1 .. Len(Peers[lead])
            PROVE  Unsent(Peers[lead][j], b.prevIdx)'
        <5>1. j \in 1 .. Len(Peers[lead]) /\ j # 1
          BY <1>3, <4>1
        <5>2. Peers[lead][j] # to /\ Peers[lead][j] \in Node \ {lead}
          BY <1>2, <1>3, <5>1, PeersAreTheOthers
        <5>3. Len(log'[Peers[lead][j]]) <= len
          BY <1>1, <1>5, <5>2 DEF Led, Behind
        <5>4. ~Brings(q, Peers[lead][j], len)
          BY <1>4, <5>2 DEF Brings
        <5> QED
          BY <1>15, <5>3, <5>4 DEF Unsent, Brings
      <4> QED
        BY <1>5, <1>7, <3>1, <4>1 DEF Sends, Piece
    <3>2. CASE x # k
      <4>1. /\ Sends(x, lead) /\ broadcast'[x] = broadcast[x] /\ broadcast[x] \in Broadcast
            /\ broadcast[x].peer \in Nat /\ broadcast[x].prevIdx \in Nat
        BY <1>1, <1>5, <1>11, <2>3, <3>2 DEF Led, TypeOK, Broadcast
      <4>2. ASSUME broadcast[x].entries # << >>,
                   NEW j \in broadcast[x].peer + 1 .. Len(Peers[lead])
            PROVE  Unsent(Peers[lead][j], broadcast[x].prevIdx)'
        <5>1. /\ Unsent(Peers[lead][j], broadcast[x].prevIdx)
              /\ Peers[lead][j] \in Node \ {lead} /\ broadcast[x].prevIdx < len
          BY <1>3, <4>1, <4>2 DEF Sends, Piece
        <5>2. ~Brings(q, Peers[lead][j], broadcast[x].prevIdx)
          BY <1>2, <1>4, <4>1, <5>1 DEF Brings
        <5>3. \A m \in net' : ~Brings(m, Peers[lead][j], broadcast[x].prevIdx)
          BY <5>1, <5>2 DEF Unsent
        <5>4. Len(log'[Peers[lead][j]]) <= broadcast[x].prevIdx
          BY <1>5, <5>1 DEF Unsent
        <5> QED
          BY <4>1, <5>3, <5>4 DEF Unsent, Brings
      <4> QED
        BY <1>5, <1>10, <4>1, <4>2 DEF Sends
    <3> QED
      BY <3>1, <3>2
  <2>4. InOrder(lead)'
    <3>1. InOrder(lead)
      BY <1>1 DEF Led
    <3>2. CASE b.entries = << >>
      <4>1. Len(lg) = len /\ k = Heartbeat(lead)
        <5>1. Len(b.entries) = 0
          BY <3>2
        <5>2. Len(lg) = len
          BY <1>2, <1>6, <5>1
        <5>3. \A e : b.entries # <<e>>
          BY <3>2
        <5>4. k = Heartbeat(lead)
          BY <5>3, Zenon DEF Grows
        <5> QED
          BY <5>2, <5>4
      <4>2. \A c \in Cmd : Running(Submit(c))' <=> Running(Submit(c))
        BY <1>2, <1>11, <4>1, BroadcastNames
      <4>3. \A i \in 1 .. len : lg[i].cmd = log[lead][i].cmd
        BY <1>8
      <4>4. \A i, j \in 1 .. len : lg[i].cmd = lg[j].cmd => i = j
        <5>1. \A i, j \in 1 .. len : log[lead][i].cmd = log[lead][j].cmd => i = j
          BY <3>1 DEF InOrder
        <5> QED
          BY <4>3, <5>1
      <4>5. ASSUME NEW c \in Cmd, ~Running(Submit(c))', result[c] = "none", NEW i \in 1 .. len
            PROVE  lg[i].cmd # c
        <5>1. ~Running(Submit(c))
          BY <4>2, <4>5
        <5>2. log[lead][i].cmd # c
          BY <3>1, <4>5, <5>1 DEF InOrder
        <5> QED
          BY <4>3, <5>2
      <4> QED
        BY <1>5, <4>1, <4>4, <4>5 DEF InOrder
    <3>3. CASE b.entries # << >>
      <4>1. PICK c \in Cmd : /\ k = Submit(c) /\ result[c] = "none" /\ lg[len + 1].cmd = c
                             /\ b.entries = <<lg[len + 1]>>
        BY <3>3 DEF Grows
      <4>2. Len(lg) = len + 1
        <5>1. Len(b.entries) = 1
          BY <4>1
        <5> QED
          BY <1>2, <1>6, <5>1
      <4>3. \A i \in 1 .. len : lg[i].cmd # c /\ lg[i].cmd = log[lead][i].cmd
        <5>1. ~Running(Submit(c))
          BY <4>1
        <5> QED
          BY <1>8, <3>1, <4>1, <5>1 DEF InOrder
      <4>4. \A i, j \in 1 .. Len(lg) : lg[i].cmd = lg[j].cmd => i = j
        BY <1>2, <3>1, <4>1, <4>2, <4>3 DEF InOrder
      <4>5. ASSUME NEW d \in Cmd, ~Running(Submit(d))', result[d] = "none",
                   NEW i \in 1 .. Len(lg)
            PROVE  lg[i].cmd # d
        <5>1. d # c /\ ~Running(Submit(d))
          BY <1>11, <4>1, <4>5, BroadcastNames
        <5> QED
          BY <1>2, <3>1, <4>1, <4>2, <4>3, <4>5, <5>1 DEF InOrder
      <4> QED
        BY <1>5, <4>4, <4>5 DEF InOrder
    <3> QED
      BY <3>2, <3>3
  <2> QED
    BY <2>1, <2>2, <2>3, <2>4 DEF Led
<1> QED
  BY <1>2, <1>12, <1>13, <1>16, <1>17, <1>18, <1>19 DEF LogInv

\* A heartbeat brings no entry.
LEMMA StartHeartbeatLogs ==
  ASSUME InFirstTerm, NEW n \in Node, StartHeartbeat(n)
  PROVE  LogInv' /\ Leaders' = Leaders
PROOF
<1> DEFINE k == Heartbeat(n)
           none == << >>
           b == NewBroadcast(n, log[n], none)
<1>1. TypeOK
  BY DEF InFirstTerm, RaftInv
<1>2. /\ n \in Leaders /\ k \in Broadcasts /\ ~Running(k)
      /\ broadcast' = [broadcast EXCEPT ![k] = b]
      /\ net' = net \cup {AppendRequest(k, 1, b)}
      /\ UNCHANGED <<role, term, log, commitIndex, campaign, result>>
  BY BroadcastNames DEF StartHeartbeat, Leaders, Running, logVars
<1>3. /\ log[n] \in Seq(Entry) /\ Len(log[n]) \in Nat /\ none \in Seq(Entry) /\ Len(none) = 0
      /\ log' = [log EXCEPT ![n] = log[n]]
  BY <1>1, <1>2 DEF TypeOK
<1> HIDE DEF none
<1>4. /\ b \in Broadcast /\ b.node = n /\ b.peer = 1
      /\ b.acks = 1 /\ b.prevIdx = Len(log[n]) - Len(none) /\ b.entries = none
  <2>1. Len(none) <= Len(log[n])
    BY <1>3
  <2>2. b \in Broadcast
    BY <1>2, <1>3, <2>1, NewBroadcastTyped DEF Leaders
  <2> QED
    BY <2>2 DEF NewBroadcast
<1> HIDE DEF b, k
<1>5. b.prevIdx = Len(log[n]) /\ b.entries = << >>
  BY <1>3, <1>4 DEF none
<1>6. Grows(k, n, log[n], log[n], b.entries)
  <2>1. Len(log[n]) = Len(log[n]) + Len(b.entries)
    BY <1>3, <1>4
  <2> QED
    BY <1>5, <2>1 DEF Grows, k
<1> QED
  BY <1>2, <1>3, <1>4, <1>5, <1>6, NewTask

\* A submit adds its command to the leader's log and brings it.
LEMMA StartSubmitLogs ==
  ASSUME InFirstTerm, NEW n \in Node, NEW c \in Cmd, StartSubmit(n, c)
  PROVE  LogInv' /\ Leaders' = Leaders
PROOF
<1> DEFINE k     == Submit(c)
           entry == [term |-> term[n], cmd |-> c]
           lg    == Append(log[n], entry)
           one   == <<entry>>
           b     == NewBroadcast(n, lg, one)
<1>1. TypeOK
  BY DEF InFirstTerm, RaftInv
<1>2. /\ n \in Leaders /\ k \in Broadcasts /\ ~Running(k) /\ result[c] = "none"
      /\ log' = [log EXCEPT ![n] = lg]
      /\ broadcast' = [broadcast EXCEPT ![k] = b]
      /\ net' = net \cup {AppendRequest(k, 1, b)}
      /\ UNCHANGED <<role, term, commitIndex, campaign, result>>
  <2>1. c \notin InFlight
    BY DEF StartSubmit
  <2>2. ~Running(k)
    BY <2>1 DEF InFlight, Running
  <2>3. /\ role[n] = "leader" /\ result[c] = "none"
        /\ log' = [log EXCEPT ![n] = lg]
        /\ broadcast' = [broadcast EXCEPT ![k] = b]
        /\ net' = net \cup {AppendRequest(k, 1, b)}
        /\ UNCHANGED <<role, term, commitIndex, campaign, result>>
    BY DEF StartSubmit
  <2>4. n \in Leaders /\ k \in Broadcasts
    BY <2>3, BroadcastNames DEF Leaders
  <2> HIDE DEF k, lg, b
  <2> QED
    BY <2>2, <2>3, <2>4, Zenon
<1>3. entry \in Entry /\ entry.cmd = c /\ log[n] \in Seq(Entry) /\ Len(log[n]) \in Nat
  <2>1. entry \in Entry /\ log[n] \in Seq(Entry)
    BY <1>1 DEF TypeOK, Entry
  <2> QED
    BY <2>1, LastTermIsNat
<1> HIDE DEF entry
<1>4. /\ lg \in Seq(Entry) /\ one \in Seq(Entry)
      /\ Len(lg) = Len(log[n]) + 1 /\ Len(one) = 1
      /\ lg[Len(log[n]) + 1] = entry
  BY <1>3
<1>5. \A i \in 1 .. Len(log[n]) : lg[i] = log[n][i]
  BY <1>3
<1>6. one = <<lg[Len(log[n]) + 1]>>
  BY <1>4
<1>7. Len(one) <= Len(lg) /\ Len(lg) - Len(one) = Len(log[n])
  BY <1>3, <1>4
<1> HIDE DEF lg, one
<1>8. /\ b \in Broadcast /\ b.node = n /\ b.peer = 1
      /\ b.acks = 1 /\ b.prevIdx = Len(lg) - Len(one) /\ b.entries = one
  BY <1>4, <1>7, NewBroadcastTyped DEF NewBroadcast
<1>9. Grows(k, n, log[n], lg, one)
  <2>1. Len(lg) = Len(log[n]) + Len(one)
    BY <1>4
  <2>2. lg[Len(log[n]) + 1].cmd = c
    BY <1>3, <1>4
  <2>3. \E d \in Cmd : /\ k = Submit(d) /\ result[d] = "none"
                       /\ lg[Len(log[n]) + 1].cmd = d
                       /\ one = <<lg[Len(log[n]) + 1]>>
    BY <1>2, <1>6, <2>2, Zenon
  <2> QED
    BY <1>5, <2>1, <2>3, Zenon DEF Grows
<1> HIDE DEF b, k
<1> QED
  BY <1>2, <1>4, <1>7, <1>8, <1>9, NewTask

-----------------------------------------------------------------------------
(***************************************************************************)
(* Append requests are handled.                                            *)
(***************************************************************************)

\* The log lg after request m, before which it was old.
TakesEntry(m, old, lg) ==
  /\ m.entries # << >> /\ m.prevIdx = Len(old) /\ Len(lg) = Len(old) + 1
  /\ \A i \in 1 .. Len(old) : lg[i] = old[i]
  /\ m.entries = <<lg[Len(old) + 1]>>

\* The log lg has what request m brings.
Holds(m, lg) == m.prevIdx + Len(m.entries) <= Len(lg)

\* Whatever is left under way was so before, but for an answer to m.
LEMMA AnsweredRest ==
  ASSUME NEW m \in net, NEW ok, net' = Answered(m, ok)
  PROVE  \A y \in net' : \/ y \in net /\ y # m
                         \/ y.type = "reply" /\ m.task # NoTask /\ y.task = m.task /\ y.ok = ok
BY DEF Answered, Reply

\* No leader is ever sent a request.
LEMMA AskedFollows ==
  ASSUME InFirstTerm, NEW m \in net, m.type = "append"
  PROVE  /\ m.to \in Node
         /\ \E lead \in Node : Leaders = {lead} /\ Led(lead) /\ Sent(m, lead) /\ m.to # lead
PROOF
<1>1. TypeOK /\ NothingYet /\ \A lead \in Leaders : Led(lead)
  BY DEF InFirstTerm, RaftInv, LogInv
<1>2. PICK lead \in Leaders : Led(lead)
  BY <1>1 DEF NothingYet
<1>3. Leaders = {lead} /\ lead \in Node
  BY <1>2, LeaderIsOne DEF InFirstTerm, Leaders
<1>4. Sent(m, lead) /\ m.to # lead
  BY <1>2 DEF Led, Sent
<1> QED
  BY <1>1, <1>2, <1>3, <1>4, AppendFields

\* Node n answers m, and its log becomes lg.
Handles(n, m, ok, lg) ==
  /\ m.type = "append" /\ n = m.to
  /\ net' = Answered(m, ok)
  /\ log' = [log EXCEPT ![n] = lg]
  /\ lg = log[n] \/ TakesEntry(m, log[n], lg)
  /\ ok => Holds(m, lg)
  /\ \A x \in Node : x # n => /\ commitIndex'[x] = commitIndex[x]
                             /\ role'[x] = role[x] /\ term'[x] = term[x]
  /\ commitIndex'[n] = commitIndex[n] \/ commitIndex'[n] <= m.commit
  /\ role'[n] \in {role[n], "follower"}
  /\ UNCHANGED <<broadcast, result, campaign>>

\* The node that m was sent to takes the entry in its place, or nothing.
LEMMA Handled ==
  ASSUME InFirstTerm, NEW m \in net, NEW ok \in BOOLEAN, NEW lg \in Seq(Entry), NEW n,
         Handles(n, m, ok, lg)
  PROVE  LogInv' /\ Leaders' = Leaders
PROOF
<1>0. /\ m.type = "append" /\ n = m.to /\ net' = Answered(m, ok)
      /\ log' = [log EXCEPT ![n] = lg] /\ UNCHANGED <<broadcast, result, campaign>>
      /\ lg = log[n] \/ TakesEntry(m, log[n], lg)
      /\ ok => Holds(m, lg)
      /\ \A x \in Node : x # n => /\ commitIndex'[x] = commitIndex[x]
                                 /\ role'[x] = role[x] /\ term'[x] = term[x]
      /\ commitIndex'[n] = commitIndex[n] \/ commitIndex'[n] <= m.commit
      /\ role'[n] \in {role[n], "follower"}
  BY DEF Handles
<1> USE <1>0
<1>1. /\ TypeOK /\ TypeOK' /\ LogInv /\ NothingYet /\ Leading /\ Loaded /\ SentOnce
      /\ OneAppendCall /\ AcksAreTrue
  BY DEF InFirstTerm, RaftInv, LogInv
<1>2. PICK lead \in Node : Leaders = {lead} /\ Led(lead) /\ Sent(m, lead) /\ n # lead
  BY AskedFollows
<1>3. n \in Node /\ m.prevIdx \in Nat /\ m.commit \in Nat
  BY <1>1, AppendFields
<1>4. Leaders' = Leaders
  <2>1. \A x \in Node : role'[x] = "leader" <=> role[x] = "leader"
    BY <1>2, <1>3 DEF Leaders
  <2> QED
    BY <2>1 DEF Leaders
<1>5. NothingYet'
  BY <1>2, <1>4 DEF NothingYet
<1>6. Leading'
  <2>1. ASSUME NEW x \in Node, role'[x] = "leader" PROVE term'[x] >= 1 /\ campaign'[x].peer = 0
    <3>1. x # n /\ role[x] = "leader"
      BY <1>2, <1>3, <2>1 DEF Leaders
    <3> QED
      BY <1>1, <3>1 DEF Leading
  <2> QED
    BY <2>1 DEF Leading
<1>7. Loaded'
  BY <1>1 DEF Loaded, Running
<1>8. /\ log'[n] = lg
      /\ \A x \in Node : x # n => log'[x] = log[x]
      /\ \A x \in Node : Len(log[x]) \in Nat /\ Len(log'[x]) \in Nat
  <2>1. log \in [Node -> Seq(Entry)] /\ log' \in [Node -> Seq(Entry)]
    BY <1>1 DEF TypeOK
  <2>2. log'[n] = lg /\ \A x \in Node : x # n => log'[x] = log[x]
    BY <1>3, <2>1
  <2>3. \A x \in Node : Len(log[x]) \in Nat /\ Len(log'[x]) \in Nat
    BY <2>1
  <2> QED
    BY <2>2, <2>3
<1>9. Len(lg) = Len(log[n]) \/ (m.entries # << >> /\ m.prevIdx = Len(log[n])
                                /\ Len(lg) = Len(log[n]) + 1)
  BY DEF TakesEntry
<1>10. \A x \in Node : Len(log[x]) <= Len(log'[x])
  <2>1. Len(log[n]) <= Len(lg)
    BY <1>3, <1>8, <1>9
  <2> QED
    BY <1>8, <2>1
<1>11. ASSUME NEW x \in Node, NEW b \in Broadcast, Took(x, b) PROVE Took(x, b)'
  <2>1. b.prevIdx + Len(b.entries) \in Nat
    BY DEF Broadcast
  <2> QED
    BY <1>8, <1>10, <1>11, <2>1 DEF Took
<1>12. SentOnce'
  <2>1. SUFFICES ASSUME NEW y \in net', y.type = "append", y.entries # << >>
                 PROVE  /\ Len(log'[y.to]) <= y.prevIdx
                        /\ \A x \in net' : Brings(x, y.to, y.prevIdx) => x = y
    BY DEF SentOnce, Brings
  <2>2. y \in net /\ y # m
    BY <2>1, AnsweredRest
  <2>3. y.to \in Node /\ y.prevIdx \in Nat
    BY <1>1, <2>1, <2>2, AppendFields
  <2>4. /\ Len(log[y.to]) <= y.prevIdx
        /\ \A x \in net : Brings(x, y.to, y.prevIdx) => x = y
    BY <1>1, <2>1, <2>2 DEF SentOnce
  <2>5. Len(log'[y.to]) <= y.prevIdx
    <3>1. CASE y.to # n
      BY <1>8, <2>3, <2>4, <3>1
    <3>2. CASE y.to = n /\ Len(lg) = Len(log[n])
      BY <1>8, <2>4, <3>2
    <3>3. CASE y.to = n /\ m.entries # << >> /\ m.prevIdx = Len(log[n])
               /\ Len(lg) = Len(log[n]) + 1
      <4>1. y.prevIdx # m.prevIdx
        BY <2>2, <2>4, <3>3 DEF Brings
      <4> QED
        BY <1>3, <1>8, <2>3, <2>4, <3>3, <4>1
    <3> QED
      BY <1>9, <3>1, <3>2, <3>3
  <2>6. ASSUME NEW x \in net', Brings(x, y.to, y.prevIdx) PROVE x = y
    BY <2>4, <2>6, AnsweredRest DEF Brings
  <2> QED
    BY <2>5, <2>6
<1>13. ASSUME NEW k \in Broadcasts, Running(k), NEW i \in 1 .. broadcast[k].peer
       PROVE  Peers[broadcast[k].node][i] \in Node /\ broadcast[k] \in Broadcast
  <2>1. /\ broadcast[k].node \in Node /\ broadcast[k] \in Broadcast
        /\ broadcast[k].peer \in 1 .. Len(Peers[broadcast[k].node])
        /\ Len(Peers[broadcast[k].node]) \in Nat
    BY <1>13, RunsAtLeader
  <2>2. i \in 1 .. Len(Peers[broadcast[k].node])
    BY <2>1
  <2> QED
    BY <2>1, <2>2, PeerIsNode
<1>14. OneAppendCall'
  <2>1. SUFFICES ASSUME NEW x \in Broadcasts, NEW z \in net', z.task = x
                 PROVE  AwaitsCall(x, z)'
    BY DEF OneAppendCall
  <2>2. CASE z \in net /\ z # m
    <3>1. AwaitsCall(x, z) /\ m.task # x
      BY <1>1, <2>1, <2>2 DEF OneAppendCall, AwaitsCall
    <3>2. Running(x) /\ broadcast[x].peer \in 1 .. broadcast[x].peer
      <4>1. Running(x)
        BY <3>1 DEF AwaitsCall
      <4>2. broadcast[x].peer \in 1 .. Len(Peers[broadcast[x].node])
        BY <4>1, RunsAtLeader
      <4> QED
        BY <4>1, <4>2
    <3>3. Took(Asked(broadcast[x]), broadcast[x]) => Took(Asked(broadcast[x]), broadcast[x])'
      <4>1. Asked(broadcast[x]) \in Node /\ broadcast[x] \in Broadcast
        BY <1>13, <3>2 DEF Asked
      <4> QED
        BY <1>11, <4>1 DEF Took, Asked
    <3>4. \A y \in net' : y.task = x => y \in net
      BY <3>1, AnsweredRest
    <3> QED
      BY <2>2, <3>1, <3>3, <3>4 DEF AwaitsCall, Running, Asked
  <2>3. CASE z.type = "reply" /\ m.task # NoTask /\ z.task = m.task /\ z.ok = ok
    <3>1. AwaitsCall(x, m)
      BY <1>1, <2>1, <2>3 DEF OneAppendCall
    <3>2. /\ Running(x) /\ n = Asked(broadcast[x]) /\ m.prevIdx = broadcast[x].prevIdx
          /\ m.entries = broadcast[x].entries
      BY <3>1 DEF AwaitsCall
    <3>3. \A y \in net' : y.task = x => y = z
      <4>1. \A y \in net : y.task = x => y = m
        BY <3>1 DEF AwaitsCall
      <4>2. z = Reply(m.task, ok)
        BY <2>3, <4>1, <2>1 DEF Answered, Reply
      <4> QED
        BY <4>1, <4>2 DEF Answered
    <3>4. ok => Took(Asked(broadcast[x]), broadcast[x])'
      BY <1>8, <3>2 DEF Took, Asked, Holds
    <3> QED
      BY <2>3, <3>2, <3>3, <3>4 DEF AwaitsCall, Running, Asked
  <2> QED
    BY <2>2, <2>3, AnsweredRest
<1>15. AcksAreTrue'
  <2>1. SUFFICES ASSUME NEW x \in Broadcasts, Running(x)'
                 PROVE  (\E S : AckedBy(broadcast[x], S))'
    BY DEF AcksAreTrue
  <2>2. Running(x)
    BY <2>1 DEF Running
  <2>3. PICK S : AckedBy(broadcast[x], S)
    BY <1>1, <2>2 DEF AcksAreTrue
  <2>4. broadcast[x].peer \in Nat
    BY <1>1 DEF TypeOK, Broadcast
  <2>5. ASSUME NEW i \in S PROVE Took(Peers[broadcast[x].node][i], broadcast[x])'
    <3>1. i \in 1 .. broadcast[x].peer
      BY <2>3, <2>4 DEF AckedBy
    <3>2. Peers[broadcast[x].node][i] \in Node /\ broadcast[x] \in Broadcast
      BY <1>13, <2>2, <3>1
    <3> QED
      BY <1>11, <2>3, <3>2 DEF AckedBy, Took
  <2>6. AckedBy(broadcast[x], S)'
    BY <2>3, <2>5 DEF AckedBy
  <2> QED
    BY <2>6
<1>16. Led(lead)'
  <2>1. log'[lead] = log[lead] /\ commitIndex'[lead] = commitIndex[lead]
    BY <1>2, <1>8
  <2>2. ASSUME NEW x \in Node PROVE Behind(x, lead)'
    <3>1. Behind(x, lead)
      BY <1>2 DEF Led
    <3>2. CASE x # n
      BY <1>8, <2>1, <3>1, <3>2 DEF Behind
    <3>3. CASE x = n
      <4>1. commitIndex'[n] <= commitIndex'[lead]
        <5>1. /\ commitIndex[n] \in Nat /\ commitIndex'[n] \in Nat
              /\ commitIndex[lead] \in Nat
          BY <1>1, <1>3 DEF TypeOK
        <5>2. commitIndex[n] <= commitIndex[lead] /\ m.commit <= commitIndex[lead]
          BY <1>2, <3>1, <3>3 DEF Behind, Sent
        <5> QED
          BY <1>3, <2>1, <5>1, <5>2
      <4>2. CASE lg = log[n]
        BY <1>8, <2>1, <3>1, <3>3, <4>1, <4>2 DEF Behind
      <4>3. CASE TakesEntry(m, log[n], lg)
        <5>1. /\ Len(lg) = Len(log[n]) + 1 /\ m.prevIdx = Len(log[n]) /\ m.entries # << >>
              /\ \A i \in 1 .. Len(log[n]) : lg[i] = log[n][i]
          BY <4>3 DEF TakesEntry
        <5>2. m.entries = <<lg[Len(log[n]) + 1]>>
          BY <4>3 DEF TakesEntry
        <5>3. Len(log[n]) < Len(log[lead])
          BY <1>2, <5>1 DEF Sent, Piece
        <5>4. m.entries = <<log[lead][Len(log[n]) + 1]>>
          BY <1>2, <5>1, Zenon DEF Sent, Piece
        <5>5. lg[Len(log[n]) + 1] = log[lead][Len(log[n]) + 1]
          <6>1. m.entries[1] = lg[Len(log[n]) + 1]
            BY <5>2
          <6>2. m.entries[1] = log[lead][Len(log[n]) + 1]
            BY <5>4
          <6> QED
            BY <6>1, <6>2
        <5>6. Len(lg) <= Len(log[lead])
          BY <1>3, <1>8, <5>1, <5>3
        <5>7. ASSUME NEW i \in 1 .. Len(lg) PROVE lg[i] = log[lead][i]
          <6>1. i \in 1 .. Len(log[n]) \/ i = Len(log[n]) + 1
            BY <1>3, <1>8, <5>1
          <6>2. CASE i \in 1 .. Len(log[n])
            <7>1. log[n][i] = log[lead][i]
              BY <3>1, <3>3, <6>2 DEF Behind
            <7> QED
              BY <5>1, <6>2, <7>1
          <6>3. CASE i = Len(log[n]) + 1
            BY <5>5, <6>3
          <6> QED
            BY <6>1, <6>2, <6>3
        <5> QED
          BY <1>8, <2>1, <3>3, <4>1, <5>6, <5>7 DEF Behind
      <4> QED
        BY <4>2, <4>3
    <3> QED
      BY <3>2, <3>3
  <2>3. ASSUME NEW y \in net', y.type = "append" PROVE Sent(y, lead)'
    <3>1. y \in net
      BY <2>3, AnsweredRest
    <3>2. Sent(y, lead)
      BY <1>2, <2>3, <3>1 DEF Led
    <3> QED
      BY <2>1, <3>2 DEF Sent, Piece
  <2>4. ASSUME NEW x \in Broadcasts, Running(x)' PROVE Sends(x, lead)'
    <3>1. Sends(x, lead) /\ broadcast[x].prevIdx \in Nat /\ broadcast[x].peer \in Nat
      BY <1>1, <1>2, <2>4 DEF Led, Running, TypeOK, Broadcast
    <3>2. ASSUME broadcast[x].entries # << >>,
                 NEW j \in broadcast[x].peer + 1 .. Len(Peers[lead])
          PROVE  Unsent(Peers[lead][j], broadcast[x].prevIdx)'
      <4>1. Unsent(Peers[lead][j], broadcast[x].prevIdx)
        BY <3>1, <3>2 DEF Sends
      <4>2. Peers[lead][j] \in Node
        <5>1. j \in 1 .. Len(Peers[lead])
          BY <1>2, <3>1, <3>2, PeersNotEmpty
        <5> QED
          BY <1>2, <5>1, PeerIsNode
      <4>3. Len(log'[Peers[lead][j]]) <= broadcast[x].prevIdx
        <5>1. CASE Peers[lead][j] # n
          BY <1>8, <4>1, <4>2, <5>1 DEF Unsent
        <5>2. CASE Peers[lead][j] = n /\ Len(lg) = Len(log[n])
          BY <1>8, <4>1, <5>2 DEF Unsent
        <5>3. CASE Peers[lead][j] = n /\ m.entries # << >> /\ m.prevIdx = Len(log[n])
                   /\ Len(lg) = Len(log[n]) + 1
          <6>1. broadcast[x].prevIdx # m.prevIdx /\ Len(log[n]) <= broadcast[x].prevIdx
            BY <4>1, <5>3 DEF Unsent, Brings
          <6> QED
            BY <1>3, <1>8, <3>1, <5>3, <6>1
        <5> QED
          BY <1>9, <5>1, <5>2, <5>3
      <4>4. \A y \in net' : ~Brings(y, Peers[lead][j], broadcast[x].prevIdx)
        BY <4>1, AnsweredRest DEF Unsent, Brings
      <4> QED
        BY <4>3, <4>4 DEF Unsent, Brings
    <3> QED
      BY <2>1, <3>1, <3>2 DEF Sends, Piece
  <2>5. InOrder(lead)'
    BY <1>2, <2>1 DEF Led, InOrder, Running
  <2> QED
    BY <2>2, <2>3, <2>4, <2>5 DEF Led
<1> QED
  BY <1>2, <1>4, <1>5, <1>6, <1>7, <1>12, <1>14, <1>15, <1>16 DEF LogInv

\* A request that is refused leaves the log as it is.
LEMMA RefuseLogs ==
  ASSUME InFirstTerm, NEW m \in net, RejectStale(m) \/ RejectMismatch(m)
  PROVE  LogInv' /\ Leaders' = Leaders
PROOF
<1> PICK n : n = m.to
  OBVIOUS
<1>1. m.type = "append"
  BY DEF RejectStale, RejectMismatch, FollowSender
<1>2. TypeOK /\ n \in Node
  BY <1>1, AskedFollows DEF InFirstTerm, RaftInv
<1>3. /\ net' = Answered(m, FALSE)
      /\ UNCHANGED <<log, commitIndex, broadcast, result, campaign>>
      /\ \A x \in Node : x # n => role'[x] = role[x] /\ term'[x] = term[x]
      /\ role'[n] \in {role[n], "follower"}
  BY <1>2 DEF RejectStale, RejectMismatch, FollowSender, logVars, taskVars, TypeOK
<1>4. log[n] \in Seq(Entry) /\ log' = [log EXCEPT ![n] = log[n]]
  BY <1>2, <1>3 DEF TypeOK
<1>5. Handles(n, m, FALSE, log[n])
  BY <1>1, <1>2, <1>3, <1>4 DEF Handles
<1> QED
  BY <1>4, <1>5, Handled

\* A log that a request matches ends where its entry goes.
LEMMA AcceptedEntries ==
  ASSUME InFirstTerm, NEW m \in net, AcceptEntries(m)
  PROVE  LET n  == m.to
             lg == Extended(log[n], m)
         IN  /\ m.type = "append" /\ n \in Node
             /\ lg \in Seq(Entry)
             /\ lg = log[n] \/ TakesEntry(m, log[n], lg)
             /\ Holds(m, lg)
PROOF
<1> PICK n : n = m.to
  OBVIOUS
<1>1. m.type = "append" /\ PrevMatches(m, log[n])
  BY DEF AcceptEntries, FollowSender
<1>2. /\ TypeOK /\ n \in Node /\ log[n] \in Seq(Entry) /\ m.prevIdx \in Nat
      /\ m.entries \in Seq(Entry) /\ Len(log[n]) \in Nat
  <2>1. TypeOK /\ n \in Node
    BY <1>1, AskedFollows DEF InFirstTerm, RaftInv
  <2>2. log[n] \in Seq(Entry)
    BY <2>1 DEF TypeOK
  <2> QED
    BY <1>1, <2>1, <2>2, AppendFields, LastTermIsNat
<1>3. m.prevIdx > 0 => m.prevIdx <= Len(log[n])
  BY <1>1 DEF PrevMatches
<1>4. CASE m.entries = << >>
  <2>1. Extended(log[n], m) = log[n]
    BY <1>2, <1>4 DEF Extended
  <2> QED
    BY <1>1, <1>2, <1>3, <1>4, <2>1 DEF Holds
<1>5. CASE m.entries # << >>
  <2>1. Len(log[n]) <= m.prevIdx
    BY <1>1, <1>5 DEF InFirstTerm, LogInv, SentOnce
  <2>2. m.prevIdx = Len(log[n])
    BY <1>2, <1>3, <2>1
  <2>3. PICK e : m.entries = <<e>>
    BY <1>1, <1>5, AskedFollows DEF Sent, Piece
  <2>4. e \in Entry
    <3>1. m.entries[1] = e /\ 1 \in 1 .. Len(m.entries)
      BY <2>3
    <3> QED
      BY <1>2, <3>1
  <2> PICK lg : lg = Append(log[n], e)
    OBVIOUS
  <2>5. Extended(log[n], m) = lg
    BY <1>2, <2>3, <2>4 DEF Extended
  <2>6. /\ lg \in Seq(Entry) /\ Len(lg) = Len(log[n]) + 1
        /\ lg[Len(log[n]) + 1] = e
    BY <1>2, <2>4
  <2>7. \A i \in 1 .. Len(log[n]) : lg[i] = log[n][i]
    BY <1>2, <2>4
  <2>8. m.entries = <<lg[Len(log[n]) + 1]>>
    BY <2>3, <2>6
  <2>9. TakesEntry(m, log[n], lg)
    BY <1>5, <2>2, <2>6, <2>7, <2>8, Zenon DEF TakesEntry
  <2>10. Len(m.entries) = 1
    BY <2>3
  <2>11. m.prevIdx + Len(m.entries) <= Len(lg)
    BY <1>2, <2>2, <2>6, <2>10
  <2> QED
    BY <1>1, <1>2, <2>5, <2>6, <2>9, <2>11 DEF Holds
<1> QED
  BY <1>4, <1>5

\* The commit index follows the sender's, but never overtakes it.
LEMMA CommitFollows ==
  ASSUME NEW mine \in Nat, NEW leaders \in Nat, NEW len \in Nat
  PROVE  NewCommit(mine, leaders, len) = mine \/ NewCommit(mine, leaders, len) <= leaders
BY DEF NewCommit

\* A request is accepted.
LEMMA AcceptLogs ==
  ASSUME InFirstTerm, NEW m \in net, AcceptEntries(m)
  PROVE  LogInv' /\ Leaders' = Leaders
PROOF
<1> PICK n : n = m.to
  OBVIOUS
<1> PICK lg : lg = Extended(log[n], m)
  OBVIOUS
<1>1. /\ m.type = "append" /\ n \in Node /\ lg \in Seq(Entry)
      /\ lg = log[n] \/ TakesEntry(m, log[n], lg)
      /\ Holds(m, lg)
  BY AcceptedEntries
<1>2. TypeOK /\ m.commit \in Nat /\ Len(lg) \in Nat
  BY <1>1, AppendFields, LastTermIsNat DEF InFirstTerm, RaftInv
<1> PICK commit : commit = NewCommit(commitIndex[n], m.commit, Len(lg))
  OBVIOUS
<1>3. /\ net' = Answered(m, TRUE) /\ log' = [log EXCEPT ![n] = lg]
      /\ commitIndex' = [commitIndex EXCEPT ![n] = commit]
      /\ role' = [role EXCEPT ![n] = "follower"]
      /\ term' = [term EXCEPT ![n] = m.term]
      /\ UNCHANGED <<broadcast, result, campaign>>
  BY DEF AcceptEntries, FollowSender, taskVars
<1>4. commit = commitIndex[n] \/ commit <= m.commit
  <2>1. commitIndex[n] \in Nat
    BY <1>1, <1>2 DEF TypeOK
  <2> QED
    BY <1>2, <2>1, CommitFollows
<1>5. /\ \A x \in Node : x # n => commitIndex'[x] = commitIndex[x]
      /\ commitIndex'[n] = commitIndex[n] \/ commitIndex'[n] <= m.commit
  BY <1>1, <1>2, <1>3, <1>4 DEF TypeOK
<1>6. /\ \A x \in Node : x # n => role'[x] = role[x] /\ term'[x] = term[x]
      /\ role'[n] \in {role[n], "follower"}
  BY <1>1, <1>2, <1>3 DEF TypeOK
<1>7. /\ net' = Answered(m, TRUE) /\ log' = [log EXCEPT ![n] = lg]
      /\ UNCHANGED <<broadcast, result, campaign>>
  BY <1>3
<1>8. Handles(n, m, TRUE, lg)
  BY <1>1, <1>5, <1>6, <1>7 DEF Handles
<1> QED
  BY <1>1, <1>8, Handled

-----------------------------------------------------------------------------
(***************************************************************************)
(* The invariant of the first term.                                        *)
(***************************************************************************)

\* Every step of the running processes keeps the invariant and the leader.
LEMMA RunLogs ==
  ASSUME InFirstTerm, Run
  PROVE  LogInv' /\ (Leaders' = Leaders \/ Leaders = {})
PROOF
<1>1. ASSUME NEW n \in Node, StartElection(n) \/ VoteReturns(n) \/ VoteTimesOut(n)
      PROVE  LogInv' /\ (Leaders' = Leaders \/ Leaders = {})
  BY <1>1, StartElectionLogs, ElectionCallLogs
<1>2. ASSUME NEW n \in Node, StartHeartbeat(n) \/ \E c \in Cmd : StartSubmit(n, c)
      PROVE  LogInv' /\ Leaders' = Leaders
  BY <1>2, StartHeartbeatLogs, StartSubmitLogs
<1>3. ASSUME NEW k \in Broadcasts, AppendReturns(k) \/ AppendTimesOut(k)
      PROVE  LogInv' /\ Leaders' = Leaders
  BY <1>3, AppendCallLogs
<1>4. ASSUME NEW m \in net,
             HandleRequestVote(m) \/ RejectStale(m) \/ RejectMismatch(m) \/ AcceptEntries(m)
      PROVE  LogInv' /\ Leaders' = Leaders
  BY <1>4, HandleRequestVoteLogs, RefuseLogs, AcceptLogs
<1> QED
  BY <1>1, <1>2, <1>3, <1>4 DEF Run

SoFar == RaftInv /\ ElectInv /\ OneLeader /\ (FirstTerm => LogInv)

TermsStand == \A n \in Node : life'[n] = life[n] => term'[n] >= term[n]

\* The first term is left for good.
LEMMA StaysFirst ==
  ASSUME SoFar, RaftInv', OneLeader', Next, TermsStand, FirstTerm'
  PROVE  InFirstTerm /\ Run
PROOF
<1>1. TypeOK /\ TypeOK'
  BY DEF SoFar, RaftInv
<1>2. ASSUME NEW n \in Node, Restart(n) PROVE FALSE
  <2>1. life' = [life EXCEPT ![n] = @ + 1] /\ life'[n] = 0
    BY <1>2 DEF Restart, FirstTerm
  <2> QED
    BY <1>1, <2>1 DEF TypeOK
<1>3. Run /\ UNCHANGED life
  BY <1>2 DEF Next
<1>4. FirstTerm
  <2>1. ASSUME NEW n \in Node PROVE term[n] <= 1 /\ life[n] = 0
    <3>1. term'[n] <= 1 /\ life'[n] = 0 /\ life'[n] = life[n] /\ term'[n] >= term[n]
      BY <1>3 DEF FirstTerm, TermsStand
    <3>2. term[n] \in Nat /\ term'[n] \in Nat
      BY <1>1 DEF TypeOK
    <3> QED
      BY <3>1, <3>2
  <2> QED
    BY <2>1 DEF FirstTerm
<1> QED
  BY <1>3, <1>4 DEF InFirstTerm, SoFar, OneLeader

\* Nothing happens.
LEMMA StutterLogs == ASSUME LogInv, UNCHANGED vars PROVE LogInv'
PROOF
<1>1. UNCHANGED <<log, commitIndex, broadcast, result, net, role, term, campaign>>
  BY DEF vars, logVars, taskVars
<1>2. NoNewAppends /\ Leaders' = Leaders /\ Leading'
  BY <1>1 DEF NoNewAppends, Leaders, Leading, LogInv
<1> QED
  BY <1>1, <1>2, QuietLog

\* What is known of every state, and that terms grow.
THEOREM FirstTermLog == Spec => []SoFar /\ [][TermsStand]_vars
PROOF
<1>1. Init => (FirstTerm => LogInv)
  <2>1. SUFFICES ASSUME Init PROVE LogInv
    OBVIOUS
  <2>2. Leaders = {} /\ (\A k \in Broadcasts : ~Running(k)) /\ net = {}
    BY <2>1 DEF Init, Leaders, Running, IdleBroadcast
  <2>3. NothingYet /\ Leading
    BY <2>1, <2>2 DEF Init, NothingYet, Leading, IdleCampaign
  <2>4. Loaded
    BY <2>2, BroadcastNames DEF Loaded
  <2> QED
    BY <2>2, <2>3, <2>4 DEF LogInv, SentOnce, OneAppendCall, AcksAreTrue
<1>2. /\ RaftInv /\ RaftInv' /\ ElectInv /\ OneLeader /\ OneLeader' /\ (FirstTerm => LogInv)
      /\ [Next]_vars /\ [TermsStand]_vars
      => (FirstTerm => LogInv)'
  <2>1. SUFFICES ASSUME SoFar, RaftInv', OneLeader', [Next]_vars, [TermsStand]_vars, FirstTerm'
                 PROVE  LogInv'
    BY DEF SoFar
  <2>2. CASE UNCHANGED vars
    <3>1. FirstTerm
      BY <2>1, <2>2 DEF FirstTerm, vars
    <3> QED
      BY <2>1, <2>2, <3>1, StutterLogs DEF SoFar
  <2>3. CASE Next /\ TermsStand
    BY <2>1, <2>3, StaysFirst, RunLogs
  <2> QED
    BY <2>1, <2>2, <2>3
<1>3. VotesStand => [][TermsStand]_vars
  <2>1. ASSUME [\A n \in Node : life'[n] = life[n] =>
                  /\ term'[n] >= term[n]
                  /\ votedFor'[n] # votedFor[n] /\ votedFor[n] # None => term'[n] > term[n]]_vars
        PROVE  [TermsStand]_vars
    BY <2>1 DEF TermsStand
  <2> QED
    BY <2>1, PTL DEF VotesStand
<1> QED
  BY <1>1, <1>2, <1>3, RaftInvariant, ElectInvariant, FirstTermHasOneLeader,
     VotesNeverChange, PTL DEF Spec, SoFar

\* In the first term no follower holds an entry that the leader does not have
\* at the same place, and applied entries are the same everywhere.
THEOREM FollowersHoldPrefixes == Spec => []FollowersAgree
PROOF
<1>1. SoFar => FollowersAgree
  <2>1. SUFFICES ASSUME SoFar, FirstTerm PROVE FollowersBehind /\ StateMachineSafety
    BY DEF FollowersAgree
  <2>2. TypeOK /\ LogInv /\ CommittedIsApplied /\ NothingYet
    BY <2>1 DEF SoFar, RaftInv, LogInv
  <2>3. FollowersBehind
    BY <2>2 DEF FollowersBehind, LogInv, Led, Behind, Leaders
  <2>4. ASSUME NEW m \in Node, NEW n \in Node, NEW i \in Applied(m) \cap Applied(n)
        PROVE  log[m][i] = log[n][i]
    <3>1. i \in 1 .. Len(log[m]) /\ i \in 1 .. Len(log[n])
      BY DEF Applied
    <3>2. Len(log[m]) # 0
      <4>1. Len(log[m]) \in Nat
        BY <2>2 DEF TypeOK
      <4> QED
        BY <3>1, <4>1
    <3>3. PICK lead \in Leaders : Led(lead)
      <4>1. log[m] # << >>
        BY <3>2
      <4> QED
        BY <2>2, <4>1 DEF NothingYet, LogInv
    <3>4. log[m][i] = log[lead][i] /\ log[n][i] = log[lead][i]
      BY <3>1, <3>3 DEF Led, Behind
    <3> QED
      BY <3>4
  <2>5. StateMachineSafety
    BY <2>4 DEF StateMachineSafety
  <2> QED
    BY <2>3, <2>5
<1> QED
  BY <1>1, FirstTermLog, PTL

-----------------------------------------------------------------------------
(***************************************************************************)
(* The replication core implements CommandLog.                             *)
(***************************************************************************)

\* The commands of a log, one for every entry.
LEMMA CommandsOf ==
  ASSUME NEW lg \in Seq(Entry)
  PROVE  /\ Commands(lg) \in Seq(Cmd) /\ Len(Commands(lg)) = Len(lg) /\ Len(lg) \in Nat
         /\ \A i \in 1 .. Len(lg) : Commands(lg)[i] = lg[i].cmd
PROOF
<1>1. Len(lg) \in Nat /\ DOMAIN lg = 1 .. Len(lg)
  <2>1. Len(lg) \in Nat /\ lg \in [1 .. Len(lg) -> Entry]
    BY LenProperties
  <2> QED
    BY <2>1
<1>2. \A i \in 1 .. Len(lg) : lg[i].cmd \in Cmd
  <2>1. \A i \in 1 .. Len(lg) : lg[i] \in Entry
    BY ElementOfSeq
  <2> QED
    BY <2>1 DEF Entry
<1>3. Commands(lg) \in [1 .. Len(lg) -> Cmd]
  BY <1>1, <1>2 DEF Commands
<1>4. Commands(lg) \in Seq(Cmd)
  BY <1>1, <1>3, SeqDef
<1>5. DOMAIN Commands(lg) = 1 .. Len(lg) /\ DOMAIN Commands(lg) = 1 .. Len(Commands(lg))
  BY <1>3, <1>4, LenProperties
<1>6. Len(Commands(lg)) = Len(lg)
  BY <1>1, <1>4, <1>5
<1> QED
  BY <1>1, <1>4, <1>6 DEF Commands

\* One more entry is one more command.
LEMMA CommandsGrow ==
  ASSUME NEW lg \in Seq(Entry), NEW e \in Entry
  PROVE  Commands(Append(lg, e)) = Append(Commands(lg), e.cmd)
PROOF
<1> DEFINE s == Commands(Append(lg, e))
           t == Append(Commands(lg), e.cmd)
<1>1. /\ Append(lg, e) \in Seq(Entry) /\ Len(Append(lg, e)) = Len(lg) + 1
      /\ Append(lg, e)[Len(lg) + 1] = e
  OBVIOUS
<1>2. \A i \in 1 .. Len(lg) : Append(lg, e)[i] = lg[i]
  OBVIOUS
<1>3. /\ Commands(lg) \in Seq(Cmd) /\ Len(Commands(lg)) = Len(lg) /\ e.cmd \in Cmd
      /\ Len(lg) \in Nat
      /\ \A i \in 1 .. Len(lg) : Commands(lg)[i] = lg[i].cmd
  BY CommandsOf DEF Entry
<1>4. /\ s \in Seq(Cmd) /\ Len(s) = Len(lg) + 1
      /\ \A i \in 1 .. Len(lg) + 1 : s[i] = Append(lg, e)[i].cmd
  BY <1>1, CommandsOf
<1>5. t \in Seq(Cmd) /\ Len(t) = Len(lg) + 1 /\ t[Len(lg) + 1] = e.cmd
  BY <1>3
<1>6. \A i \in 1 .. Len(lg) : t[i] = Commands(lg)[i]
  BY <1>3
<1>7. ASSUME NEW i \in 1 .. Len(s) PROVE s[i] = t[i]
  <2>1. CASE i \in 1 .. Len(lg)
    <3>1. i \in 1 .. Len(lg) + 1
      BY <1>3, <2>1
    <3>2. s[i] = lg[i].cmd
      BY <1>2, <1>4, <2>1, <3>1
    <3> QED
      BY <1>3, <1>6, <2>1, <3>2
  <2>2. CASE i = Len(lg) + 1
    <3>1. i \in 1 .. Len(lg) + 1
      BY <1>3, <2>2
    <3> QED
      BY <1>1, <1>4, <1>5, <2>2, <3>1
  <2> QED
    BY <1>3, <1>4, <2>1, <2>2
<1> HIDE DEF s, t
<1>8. s = t
  BY <1>4, <1>5, <1>7, SeqEqual
<1> QED
  BY <1>8 DEF s, t

\* The mapped log and lengths.
Order == IF Leaders = {} THEN << >> ELSE Commands(log[TheLeader])

Have == [n \in Node |-> Len(log[n])]

\* The leader is the one that leads.
LEMMA TheLeaderIs ==
  ASSUME NEW lead \in Node, Leaders = {lead}
  PROVE  TheLeader = lead /\ TheLeader # None /\ Order = Commands(log[lead])
BY NoneIsNoNode DEF TheLeader, Order

\* Steps that move neither a log, nor a leader, nor an answer.
LEMMA QuietMaps ==
  ASSUME Leaders' = Leaders, UNCHANGED <<log, lastApplied, result>>
  PROVE  UNCHANGED Abstract!logState
BY DEF Abstract!logState, TheLeader, Commands

\* A leader appears, over empty logs.
LEMMA ElectMaps ==
  ASSUME NEW n \in Node, Leaders = {}, Leaders' = {n}, TypeOK,
         \A x \in Node : log[x] = << >>, UNCHANGED <<log, lastApplied, result>>
  PROVE  Abstract!Elect(n)
PROOF
<1>1. TheLeader = None /\ TheLeader' = n
  BY DEF TheLeader
<1>2. Order = << >> /\ Order' = << >>
  <2>1. Commands(log[n]) = << >>
    <3>1. log[n] \in Seq(Entry) /\ Len(log[n]) = 0
      BY DEF TypeOK
    <3> QED
      BY <3>1, CommandsOf, EmptySeq
  <2> QED
    BY <1>1, <2>1 DEF Order, Commands
<1> QED
  BY <1>1, <1>2 DEF Abstract!Elect, Order, Commands

\* A submit is a submit.
LEMMA SubmitMaps ==
  ASSUME InFirstTerm, NEW n \in Node, NEW c \in Cmd, StartSubmit(n, c)
  PROVE  Abstract!Submit(c)
PROOF
<1> DEFINE entry == [term |-> term[n], cmd |-> c]
<1>1. TypeOK /\ LogInv
  BY DEF InFirstTerm, RaftInv
<1>2. /\ role[n] = "leader" /\ result[c] = "none" /\ c \notin InFlight
      /\ log' = [log EXCEPT ![n] = Append(log[n], entry)]
      /\ UNCHANGED <<role, lastApplied, result>>
  BY DEF StartSubmit
<1>3. Leaders = {n} /\ Leaders' = {n}
  BY <1>2, LeaderIsOne DEF InFirstTerm, Leaders
<1>4. TheLeader = n /\ TheLeader # None /\ Order = Commands(log[n])
  BY <1>3, TheLeaderIs
<1>5. TheLeader' = n
  BY <1>3 DEF TheLeader
<1>6. log[n] \in Seq(Entry) /\ entry \in Entry /\ entry.cmd = c /\ log \in [Node -> Seq(Entry)]
  <2>1. log[n] \in Seq(Entry) /\ log \in [Node -> Seq(Entry)] /\ term[n] \in Nat
    BY <1>1 DEF TypeOK
  <2> QED
    BY <2>1 DEF Entry
<1> HIDE DEF entry
<1>7. Order' = Append(Order, c)
  <2>1. Order' = Commands(log'[n])
    BY <1>3, <1>5 DEF Order, Commands
  <2>2. log'[n] = Append(log[n], entry)
    BY <1>2, <1>6
  <2> QED
    BY <1>4, <1>6, <2>1, <2>2, CommandsGrow
<1>8. Have' = [Have EXCEPT ![n] = Len(Order) + 1]
  <2>1. Len(log'[n]) = Len(Order) + 1
    <3>1. Len(Append(log[n], entry)) = Len(log[n]) + 1
      BY <1>6
    <3> QED
      BY <1>2, <1>4, <1>6, <3>1, CommandsOf
  <2>2. \A x \in Node : x # n => Len(log'[x]) = Len(log[x])
    BY <1>2, <1>6
  <2> QED
    BY <2>1, <2>2 DEF Have
<1>9. \A i \in 1 .. Len(Order) : Order[i] # c
  <2>1. ~Running(Submit(c)) /\ Led(n)
    BY <1>1, <1>2, <1>3 DEF InFlight, Running, LogInv
  <2>2. \A i \in 1 .. Len(log[n]) : log[n][i].cmd # c
    BY <1>2, <2>1 DEF Led, InOrder
  <2> QED
    BY <1>4, <1>6, <2>2, CommandsOf
<1>10. c \notin {Order[i] : i \in 1 .. Len(Order)}
  BY <1>9
<1> QED
  BY <1>2, <1>4, <1>5, <1>7, <1>8, <1>10
     DEF Abstract!Submit, Abstract!Submitted, Order, Have

\* An accepted request is received.
LEMMA ReceiveMaps ==
  ASSUME InFirstTerm, LogInv', Leaders' = Leaders, NEW m \in net, AcceptEntries(m)
  PROVE  Abstract!Receive(m.to)
PROOF
<1> PICK n : n = m.to
  OBVIOUS
<1> PICK lg : lg = Extended(log[n], m)
  OBVIOUS
<1>1. /\ m.type = "append" /\ n \in Node /\ lg \in Seq(Entry)
      /\ lg = log[n] \/ TakesEntry(m, log[n], lg)
  BY AcceptedEntries
<1>2. PICK lead \in Node : Leaders = {lead} /\ n # lead
  BY <1>1, AskedFollows
<1>3. /\ TypeOK /\ TypeOK' /\ CommittedIsApplied /\ CommittedIsApplied'
      /\ Behind(n, lead)'
  BY <1>1, <1>2 DEF InFirstTerm, RaftInv, LogInv, Led
<1>4. PICK commit :
        /\ log' = [log EXCEPT ![n] = lg]
        /\ commitIndex' = [commitIndex EXCEPT ![n] = commit]
        /\ lastApplied' = [lastApplied EXCEPT ![n] = IF @ < commit THEN commit ELSE @]
  BY DEF AcceptEntries
<1>5. UNCHANGED result
  BY DEF AcceptEntries, FollowSender, taskVars
<1>6. /\ log'[n] = lg /\ log'[lead] = log[lead] /\ commitIndex'[lead] = commitIndex[lead]
      /\ \A x \in Node : x # n => log'[x] = log[x]
      /\ lastApplied' = [lastApplied EXCEPT ![n] = lastApplied'[n]]
      /\ lastApplied'[n] >= lastApplied[n]
  <2>1. /\ log \in [Node -> Seq(Entry)] /\ commitIndex \in [Node -> Nat]
        /\ lastApplied \in [Node -> Nat] /\ lastApplied' \in [Node -> Nat]
    BY <1>3 DEF TypeOK
  <2>2. log'[n] = lg /\ \A x \in Node : x # n => log'[x] = log[x]
    BY <1>1, <1>4, <2>1
  <2>3. commitIndex'[lead] = commitIndex[lead]
    BY <1>2, <1>4, <2>1
  <2>4. lastApplied' = [lastApplied EXCEPT ![n] = lastApplied'[n]]
    BY <1>1, <1>4, <2>1
  <2>5. lastApplied'[n] = IF lastApplied[n] < commit THEN commit ELSE lastApplied[n]
    BY <1>1, <1>4, <2>1
  <2>6. lastApplied'[n] >= lastApplied[n]
    BY <1>1, <2>1, <2>5
  <2> QED
    BY <1>2, <2>2, <2>3, <2>4, <2>6
<1>7. TheLeader = lead /\ TheLeader # None /\ Order = Commands(log[lead])
  BY <1>2, TheLeaderIs
<1>8. TheLeader' = lead /\ Order' = Order
  BY <1>2, <1>6, <1>7 DEF TheLeader, Order, Commands
<1>9. /\ Len(Order) = Len(log[lead]) /\ Len(Order) \in Nat
      /\ Len(log[n]) \in Nat /\ Len(lg) \in Nat
  <2>1. log[lead] \in Seq(Entry) /\ log[n] \in Seq(Entry)
    BY <1>1, <1>3 DEF TypeOK
  <2> QED
    BY <1>1, <1>7, <2>1, CommandsOf
<1> DEFINE len  == Len(lg)
           done == lastApplied'[n]
<1>10. len \in {Have[n], Have[n] + 1} /\ len <= Len(Order)
  <2>1. len = Len(log[n]) \/ len = Len(log[n]) + 1
    BY <1>1 DEF TakesEntry
  <2>2. len <= Len(log'[lead])
    BY <1>3, <1>6 DEF Behind
  <2> QED
    BY <1>1, <1>6, <1>9, <2>1, <2>2 DEF Have
<1>11. done \in lastApplied[n] .. lastApplied[lead] /\ done <= len
  <2>1. /\ done \in Nat /\ lastApplied[n] \in Nat /\ lastApplied[lead] \in Nat
        /\ commitIndex[lead] \in Nat
    BY <1>1, <1>3 DEF TypeOK
  <2>2. done = commitIndex'[n] /\ commitIndex'[n] <= Len(lg)
        /\ lastApplied[lead] = commitIndex[lead]
    BY <1>1, <1>3, <1>6 DEF CommittedIsApplied
  <2>3. commitIndex'[n] <= commitIndex'[lead]
    BY <1>3 DEF Behind
  <2> QED
    BY <1>6, <2>1, <2>2, <2>3
<1>12. Have' = [Have EXCEPT ![n] = len]
  BY <1>1, <1>6 DEF Have
<1>13. lastApplied' = [lastApplied EXCEPT ![n] = done]
  BY <1>6
<1> HIDE DEF len, done
<1>14. Abstract!Receive(n)
  BY <1>2, <1>5, <1>7, <1>8, <1>10, <1>11, <1>12, <1>13 DEF Abstract!Receive, Order, Have
<1> QED
  BY <1>14

\* The end of a submit is its success, with the entry at a majority, or its
\* failure.
LEMMA FinishMaps ==
  ASSUME InFirstTerm, NEW c \in Cmd, NEW k, k = Submit(c), Running(k), NEW b, b = broadcast[k],
         ~(b.peer < Len(Peers[b.node])), NEW acks, AcksAfter(b, acks),
         FinishSubmit(c, b.node, acks), Leaders' = Leaders, UNCHANGED log
  PROVE  Abstract!Succeed(c) \/ Abstract!Fail(c)
PROOF
<1> PICK lead : lead = b.node
  OBVIOUS
<1> PICK i : i = b.prevIdx + 1
  OBVIOUS
<1>1. /\ TypeOK /\ LogInv /\ Loaded /\ AcksAreTrue /\ CommittedIsApplied /\ k \in Broadcasts
  BY BroadcastNames DEF InFirstTerm, RaftInv, LogInv
<1>2. /\ lead \in Node /\ Leaders = {lead} /\ Led(lead) /\ Sends(k, lead) /\ b \in Broadcast
      /\ b.peer \in 1 .. Len(Peers[lead]) /\ Len(Peers[lead]) \in Nat
  BY <1>1, RunsAtLeader
<1>3. result[c] = "none" /\ Len(b.entries) = 1 /\ b.entries[1].cmd = c
  BY <1>1 DEF Loaded
<1>4. b.prevIdx \in Nat /\ b.entries # << >>
  BY <1>2, <1>3 DEF Broadcast
<1>5. Len(log[lead]) \in Nat /\ log[lead] \in Seq(Entry)
  <2>1. log[lead] \in Seq(Entry)
    BY <1>1, <1>2 DEF TypeOK
  <2> QED
    BY <2>1, CommandsOf
<1>6. i \in 1 .. Len(log[lead]) /\ log[lead][i].cmd = c
  <2>1. b.prevIdx < Len(log[lead])
    BY <1>2, <1>4 DEF Sends, Piece
  <2>2. b.entries = <<log[lead][b.prevIdx + 1]>>
    BY <1>2, <1>4, Zenon DEF Sends, Piece
  <2>3. log[lead][i].cmd = c
    BY <1>3, <2>2
  <2>4. i \in 1 .. Len(log[lead])
    BY <1>4, <1>5, <2>1
  <2> QED
    BY <2>3, <2>4
<1>7. TheLeader = lead /\ TheLeader # None /\ Order = Commands(log[lead])
  BY <1>2, TheLeaderIs
<1>8. TheLeader' = lead /\ Order' = Order /\ Have' = Have
  BY <1>7 DEF TheLeader, Order, Have, Commands
<1>9. /\ Len(Order) = Len(log[lead]) /\ i \in 1 .. Len(Order) /\ Order[i] = c
      /\ \A j \in 1 .. Len(Order) : Order[j] = c => j = i
  <2>1. /\ Len(Order) = Len(log[lead])
        /\ \A j \in 1 .. Len(log[lead]) : Order[j] = log[lead][j].cmd
    BY <1>5, <1>7, CommandsOf
  <2>2. \A j \in 1 .. Len(log[lead]) : log[lead][j].cmd = c => j = i
    BY <1>2, <1>6 DEF Led, InOrder
  <2> QED
    BY <1>6, <2>1, <2>2
<1>10. c \in {Order[j] : j \in 1 .. Len(Order)}
  BY <1>9
<1>11. Abstract!Pending(c)
  BY <1>3, <1>10 DEF Abstract!Pending, Abstract!Submitted, Order
<1>12. Abstract!Position(c) = i
  <2>1. (CHOOSE j \in 1 .. Len(Order) : Order[j] = c) = i
    BY <1>9
  <2> QED
    BY <2>1 DEF Abstract!Position, Order
<1>13. CASE IsMajority(lead, acks)
  <2>1. /\ lastApplied' = [lastApplied EXCEPT ![lead] =
                             IF @ < Len(log[lead]) THEN Len(log[lead]) ELSE @]
        /\ result' = [result EXCEPT ![c] = "ok"]
    BY <1>13 DEF FinishSubmit, CommitAll
  <2>2. lastApplied' = [lastApplied EXCEPT ![lead] = Len(Order)]
    <3>1. /\ lastApplied \in [Node -> Nat] /\ lastApplied[lead] \in Nat
          /\ lastApplied[lead] <= Len(log[lead])
      BY <1>1, <1>2 DEF CommittedIsApplied, TypeOK
    <3>2. (IF lastApplied[lead] < Len(log[lead]) THEN Len(log[lead]) ELSE lastApplied[lead])
            = Len(Order)
      BY <1>5, <1>9, <3>1
    <3> QED
      BY <2>1, <3>2
  <2>3. PICK S : AckedBy(b, S)
    BY <1>1 DEF AcksAreTrue
  <2>4. PICK T : /\ T \subseteq 1 .. b.peer /\ acks = Cardinality(T) + 1
                 /\ \A j \in T : Took(Peers[b.node][j], b)
    <3>1. b.peer >= 1 /\ (acks = b.acks \/ (acks = b.acks + 1 /\ Took(Asked(b), b)))
      BY <1>2 DEF AcksAfter
    <3> QED
      BY <1>2, <2>3, <3>1, AckCounts
  <2>5. T \subseteq 1 .. Len(Peers[lead])
    BY <1>2, <2>4
  <2> DEFINE Q == {lead} \cup {Peers[lead][j] : j \in T}
  <2>6. Q \in Quorum
    BY <1>2, <1>13, <2>4, <2>5, VotesMakeQuorum
  <2>7. ASSUME NEW x \in Q PROVE x \in Node /\ i <= Have[x]
    <3>1. x \in Node
      BY <2>6 DEF Quorum
    <3>2. CASE x = lead
      BY <1>2, <1>6, <3>1, <3>2 DEF Have
    <3>3. CASE x \in {Peers[lead][j] : j \in T}
      <4>1. b.prevIdx + Len(b.entries) <= Len(log[x])
        BY <2>4, <3>3 DEF Took
      <4> QED
        BY <1>3, <1>4, <3>1, <4>1 DEF Have
    <3> QED
      BY <3>2, <3>3
  <2> HIDE DEF Q
  <2>8. Q \in Abstract!Majorities
    <3>1. Quorum = Abstract!Majorities
      BY Zenon DEF Quorum, Abstract!Majorities, Cardinality, Abstract!Cardinality
    <3> QED
      BY <2>6, <3>1
  <2>9. \E maj \in Abstract!Majorities : \A x \in maj : Abstract!Position(c) <= Have[x]
    <3>1. \A x \in Q : Abstract!Position(c) <= Have[x]
      BY <1>12, <2>7
    <3> QED
      BY <2>8, <3>1
  <2>10. /\ lastApplied' = [lastApplied EXCEPT ![TheLeader] = Len(Order)]
         /\ UNCHANGED <<TheLeader, Order, Have>>
    BY <1>7, <1>8, <2>2
  <2>11. Abstract!Succeed(c)
    BY <1>11, <2>1, <2>9, <2>10, Zenon DEF Abstract!Succeed, Order, Have
  <2> QED
    BY <2>11
<1>14. CASE ~IsMajority(lead, acks)
  <2>1. result' = [result EXCEPT ![c] = "failed"] /\ UNCHANGED lastApplied
    BY <1>14 DEF FinishSubmit
  <2> QED
    BY <1>7, <1>8, <1>11, <2>1 DEF Abstract!Fail, Order, Have
<1> QED
  BY <1>13, <1>14

\* The call of a broadcast has ended: nothing to see, or the end of a submit.
LEMMA AppendCallMaps ==
  ASSUME InFirstTerm, NEW k \in Broadcasts, AppendReturns(k) \/ AppendTimesOut(k)
  PROVE  UNCHANGED Abstract!logState \/ Abstract!LogNext
PROOF
<1>1. PICK success \in BOOLEAN : \E msgs :
        /\ Running(k) /\ NextFollower(k, success, msgs)
        /\ AcksAfter(broadcast[k], broadcast[k].acks + (IF success THEN 1 ELSE 0))
  BY AppendCallResult
<1>2. PICK msgs :
        /\ Running(k) /\ NextFollower(k, success, msgs)
        /\ AcksAfter(broadcast[k], broadcast[k].acks + (IF success THEN 1 ELSE 0))
  BY <1>1
<1>3. PICK b : b = broadcast[k]
  OBVIOUS
<1>4. PICK acks : acks = broadcast[k].acks + (IF success THEN 1 ELSE 0)
  OBVIOUS
<1>5. UNCHANGED log /\ Leaders' = Leaders /\ Running(k) /\ AcksAfter(b, acks)
  BY <1>2, <1>3, <1>4, AppendCallLogs DEF NextFollower
<1>6. CASE b.peer < Len(Peers[b.node])
  <2>1. UNCHANGED <<lastApplied, result>>
    BY <1>2, <1>3, <1>6 DEF NextFollower
  <2> QED
    BY <1>5, <2>1, QuietMaps
<1>7. CASE ~(b.peer < Len(Peers[b.node]))
  <2>1. IF k[1] = "submit" THEN FinishSubmit(k[2], b.node, acks)
                           ELSE UNCHANGED <<commitIndex, lastApplied, result>>
    BY <1>2, <1>3, <1>4, <1>7 DEF NextFollower
  <2>2. CASE k[1] = "submit"
    <3>1. PICK c \in Cmd : k = Submit(c) /\ FinishSubmit(c, b.node, acks)
      BY <2>1, <2>2, BroadcastNames DEF Broadcasts
    <3>2. Abstract!Succeed(c) \/ Abstract!Fail(c)
      BY <1>3, <1>5, <1>7, <3>1, FinishMaps
    <3> QED
      BY <3>2 DEF Abstract!LogNext
  <2>3. CASE k[1] # "submit"
    <3>1. UNCHANGED <<lastApplied, result>>
      BY <2>1, <2>3
    <3> QED
      BY <1>5, <3>1, QuietMaps
  <2> QED
    BY <2>2, <2>3
<1> QED
  BY <1>6, <1>7

\* A vote came in, or did not: nothing to see, or the election of a leader.
LEMMA ElectionCallMaps ==
  ASSUME InFirstTerm, NEW n \in Node, VoteReturns(n) \/ VoteTimesOut(n)
  PROVE  UNCHANGED Abstract!logState \/ Abstract!LogNext
PROOF
<1>1. UNCHANGED <<log, lastApplied, result>>
  BY DEF VoteReturns, VoteTimesOut, NextVoter, logVars
<1>2. CASE Leaders' = Leaders
  BY <1>1, <1>2, QuietMaps
<1>3. CASE ~(Leaders' = Leaders)
  <2>1. Leaders = {} /\ Leaders' = {n} /\ \A x \in Node : log[x] = << >>
    BY <1>3, ElectionCallLogs
  <2>2. TypeOK
    BY DEF InFirstTerm, RaftInv
  <2>3. Abstract!Elect(n)
    BY <1>1, <2>1, <2>2, ElectMaps
  <2> QED
    BY <2>3 DEF Abstract!LogNext
<1> QED
  BY <1>2, <1>3

\* Every step of the running processes is a step of the log or none.
LEMMA RunMaps ==
  ASSUME InFirstTerm, Run
  PROVE  UNCHANGED Abstract!logState \/ Abstract!LogNext
PROOF
<1>1. ASSUME NEW n \in Node, StartElection(n)
      PROVE  UNCHANGED Abstract!logState
  <2>1. UNCHANGED <<log, lastApplied, result>>
    BY <1>1 DEF StartElection, logVars
  <2> QED
    BY <1>1, <2>1, StartElectionLogs, QuietMaps
<1>2. ASSUME NEW n \in Node, StartHeartbeat(n)
      PROVE  UNCHANGED Abstract!logState
  <2>1. UNCHANGED <<log, lastApplied, result>>
    BY <1>2 DEF StartHeartbeat, logVars
  <2> QED
    BY <1>2, <2>1, StartHeartbeatLogs, QuietMaps
<1>3. ASSUME NEW n \in Node, NEW c \in Cmd, StartSubmit(n, c)
      PROVE  Abstract!LogNext
  BY <1>3, SubmitMaps DEF Abstract!LogNext
<1>4. ASSUME NEW m \in net, HandleRequestVote(m)
      PROVE  UNCHANGED Abstract!logState
  <2>1. UNCHANGED <<log, lastApplied, result>>
    BY <1>4 DEF HandleRequestVote, logVars, taskVars
  <2> QED
    BY <1>4, <2>1, HandleRequestVoteLogs, QuietMaps
<1>5. ASSUME NEW m \in net, RejectStale(m) \/ RejectMismatch(m)
      PROVE  UNCHANGED Abstract!logState
  <2>1. UNCHANGED <<log, lastApplied, result>>
    BY <1>5 DEF RejectStale, RejectMismatch, FollowSender, logVars, taskVars
  <2> QED
    BY <1>5, <2>1, RefuseLogs, QuietMaps
<1>6. ASSUME NEW m \in net, AcceptEntries(m)
      PROVE  Abstract!LogNext
  <2>1. Abstract!Receive(m.to)
    BY <1>6, AcceptLogs, ReceiveMaps
  <2>2. m.to \in Node
    BY <1>6, AcceptedEntries
  <2> QED
    BY <2>1, <2>2 DEF Abstract!LogNext
<1> QED
  BY <1>1, <1>2, <1>3, <1>4, <1>5, <1>6, ElectionCallMaps, AppendCallMaps DEF Run

\* In the first term the replication core is one log with one leader: every
\* step of every task and handler is a step of CommandLog or none.
THEOREM ImplementsCommandLog == Spec => ImplementsLog
PROOF
<1>1. Init => Abstract!LogInit
  <2>1. SUFFICES ASSUME Init PROVE Abstract!LogInit
    OBVIOUS
  <2>2. Leaders = {} /\ TheLeader = None
    BY <2>1 DEF Init, Leaders, TheLeader
  <2>3. \A n \in Node : Len(log[n]) = 0
    BY <2>1 DEF Init
  <2> QED
    BY <2>1, <2>2, <2>3 DEF Init, Abstract!LogInit
<1>2. SoFar /\ RaftInv' /\ OneLeader' /\ [Next]_vars /\ [TermsStand]_vars
      => [FirstTerm' => UNCHANGED Abstract!logState \/ Abstract!LogNext]_vars
  <2>1. SUFFICES ASSUME SoFar, RaftInv', OneLeader', [Next]_vars, [TermsStand]_vars,
                        FirstTerm', ~(UNCHANGED vars)
                 PROVE  UNCHANGED Abstract!logState \/ Abstract!LogNext
    OBVIOUS
  <2> QED
    BY <2>1, StaysFirst, RunMaps
<1>3. Spec => [][FirstTerm' => UNCHANGED Abstract!logState \/ Abstract!LogNext]_vars
  BY <1>2, FirstTermLog, PTL DEF Spec, SoFar
<1>4. Spec => Abstract!LogInit
  BY <1>1 DEF Spec
<1> QED
  BY <1>3, <1>4, PTL DEF ImplementsLog

-----------------------------------------------------------------------------
(***************************************************************************)
(* Nodes that missed an entry.                                             *)
(***************************************************************************)

\* Broadcast b will bring the entry after i to n.
Coming(b, n, i) == b.peer # 0 /\ b.entries # << >> /\ b.prevIdx = i /\ WillCall(b, n)

\* What it is to have missed an entry, in the first term.
LEMMA MissedMeans ==
  ASSUME InFirstTerm, NEW n \in Node
  PROVE  Missed(n) <=>
           /\ \E lead \in Leaders : Len(log[n]) < Len(log[lead])
           /\ \A m \in net : ~Brings(m, n, Len(log[n]))
           /\ \A k \in Broadcasts : ~Coming(broadcast[k], n, Len(log[n]))
BY DEF Missed, Carries, Brings, Coming, Leaders

\* No entry can come any more, and logs only grow.
LEMMA MissedStays ==
  ASSUME InFirstTerm, NEW n \in Node, Missed(n), Leaders' = Leaders, log'[n] = log[n],
         \A lead \in Leaders : Len(log'[lead]) >= Len(log[lead]),
         \A m \in net' : ~Brings(m, n, Len(log[n])),
         \A k \in Broadcasts : ~Coming(broadcast'[k], n, Len(log[n]))
  PROVE  Missed(n)' /\ log'[n] = log[n]
PROOF
<1>1. PICK lead \in Leaders : Len(log[n]) < Len(log[lead])
  BY MissedMeans
<1>2. Len(log[n]) < Len(log'[lead])
  <2>1. log \in [Node -> Seq(Entry)] /\ log' \in [Node -> Seq(Entry)] /\ lead \in Node
    BY <1>1 DEF InFirstTerm, RaftInv, TypeOK, Leaders
  <2>2. Len(log[n]) \in Nat /\ Len(log[lead]) \in Nat /\ Len(log'[lead]) \in Nat
    BY <2>1
  <2>3. Len(log'[lead]) >= Len(log[lead])
    BY <1>1
  <2> QED
    BY <1>1, <2>2, <2>3
<1>3. \E m \in Node : role'[m] = "leader" /\ Len(log'[n]) < Len(log'[m])
  BY <1>1, <1>2 DEF Leaders
<1> QED
  BY <1>3 DEF Missed, Carries, Brings, Coming

\* Nothing new is sent.
LEMMA MissedQuiet ==
  ASSUME InFirstTerm, NEW n \in Node, Missed(n), Leaders' = Leaders, UNCHANGED <<log, broadcast>>,
         \A m \in net' : m.type = "append" => m \in net
  PROVE  Missed(n)' /\ log'[n] = log[n]
PROOF
<1>1. \A m \in net' : ~Brings(m, n, Len(log[n]))
  BY MissedMeans DEF Brings
<1>2. \A k \in Broadcasts : ~Coming(broadcast'[k], n, Len(log[n]))
  BY MissedMeans
<1>3. \A lead \in Leaders : Len(log'[lead]) >= Len(log[lead])
  <2>1. \A x \in Node : Len(log[x]) \in Nat
    BY DEF InFirstTerm, RaftInv, TypeOK
  <2> QED
    BY <2>1 DEF Leaders
<1> QED
  BY <1>1, <1>2, <1>3, MissedStays

\* A new broadcast brings what comes after the end of the leader's log, or
\* nothing.
LEMMA MissedBroadcast ==
  ASSUME InFirstTerm, NEW n \in Node, Missed(n), Leaders' = Leaders,
         NEW lead \in Leaders, NEW k \in Broadcasts, NEW b,
         b.prevIdx = Len(log[lead]), log'[n] = log[n], Len(log'[lead]) >= Len(log[lead]),
         broadcast' = [broadcast EXCEPT ![k] = b],
         net' = net \cup {AppendRequest(k, 1, b)}
  PROVE  Missed(n)' /\ log'[n] = log[n]
PROOF
<1>1. Len(log[n]) < Len(log[lead]) /\ \A x \in Leaders : x = lead
  BY MissedMeans, LeaderIsOne DEF InFirstTerm
<1>2. /\ Len(log[n]) \in Nat /\ Len(log[lead]) \in Nat
      /\ broadcast \in [Broadcasts -> Broadcast]
  <2>1. /\ log \in [Node -> Seq(Entry)] /\ broadcast \in [Broadcasts -> Broadcast]
        /\ lead \in Node
    BY DEF InFirstTerm, RaftInv, TypeOK, Leaders
  <2>2. log[n] \in Seq(Entry) /\ log[lead] \in Seq(Entry)
    BY <2>1
  <2> QED
    BY <2>1, <2>2, LenProperties
<1>3. b.prevIdx # Len(log[n])
  BY <1>1, <1>2
<1>4. \A m \in net' : ~Brings(m, n, Len(log[n]))
  <2>1. AppendRequest(k, 1, b).prevIdx = b.prevIdx
    BY DEF AppendRequest
  <2> QED
    BY <1>3, <2>1, MissedMeans DEF Brings
<1>5. \A j \in Broadcasts : ~Coming(broadcast'[j], n, Len(log[n]))
  <2>1. \A j \in Broadcasts : broadcast'[j] = IF j = k THEN b ELSE broadcast[j]
    BY <1>2
  <2> QED
    BY <1>3, <2>1, MissedMeans DEF Coming
<1> QED
  BY <1>1, <1>4, <1>5, MissedStays

\* A broadcast asks the next node, or ends.
LEMMA MissedCall ==
  ASSUME InFirstTerm, NEW n \in Node, Missed(n), NEW k \in Broadcasts,
         AppendReturns(k) \/ AppendTimesOut(k)
  PROVE  Missed(n)' /\ log'[n] = log[n]
PROOF
<1>1. PICK success \in BOOLEAN : \E msgs :
        Running(k) /\ Ended(msgs, k) /\ NextFollower(k, success, msgs)
  BY AppendCallResult
<1>2. PICK msgs : Running(k) /\ Ended(msgs, k) /\ NextFollower(k, success, msgs)
  BY <1>1
<1>3. Leaders' = Leaders /\ UNCHANGED log
  BY <1>2, AppendCallLogs DEF NextFollower
<1>4. PICK b : b = broadcast[k]
  OBVIOUS
<1>5. /\ b.peer \in Nat /\ b.peer # 0 /\ Len(Peers[b.node]) \in Nat
      /\ broadcast \in [Broadcasts -> Broadcast]
  <2>1. broadcast \in [Broadcasts -> Broadcast]
    BY DEF InFirstTerm, RaftInv, TypeOK
  <2> QED
    BY <1>2, <1>4, <2>1, RunsAtLeader DEF Broadcast, Running
<1>6. \A m \in msgs : ~Brings(m, n, Len(log[n]))
  BY <1>2, MissedMeans DEF Ended, SameRequest, Brings
<1>7. \A lead \in Leaders : Len(log'[lead]) >= Len(log[lead])
  <2>1. \A x \in Node : Len(log[x]) \in Nat
    BY DEF InFirstTerm, RaftInv, TypeOK
  <2> QED
    BY <1>3, <2>1 DEF Leaders
<1>8. ~Coming(b, n, Len(log[n]))
  BY <1>4, MissedMeans
<1>9. \A m \in net' : ~Brings(m, n, Len(log[n]))
  <2>1. CASE b.peer < Len(Peers[b.node])
    <3>1. net' = msgs \cup {AppendRequest(k, b.peer + 1, b)}
      BY <1>2, <1>4, <2>1 DEF NextFollower
    <3>2. ASSUME Brings(AppendRequest(k, b.peer + 1, b), n, Len(log[n])) PROVE FALSE
      <4>1. b.entries # << >> /\ b.prevIdx = Len(log[n]) /\ Peers[b.node][b.peer + 1] = n
        BY <3>2 DEF Brings, AppendRequest
      <4>2. b.peer + 1 \in 1 .. Len(Peers[b.node]) /\ b.peer < b.peer + 1
        BY <1>5, <2>1
      <4> QED
        BY <1>5, <1>8, <4>1, <4>2 DEF Coming, WillCall
    <3> QED
      BY <1>6, <3>1, <3>2
  <2>2. CASE ~(b.peer < Len(Peers[b.node]))
    <3>1. net' = msgs
      BY <1>2, <1>4, <2>2 DEF NextFollower
    <3> QED
      BY <1>6, <3>1
  <2> QED
    BY <2>1, <2>2
<1>10. \A j \in Broadcasts : ~Coming(broadcast'[j], n, Len(log[n]))
  <2>1. \/ \E acks : broadcast' = [broadcast EXCEPT ![k].peer = @ + 1, ![k].acks = acks]
        \/ broadcast' = [broadcast EXCEPT ![k] = IdleBroadcast]
    BY <1>2 DEF NextFollower
  <2>2. \A j \in Broadcasts : j # k => broadcast'[j] = broadcast[j]
    BY <1>5, <2>1
  <2>3. ~Coming(broadcast'[k], n, Len(log[n]))
    <3>1. CASE broadcast' = [broadcast EXCEPT ![k] = IdleBroadcast]
      BY <1>5, <3>1 DEF Coming, IdleBroadcast
    <3>2. CASE \E acks : broadcast' = [broadcast EXCEPT ![k].peer = @ + 1, ![k].acks = acks]
      <4>1. /\ broadcast'[k].peer = b.peer + 1 /\ broadcast'[k].entries = b.entries
            /\ broadcast'[k].prevIdx = b.prevIdx /\ broadcast'[k].node = b.node
        BY <1>4, <1>5, <3>2 DEF Broadcast
      <4>2. WillCall(broadcast'[k], n) => WillCall(b, n)
        BY <1>5, <4>1 DEF WillCall
      <4> QED
        BY <1>5, <1>8, <4>1, <4>2 DEF Coming
    <3> QED
      BY <2>1, <3>1, <3>2
  <2> QED
    BY <2>2, <2>3, MissedMeans
<1> QED
  BY <1>3, <1>7, <1>9, <1>10, MissedStays

\* A request is answered: one that brought the missing entry is not under way.
LEMMA MissedAnswer ==
  ASSUME InFirstTerm, NEW n \in Node, Missed(n), NEW m \in net,
         RejectStale(m) \/ RejectMismatch(m) \/ AcceptEntries(m)
  PROVE  Missed(n)' /\ log'[n] = log[n]
PROOF
<1>1. Leaders' = Leaders
  BY RefuseLogs, AcceptLogs
<1>2. \E ok : net' = Answered(m, ok)
  BY DEF RejectStale, RejectMismatch, AcceptEntries
<1>3. \A x \in net' : x.type = "append" => x \in net
  BY <1>2, AnsweredRest
<1>4. UNCHANGED broadcast
  BY DEF RejectStale, RejectMismatch, AcceptEntries, FollowSender, taskVars
<1>5. CASE AcceptEntries(m)
  <2>1. PICK lg : lg = Extended(log[m.to], m)
    OBVIOUS
  <2>2. /\ m.type = "append" /\ m.to \in Node /\ lg \in Seq(Entry)
        /\ lg = log[m.to] \/ TakesEntry(m, log[m.to], lg)
    BY <1>5, <2>1, AcceptedEntries
  <2>3. log' = [log EXCEPT ![m.to] = lg]
    BY <1>5, <2>1 DEF AcceptEntries
  <2>4. log \in [Node -> Seq(Entry)]
    BY DEF InFirstTerm, RaftInv, TypeOK
  <2>5. ~(m.to = n /\ TakesEntry(m, log[m.to], lg))
    BY <2>2, MissedMeans DEF Brings, TakesEntry
  <2>6. log'[n] = log[n]
    BY <2>2, <2>3, <2>4, <2>5
  <2>7. \A lead \in Leaders : Len(log'[lead]) >= Len(log[lead])
    <3>1. \A lead \in Leaders : m.to # lead /\ Len(log[lead]) \in Nat
      BY <2>2, <2>4, AskedFollows DEF Leaders
    <3> QED
      BY <2>2, <2>3, <2>4, <3>1 DEF Leaders
  <2>8. \A x \in net' : ~Brings(x, n, Len(log[n]))
    BY <1>3, MissedMeans DEF Brings
  <2>9. \A k \in Broadcasts : ~Coming(broadcast'[k], n, Len(log[n]))
    BY <1>4, MissedMeans
  <2> QED
    BY <1>1, <2>6, <2>7, <2>8, <2>9, MissedStays
<1>6. CASE RejectStale(m) \/ RejectMismatch(m)
  <2>1. UNCHANGED log
    BY <1>6 DEF RejectStale, RejectMismatch, logVars
  <2> QED
    BY <1>1, <1>3, <1>4, <2>1, MissedQuiet
<1> QED
  BY <1>5, <1>6

\* A campaign cannot succeed where one leads.
LEMMA MissedVote ==
  ASSUME InFirstTerm, NEW n \in Node, Missed(n), NEW x \in Node,
         VoteReturns(x) \/ VoteTimesOut(x)
  PROVE  Missed(n)' /\ log'[n] = log[n]
PROOF
<1>1. PICK voteGranted \in BOOLEAN : \E msgs :
        /\ campaign[x].peer # 0 /\ NextVoter(x, voteGranted, msgs)
        /\ \A m \in msgs : m.type = "append" \/ m.task \in Broadcasts => m \in net
  BY CampaignCall
<1>2. PICK msgs :
        /\ campaign[x].peer # 0 /\ NextVoter(x, voteGranted, msgs)
        /\ \A m \in msgs : m.type = "append" \/ m.task \in Broadcasts => m \in net
  BY <1>1
<1>3. TypeOK /\ TypeOK' /\ x \notin Leaders /\ UNCHANGED log
  BY <1>2 DEF InFirstTerm, RaftInv, LogInv, Leading, Leaders, NextVoter, logVars
<1>4. Leaders' = Leaders
  BY MissedMeans, ElectionCallLogs
<1>5. /\ UNCHANGED broadcast
      /\ net' = msgs \/ \E i, t, cp : net' = msgs \cup {VoteRequest(x, i, t, cp)}
  <2>1. role' # [role EXCEPT ![x] = "leader"]
    BY <1>3, <1>4 DEF Leaders, TypeOK
  <2> QED
    BY <1>2, <2>1 DEF NextVoter, FinishElection
<1>6. \A m \in net' : m.type = "append" => m \in net
  BY <1>2, <1>5 DEF VoteRequest
<1> QED
  BY <1>3, <1>4, <1>5, <1>6, MissedQuiet

\* In the first term a node that missed an entry never grows again.
THEOREM MissedStaysMissed == Spec => MissedForGood
PROOF
<1>1. ASSUME InFirstTerm, Run, NEW n \in Node, Missed(n)
      PROVE  Missed(n)' /\ log'[n] = log[n]
  <2>1. TypeOK
    BY <1>1 DEF InFirstTerm, RaftInv
  <2>2. ASSUME NEW x \in Node, StartElection(x) PROVE Missed(n)' /\ log'[n] = log[n]
    <3>1. /\ UNCHANGED <<log, broadcast>>
          /\ \E i, t, cp : net' = net \cup {VoteRequest(x, i, t, cp)}
      BY <2>2 DEF StartElection, logVars
    <3>2. \A m \in net' : m.type = "append" => m \in net
      BY <3>1 DEF VoteRequest
    <3>3. Leaders' = Leaders
      BY <1>1, <2>2, StartElectionLogs
    <3> QED
      BY <1>1, <3>1, <3>2, <3>3, MissedQuiet
  <2>3. ASSUME NEW x \in Node, StartHeartbeat(x) PROVE Missed(n)' /\ log'[n] = log[n]
    <3> DEFINE k == Heartbeat(x)
               b == NewBroadcast(x, log[x], << >>)
    <3>1. /\ x \in Leaders /\ UNCHANGED log
          /\ broadcast' = [broadcast EXCEPT ![k] = b]
          /\ net' = net \cup {AppendRequest(k, 1, b)}
      BY <2>3 DEF StartHeartbeat, Leaders, logVars
    <3>2. Len(log[x]) \in Nat
      BY <2>1 DEF TypeOK
    <3>3. b.prevIdx = Len(log[x]) /\ k \in Broadcasts
      BY <3>2, BroadcastNames DEF NewBroadcast
    <3>4. Leaders' = Leaders
      BY <1>1, <2>3, StartHeartbeatLogs
    <3> HIDE DEF k, b
    <3>5. log'[n] = log[n] /\ Len(log'[x]) >= Len(log[x])
      BY <3>1, <3>2
    <3> QED
      BY <1>1, <3>1, <3>3, <3>4, <3>5, MissedBroadcast
  <2>4. ASSUME NEW x \in Node, NEW c \in Cmd, StartSubmit(x, c)
        PROVE  Missed(n)' /\ log'[n] = log[n]
    <3> DEFINE k     == Submit(c)
               entry == [term |-> term[x], cmd |-> c]
               lg    == Append(log[x], entry)
               b     == NewBroadcast(x, lg, <<entry>>)
    <3>1. /\ x \in Leaders /\ log' = [log EXCEPT ![x] = lg]
          /\ broadcast' = [broadcast EXCEPT ![k] = b]
          /\ net' = net \cup {AppendRequest(k, 1, b)}
      BY <2>4 DEF StartSubmit, Leaders
    <3>2. Len(log[x]) \in Nat /\ Len(log[n]) \in Nat /\ Len(lg) = Len(log[x]) + 1
      <4>1. entry \in Entry /\ log[x] \in Seq(Entry) /\ log[n] \in Seq(Entry)
        BY <2>1 DEF TypeOK, Entry
      <4> HIDE DEF entry
      <4> QED
        BY <4>1
    <3>3. b.prevIdx = Len(log[x]) /\ k \in Broadcasts
      <4>1. Len(<<entry>>) = 1
        OBVIOUS
      <4>2. b.prevIdx = Len(lg) - Len(<<entry>>)
        BY DEF NewBroadcast
      <4> HIDE DEF entry, lg, b
      <4> QED
        BY <3>2, <4>1, <4>2, BroadcastNames
    <3>4. Leaders' = Leaders
      BY <1>1, <2>4, StartSubmitLogs
    <3> HIDE DEF k, lg, b
    <3>5. x # n
      <4>1. PICK lead \in Leaders : Len(log[n]) < Len(log[lead])
        BY <1>1, MissedMeans
      <4>2. x = lead
        BY <1>1, <3>1, <4>1, LeaderIsOne DEF InFirstTerm
      <4> QED
        BY <3>2, <4>1, <4>2
    <3>6. log'[n] = log[n] /\ Len(log'[x]) >= Len(log[x])
      BY <2>1, <3>1, <3>2, <3>5 DEF TypeOK
    <3> QED
      BY <1>1, <3>1, <3>3, <3>4, <3>6, MissedBroadcast
  <2>5. ASSUME NEW m \in net, HandleRequestVote(m) PROVE Missed(n)' /\ log'[n] = log[n]
    <3>1. UNCHANGED <<log, broadcast>> /\ \E ok : net' = Answered(m, ok)
      BY <2>5 DEF HandleRequestVote, logVars, taskVars
    <3>2. \A x \in net' : x.type = "append" => x \in net
      BY <3>1, AnsweredRest
    <3>3. Leaders' = Leaders
      BY <1>1, <2>5, HandleRequestVoteLogs
    <3> QED
      BY <1>1, <3>1, <3>2, <3>3, MissedQuiet
  <2> QED
    BY <1>1, <2>2, <2>3, <2>4, <2>5, MissedVote, MissedCall, MissedAnswer DEF Run
<1>2. SoFar /\ RaftInv' /\ OneLeader' /\ [Next]_vars /\ [TermsStand]_vars
      => [FirstTerm' => \A n \in Node : Missed(n) => Missed(n)' /\ log'[n] = log[n]]_vars
  <2>1. SUFFICES ASSUME SoFar, RaftInv', OneLeader', [Next]_vars, [TermsStand]_vars,
                        FirstTerm', ~(UNCHANGED vars), NEW n \in Node, Missed(n)
                 PROVE  Missed(n)' /\ log'[n] = log[n]
    OBVIOUS
  <2> QED
    BY <1>1, <2>1, StaysFirst
<1> QED
  BY <1>2, FirstTermLog, PTL DEF Spec, SoFar, MissedForGood

=============================================================================
