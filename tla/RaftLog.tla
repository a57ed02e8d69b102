------------------------------ MODULE RaftLog ------------------------------
(***************************************************************************)
(* Raft seen from outside: the log it keeps for its clients.  The code     *)
(* keeps its logs in agreement until a second term begins or a node        *)
(* restarts; from then on a leader may have been elected with votes of     *)
(* another term, or by a node that has forgotten its vote, and little of   *)
(* this is left.  A node that is left behind is left behind for good.      *)
(***************************************************************************)
EXTENDS Raft

FirstTerm == \A n \in Node : term[n] <= 1 /\ life[n] = 0

Leaders == {n \in Node : role[n] = "leader"}

TheLeader == IF Leaders = {} THEN None ELSE CHOOSE n \in Leaders : TRUE

Commands(lg) == [i \in DOMAIN lg |-> lg[i].cmd]

Abstract == INSTANCE CommandLog WITH
  leader  <- TheLeader,
  order   <- IF Leaders = {} THEN << >> ELSE Commands(log[TheLeader]),
  have    <- [n \in Node |-> Len(log[n])],
  applied <- lastApplied

\* In the first term RaftCore behaves as one log with one leader, of which the
\* other nodes have and apply prefixes (CommandLog): every step of every task
\* and handler is one step of that log or none.
ImplementsLog ==
  /\ Abstract!LogInit
  /\ [][FirstTerm' => UNCHANGED Abstract!logState \/ Abstract!LogNext]_vars

\* One leader, in the first term (the count of lines 68-91 and the votes of
\* lines 162-165).
OneLeader == FirstTerm => ElectionSafety

\* In the first term no follower holds an entry that the leader does not have
\* at the same place: late, repeated and overlapping appends never put one in
\* the wrong place (lines 106-111, 187-195).
FollowersAgree == FirstTerm => FollowersBehind /\ StateMachineSafety

\* Why Rejoins below fails: in the first term a node that was not reached by the
\* broadcast of its next entry never grows again, for prev_log_index is the end
\* of the leader's log, and nothing is ever sent a second time (lines 106-107,
\* 187-191).
MissedForGood ==
  [][FirstTerm' => \A n \in Node : Missed(n) => Missed(n)' /\ log'[n] = log[n]]_vars

-----------------------------------------------------------------------------
(***************************************************************************)
(* The nodes run on: the heartbeat loop of a leader starts again and again *)
(* (lines 98-102), a call that somebody waits for is served and its answer *)
(* is read, and the clients submit what they have.  A request whose caller *)
(* has given up may be lost.                                               *)
(***************************************************************************)

Serve(k) ==
  \E m \in net :
    /\ m.task = k
    /\ HandleRequestVote(m) \/ RejectStale(m) \/ RejectMismatch(m) \/ AcceptEntries(m)

FairSpec ==
  /\ Spec
  /\ \A n \in Node : /\ WF_vars(StartHeartbeat(n) /\ UNCHANGED life)
                     /\ WF_vars(VoteReturns(n) /\ UNCHANGED life)
                     /\ WF_vars(Serve(Election(n)) /\ UNCHANGED life)
  /\ \A k \in Broadcasts : /\ WF_vars(AppendReturns(k) /\ UNCHANGED life)
                           /\ WF_vars(Serve(k) /\ UNCHANGED life)
  /\ \A c \in Cmd : WF_vars((\E n \in Node : StartSubmit(n, c)) /\ UNCHANGED life)

\* docs/testing_guide.md:279 says of a node that was cut off for a while:
\* "Setelah reconnect, node kembali ikut cluster."  At most MaxTimeouts calls
\* fail, and every node has, again and again, the log of whoever leads.
Rejoins == \A n \in Node : []<>(\A m \in Leaders : log[n] = log[m])
=============================================================================
