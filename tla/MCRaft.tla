------------------------------- MODULE MCRaft -------------------------------
(***************************************************************************)
(* Three lock nodes as in docker/docker-compose.yml: every node calls the  *)
(* others in the order of CLUSTER_NODES.                                   *)
(***************************************************************************)
EXTENDS RaftLog, TLC

CONSTANTS lock_a, lock_b, lock_c

MCNode  == {lock_a, lock_b, lock_c}
MCPeers == lock_a :> <<lock_b, lock_c>> @@
           lock_b :> <<lock_a, lock_c>> @@
           lock_c :> <<lock_a, lock_b>>

\* Commands differ in name only.
CmdSymmetry == Permutations(Cmd)

(***************************************************************************)
(* The bounds of a run, one trouble at a time: timeouts while one term     *)
(* lasts, a second term without commands, or a restart with one command.   *)
(***************************************************************************)
Submissions == Cardinality({c \in Cmd : c \in InFlight \/ result[c] # "none"})

SecondTerm == timeouts = 0 /\ Submissions = 0 /\ \A n \in Node : life[n] = 0

OneRestart == timeouts = 0 /\ Submissions <= 1 /\ \A n \in Node : term[n] <= 1

OneTroubleNext ==
  \/ Run /\ UNCHANGED life /\ (FirstTerm \/ SecondTerm \/ OneRestart)'
  \/ OneRestart /\ \E n \in Node : Restart(n)

OneTroubleSpec == Init /\ [][OneTroubleNext]_vars
=============================================================================
