--------------------------- MODULE MCLockService ---------------------------
(***************************************************************************)
(* Two lock nodes, two clients that compete for one resource.              *)
(***************************************************************************)
EXTENDS LockService

CONSTANTS lock_a, lock_b, x, y

MCNode    == {lock_a, lock_b}
MCCluster == <<lock_a, lock_b>>
MCClient  == {x, y}
MCCmd     == 1 .. 3

\* Calls and clients differ in name only: calls are taken in the order of
\* their names and the first acquire is that of x.  The second node of
\* CLUSTER_NODES is the one that gets elected, and one call is posted at the
\* other node, unless a req_id comes with different bodies.
Bounded ==
  /\ leader' \in {None, lock_b}
  /\ (\A c \in Cmd : OneBody(c))' \/ (\A c \in Cmd : asking[c] = 0)'
  /\ \A c, d \in Cmd : asking'[c] # 0 /\ asking'[d] # 0 => c = d
  /\ \A c \in Cmd : phase[c] = "new" =>
       /\ \A d \in Cmd : d > c => phase'[d] = "new"
       /\ c = 1 /\ phase'[1] # "new" => body'[1].op = "acquire" /\ body'[1].client = x

MCNext == Next /\ Bounded

MCSpec == Init /\ [][MCNext]_vars /\ \A c \in Cmd : WF_vars(Proceeds(c))
=============================================================================
