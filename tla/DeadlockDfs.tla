---------------------------- MODULE DeadlockDfs ----------------------------
(***************************************************************************)
(* The deadlock_check command of LockTable.apply: the depth-first search   *)
(* over self.waits, and the reference it is compared with.                 *)
(*                                                                         *)
(* The search state s is [visited, stack, found].  found stands for a True *)
(* that is on its way up: every loop stops on it.  Python walks a set in   *)
(* an order of its own, so the orders are parameters: roots lists the keys *)
(* of self.waits, walk[u] the clients that u may wait for.                 *)
(*                                                                         *)
(* A loop is a function of the number of its turns, and the search is one  *)
(* of how many calls may be nested: each call enters a client that was not *)
(* visited, so there are never more of them than there are clients.        *)
(***************************************************************************)
EXTENDS Naturals, Sequences, FiniteSets

SearchState(clients) == [visited : SUBSET clients, stack : SUBSET clients, found : BOOLEAN]

Start == [visited |-> {}, stack |-> {}, found |-> FALSE]

Enter(s, u) == [s EXCEPT !.visited = @ \cup {u}, !.stack = @ \cup {u}]

\* Mutant: a finished client stays on the stack.
LeaveNot(s, u) == s

Leave(s, u) == [s EXCEPT !.stack = @ \ {u}]

\* One turn of the loop over the successors of u; deeper is the call for v.
Visit(waits, u, v, s, deeper) ==
  LET below == IF v \in s.visited THEN s ELSE deeper[<<v, s>>]
  IN  CASE s.found \/ v \notin waits[u]   -> s
        [] ~s.found /\ v \in waits[u] ->
             IF v \in below.stack THEN [below EXCEPT !.found = TRUE] ELSE below

\* The body of dfs(u).
Dfs(waits, walk, u, s, deeper) ==
  LET n == Len(walk[u])
      turn[i \in 0 .. n] ==
        IF i = 0 THEN Enter(s, u) ELSE Visit(waits, u, walk[u][i], turn[i - 1], deeper)
  IN  IF turn[n].found THEN turn[n] ELSE Leave(turn[n], u)

\* dfs, with at most so many calls nested.
Search(waits, walk, depth) ==
  LET Calls == (DOMAIN waits) \X SearchState(DOMAIN waits)
      dfs[d \in 0 .. depth] ==
        [x \in Calls |-> IF d = 0 THEN x[2] ELSE Dfs(waits, walk, x[1], x[2], dfs[d - 1])]
  IN  dfs[depth]

\* One turn of the loop over the keys.  Clients without an entry in self.waits
\* are those with no edges.
FromRoot(waits, u, s, dfs) ==
  IF s.found \/ u \in s.visited \/ waits[u] = {} THEN s ELSE dfs[<<u, s>>]

DeadlockCheck(waits, roots, walk) ==
  LET dfs == Search(waits, walk, Cardinality(DOMAIN waits))
      n   == Len(roots)
      turn[i \in 0 .. n] ==
        IF i = 0 THEN Start ELSE FromRoot(waits, roots[i], turn[i - 1], dfs)
  IN  turn[n].found

-----------------------------------------------------------------------------

\* Clients reached from c by one edge or more: the smallest set that has the
\* successors of c and of all its members.
Reached(edges, c) ==
  {x \in DOMAIN edges :
     \A S \in SUBSET DOMAIN edges :
       edges[c] \subseteq S /\ (\A v \in S : edges[v] \subseteq S) => x \in S}

\* A wait-for graph is deadlocked when somebody waits, in the end, for itself.
HasCycle(edges) == \E c \in DOMAIN edges : c \in Reached(edges, c)
=============================================================================
