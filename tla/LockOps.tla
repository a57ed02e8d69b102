------------------------------ MODULE LockOps ------------------------------
(***************************************************************************)
(* The lock table of src/lock/lock_service.py (class LockTable) as pure    *)
(* operators on a table value.  LockTable.apply is deterministic and never *)
(* awaits, so one call is one operator application; LockTable.tla turns    *)
(* the calls into the actions of a state machine.                          *)
(*                                                                         *)
(* The dictionary self.state is total here: a resource that has no entry   *)
(* is the entry {mode: None, holders: set(), queue: []}.  No operation     *)
(* tells the two apart except for the "reason" text of a release reply.    *)
(* A token "lk<n>" is the number n.                                        *)
(***************************************************************************)
EXTENDS Naturals, Sequences

CONSTANTS Client,     \* client identifiers
          Resource,   \* resource names
          Free        \* the mode None, of a resource without holders

LockMode == {"shared", "exclusive"}

Holder  == [client : Client, token : Nat]
Request == [client : Client, mode : LockMode]

\* Python's None is a value of its own (line 43 stores it as the mode).
ASSUME FreeIsNoMode == Free \notin LockMode

Table == [mode    : [Resource -> LockMode \cup {Free}],
          holders : [Resource -> SUBSET Holder],
          queue   : [Resource -> Seq(Request)],
          waits   : [Client -> SUBSET Client],
          counter : Nat]

EmptyTable == [mode    |-> [r \in Resource |-> Free],
               holders |-> [r \in Resource |-> {}],
               queue   |-> [r \in Resource |-> << >>],
               waits   |-> [c \in Client |-> {}],
               counter |-> 0]

HolderClients(t, r) == {h.client : h \in t.holders[r]}

\* Mutant: one token for a whole batch.
OneTokenHolders(t, reqs) ==
  {[client |-> reqs[i].client, token |-> t.counter + 1] : i \in 1 .. Len(reqs)}

\* Holders for the requests of a sequence, with fresh tokens in its order.
NewHolders(t, reqs) ==
  {[client |-> reqs[i].client, token |-> t.counter + i] : i \in 1 .. Len(reqs)}

\* Mutant: the counter stays where it was.
GrantUncounted(t, r, m, reqs) ==
  [t EXCEPT !.mode[r] = m, !.holders[r] = @ \cup NewHolders(t, reqs)]

Grant(t, r, m, reqs) ==
  [t EXCEPT !.mode[r]    = m,
            !.holders[r] = @ \cup NewHolders(t, reqs),
            !.counter    = @ + Len(reqs)]

\* Mutant: the newest request goes first.
EnqueueFirst(t, r, req) ==
  [t EXCEPT !.queue[r]          = <<req>> \o @,
            !.waits[req.client] = @ \cup HolderClients(t, r)]

(***************************************************************************)
(* A request that cannot be granted is queued, and its client is recorded  *)
(* as waiting for the holders of this moment.                              *)
(***************************************************************************)
Enqueue(t, r, req) ==
  [t EXCEPT !.queue[r]          = Append(@, req),
            !.waits[req.client] = @ \cup HolderClients(t, r)]

\* Mutant: anybody joins shared holders.
JoinsShared(t, r, m) == t.holders[r] = {} \/ t.mode[r] = "shared"

\* The two early returns of an acquire: the resource is free, or a shared
\* request joins shared holders, whatever waits in the queue.
Grantable(t, r, m) ==
  \/ t.holders[r] = {}
  \/ t.mode[r] = "shared" /\ m = "shared"

Acquire(t, c, r, m) ==
  LET req == [client |-> c, mode |-> m]
  IN  IF Grantable(t, r, m) THEN Grant(t, r, m, <<req>>) ELSE Enqueue(t, r, req)

\* Mutant: a hand-over serves one request, shared or not.
ServedOne(q) == 1

(***************************************************************************)
(* How many requests at the front of a non-empty queue are granted at      *)
(* once: an exclusive request alone, or the longest run of shared ones.    *)
(***************************************************************************)
Served(q) ==
  IF q[1].mode = "exclusive"
    THEN 1
    ELSE CHOOSE n \in 1 .. Len(q) :
           /\ \A i \in 1 .. n : q[i].mode = "shared"
           /\ n < Len(q) => q[n + 1].mode # "shared"

ClearWaits(waits, reqs) ==
  [c \in Client |->
     IF \E i \in 1 .. Len(reqs) : reqs[i].client = c THEN {} ELSE waits[c]]

(***************************************************************************)
(* The last holder is gone: the resource goes to the front of its queue.   *)
(***************************************************************************)
HandOver(t, r) ==
  LET q     == t.queue[r]
      batch == SubSeq(q, 1, Served(q))
      left  == SubSeq(q, Served(q) + 1, Len(q))
  IN  IF q = << >>
        THEN [t EXCEPT !.mode[r] = Free]
        ELSE [Grant(t, r, q[1].mode, batch) EXCEPT
                !.queue[r] = left,
                !.waits    = ClearWaits(@, batch)]

WithoutToken(t, r, tok) ==
  [t EXCEPT !.holders[r] = {h \in @ : h.token # tok}]

\* Mutant: the resource becomes free and the queue is left alone.
ReleaseUnserved(t, r, tok) ==
  LET kept == WithoutToken(t, r, tok)
  IN  IF kept.holders[r] # {} THEN kept ELSE [kept EXCEPT !.mode[r] = Free]

Release(t, r, tok) ==
  LET kept == WithoutToken(t, r, tok)
  IN  IF kept.holders[r] # {} THEN kept ELSE HandOver(kept, r)

\* The table seen by those who hold locks: every holder has the mode of the
\* resource.
Held(t) ==
  [r \in Resource |->
     {[client |-> h.client, token |-> h.token, mode |-> t.mode[r]] : h \in t.holders[r]}]

-----------------------------------------------------------------------------
(***************************************************************************)
(* What every reachable table satisfies, as predicates of a table value.   *)
(***************************************************************************)

\* Tokens in use were handed out by the counter.
WellTyped(t) ==
  /\ t \in Table
  /\ \A r \in Resource : \A h \in t.holders[r] : h.token \in 1 .. t.counter

\* A resource has a mode exactly while it is held, and one holder when the
\* mode is exclusive.
ExcludesAt(t, r) ==
  /\ t.mode[r] = Free <=> t.holders[r] = {}
  /\ t.mode[r] = "exclusive" => \A h1, h2 \in t.holders[r] : h1 = h2

Excludes(t) == \A r \in Resource : ExcludesAt(t, r)

\* Requests wait only behind a holder that the head of the queue conflicts
\* with.
HeadBlocksAt(t, r) ==
  t.queue[r] # << >> =>
    /\ t.holders[r] # {}
    /\ t.mode[r] = "shared" => t.queue[r][1].mode = "exclusive"

HeadBlocks(t) == \A r \in Resource : HeadBlocksAt(t, r)

\* A token names one grant.
UniqueTokens(t) ==
  \A r1, r2 \in Resource :
    \A h1 \in t.holders[r1], h2 \in t.holders[r2] :
      h1.token = h2.token => r1 = r2 /\ h1 = h2

Queued(t, c, r) == \E i \in 1 .. Len(t.queue[r]) : t.queue[r][i].client = c

\* Only clients that queue somewhere have edges in the wait-for graph.
EdgesFromQueues(t) ==
  \A c \in Client : t.waits[c] # {} => \E r \in Resource : Queued(t, c, r)
=============================================================================
