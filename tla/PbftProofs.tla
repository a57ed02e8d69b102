----------------------------- MODULE PbftProofs -----------------------------
(***************************************************************************)
(* What PbftNode guarantees for any number of nodes, requests, digests and *)
(* faults: typing, that what is decided has reached a majority, and that   *)
(* the only request for a digest learns of its decision.                   *)
(***************************************************************************)
EXTENDS Pbft, FiniteSetTheorems, TLAPS

\* What is under way belongs to a request that was made, and only requested
\* digests have been sent to anybody.
Requested ==
  /\ \A r \in Req : phase[r] = "new" => at[r] = None /\ digest[r] = None
  /\ \A r \in Req : phase[r] # "new" => <<at[r], digest[r]>> \in seen
  /\ \A m \in net : /\ phase[m.req] # "new"
                    /\ digest[m.req] = m.digest
                    /\ <<m.leader, m.digest>> \in seen
  /\ \A t \in committing : phase[t[1]] # "new"
  /\ \A r \in futureSet : phase[r] # "new"
  /\ \A s \in seen : \E r \in Req : phase[r] # "new" /\ digest[r] = s[2]

BackedDigests == {d \in Digest : IsMajority(Witnesses(d))}

\* Whoever is named in a prepare has seen the digest, and every trace of a
\* commit is of a digest that a majority has seen.
Backed ==
  /\ \A n \in Node, d \in Digest : prepared[n][d] \subseteq Witnesses(d)
  /\ \A m \in net : m.path = "commit" => m.digest \in BackedDigests
  /\ \A t \in committing : digest[t[1]] \in BackedDigests
  /\ \A n \in Node, d \in Digest : committed[n][d] # {} => d \in BackedDigests
  /\ \A n \in Node : decided[n] \subseteq BackedDigests
  /\ \A r \in futureSet : digest[r] \in BackedDigests
  /\ \A r \in Req : phase[r] = "decided" => digest[r] \in BackedDigests

\* The future of the only request for a digest is kept or has its result, and
\* has it when the node has decided.
Registered ==
  \A r \in Req : phase[r] \in Running /\ Alone(r) =>
    /\ pending[at[r]][digest[r]] = r \/ r \in futureSet
    /\ digest[r] \in decided[at[r]] => r \in futureSet

\* A node prepares its own request in no call but that of SelfPrepare, so a
\* broadcast of commits for it has pre_prepare waiting.
OwnBroadcast ==
  /\ \A m \in net : m.path = "prepare" => m.leader = at[m.req] /\ m.to # m.leader
  /\ \A r \in Req : <<r, at[r]>> \in committing => phase[r] = "committing"

Core    == TypeOK /\ Requested /\ Backed
PbftInv == Core /\ OwnBroadcast /\ Registered

-----------------------------------------------------------------------------

\* More nodes than a majority are a majority.
LEMMA MajorityGrows ==
  ASSUME NEW S \in SUBSET Node, NEW T \in SUBSET Node, S \subseteq T, IsMajority(S)
  PROVE  IsMajority(T)
PROOF
<1>1. IsFiniteSet(T) /\ IsFiniteSet(S)
  BY NodeIsFinite, FS_Subset
<1>2. Cardinality(S) <= Cardinality(T)
  BY <1>1, FS_Subset
<1>3. Cardinality(S) \in Nat /\ Cardinality(T) \in Nat /\ Cardinality(Node) \in Nat
  BY <1>1, NodeIsFinite, FS_CardinalityType
<1> QED
  BY <1>2, <1>3 DEF IsMajority

\* quorum() is more than half of the nodes, however many there are.
LEMMA QuorumIsMajority ==
  ASSUME NEW S \in SUBSET Node, IsQuorum(S)
  PROVE  IsMajority(S)
PROOF
<1>1. IsFiniteSet(S)
  BY NodeIsFinite, FS_Subset
<1>2. Cardinality(S) \in Nat /\ Cardinality(Node) \in Nat
  BY <1>1, NodeIsFinite, FS_CardinalityType
<1>3. Quorum >= Cardinality(Node) \div 2 + 1 /\ Quorum \in Int
  BY <1>2 DEF Quorum
<1> QED
  BY <1>2, <1>3 DEF IsMajority, IsQuorum

\* What a majority has seen, somebody has seen, so it was requested.
LEMMA BackedIsRequested ==
  ASSUME NEW d \in BackedDigests, Requested
  PROVE  \E r \in Req : phase[r] # "new" /\ digest[r] = d
PROOF
<1>1. Witnesses(d) # {}
  <2>1. Cardinality({}) = 0 /\ Cardinality(Node) \in Nat
    BY NodeIsFinite, FS_CardinalityType, FS_EmptySet
  <2> QED
    BY <2>1 DEF BackedDigests, IsMajority
<1>2. PICK n \in Node : <<n, d>> \in seen
  BY <1>1 DEF Witnesses
<1> QED
  BY <1>2 DEF Requested

\* seen only grows, and with it what is backed.
LEMMA BackedGrows ==
  ASSUME seen \subseteq seen'
  PROVE  /\ \A d \in Digest : Witnesses(d) \subseteq Witnesses(d)'
         /\ BackedDigests \subseteq BackedDigests'
PROOF
<1>1. \A d \in Digest : Witnesses(d) \subseteq Witnesses(d)'
  BY DEF Witnesses
<1>2. ASSUME NEW d \in BackedDigests
      PROVE  d \in BackedDigests'
  <2>1. d \in Digest /\ Witnesses(d) \subseteq Witnesses(d)' /\ IsMajority(Witnesses(d))
    BY <1>1, <1>2 DEF BackedDigests
  <2>2. Witnesses(d) \in SUBSET Node /\ Witnesses(d)' \in SUBSET Node
    BY DEF Witnesses
  <2>3. IsMajority(Witnesses(d)')
    BY <2>1, <2>2, MajorityGrows
  <2> QED
    BY <2>1, <2>3 DEF BackedDigests, IsMajority
<1> QED
  BY <1>1, <1>2

\* The calls of a broadcast are messages of their request from its sender.
LEMMA CallsAreMessages ==
  ASSUME NEW path \in {"prepare", "commit"}, NEW r \in Req, NEW d \in Digest,
         NEW n \in Node, NEW m \in Calls(path, r, d, n)
  PROVE  /\ m \in Message
         /\ m.path = path /\ m.req = r /\ m.digest = d /\ m.leader = n
BY DEF Calls, Message

-----------------------------------------------------------------------------
(***************************************************************************)
(* What the two handlers do, whoever calls them.                           *)
(***************************************************************************)

\* on_prepare up to its await: it asks for commits only with a majority of witnesses.
LEMMA PrepareEffect ==
  ASSUME TypeOK, Backed,
         NEW n \in Node, NEW r \in Req, NEW d \in Digest, NEW leader \in Node,
         <<leader, d>> \in seen,
         NEW msgs \in SUBSET net,
         OnPrepare(n, r, d, leader, msgs)
  PROVE  /\ prepared' \in [Node -> [Digest -> SUBSET Node]]
         /\ seen' = seen \cup {<<n, d>>}
         /\ \A p \in Node, e \in Digest : prepared'[p][e] \subseteq Witnesses(e)'
         /\ \A m \in net' : \/ m \in msgs
                            \/ /\ m \in Message
                               /\ m.path = "commit" /\ m.req = r
                               /\ m.digest = d /\ m.leader = n
                               /\ d \in BackedDigests'
         /\ \A t \in committing' : t \in committing \/ (t = <<r, n>> /\ d \in BackedDigests')
PROOF
<1> DEFINE P == Prepares(n, d, leader)
<1>1. prepared \in [Node -> [Digest -> SUBSET Node]]
  BY DEF TypeOK
<1>2. P \in SUBSET Node
  BY <1>1 DEF Prepares
<1>3. prepared' = [prepared EXCEPT ![n][d] = P] /\ seen' = seen \cup {<<n, d>>}
  BY DEF OnPrepare
<1>4. prepared' \in [Node -> [Digest -> SUBSET Node]]
  BY <1>1, <1>2, <1>3
<1>5. /\ \A e \in Digest : Witnesses(e) \subseteq Witnesses(e)'
      /\ BackedDigests \subseteq BackedDigests'
  BY <1>3, BackedGrows
<1>6. P \subseteq Witnesses(d)'
  <2>1. prepared[n][d] \subseteq Witnesses(d)'
    BY <1>5 DEF Backed
  <2>2. leader \in Witnesses(d)' /\ n \in Witnesses(d)'
    BY <1>3 DEF Witnesses
  <2> QED
    BY <2>1, <2>2 DEF Prepares
<1>7. \A p \in Node, e \in Digest : prepared'[p][e] \subseteq Witnesses(e)'
  <2>1. ASSUME NEW p \in Node, NEW e \in Digest
        PROVE  prepared'[p][e] \subseteq Witnesses(e)'
    <3>1. CASE p = n /\ e = d
      BY <1>1, <1>3, <1>6, <3>1
    <3>2. CASE ~(p = n /\ e = d)
      <4>1. prepared'[p][e] = prepared[p][e]
        BY <1>1, <1>3, <3>2
      <4> QED
        BY <4>1, <1>5 DEF Backed
    <3> QED
      BY <3>1, <3>2
  <2> QED
    BY <2>1
<1>8. ASSUME IsQuorum(P)
      PROVE  d \in BackedDigests'
  <2>1. Witnesses(d)' \in SUBSET Node
    BY DEF Witnesses
  <2>2. IsMajority(P)
    BY <1>2, <1>8, QuorumIsMajority
  <2>3. IsMajority(Witnesses(d)')
    BY <1>2, <1>6, <2>1, <2>2, MajorityGrows
  <2> QED
    BY <2>3 DEF BackedDigests, IsMajority
<1>9. CASE IsQuorum(P)
  <2>1. net' = msgs \cup Calls("commit", r, d, n) /\ committing' = committing \cup {<<r, n>>}
    BY <1>9 DEF OnPrepare
  <2> QED
    BY <1>3, <1>4, <1>7, <1>8, <1>9, <2>1, CallsAreMessages
<1>10. CASE ~IsQuorum(P)
  <2>1. net' = msgs /\ committing' = committing
    BY <1>10 DEF OnPrepare
  <2>2. (\A m \in net' : m \in msgs) /\ (\A t \in committing' : t \in committing)
    BY <2>1
  <2> QED
    BY <1>3, <1>4, <1>7, <2>2
<1> QED
  BY <1>9, <1>10

\* on_commit of a backed digest leaves nothing but traces of backed digests.
LEMMA CommitEffect ==
  ASSUME TypeOK, Requested, Backed,
         NEW n \in Node, NEW d \in Digest, NEW leader \in Node,
         d \in BackedDigests, BackedDigests \subseteq BackedDigests',
         OnCommit(n, d, leader)
  PROVE  /\ committed' \in [Node -> [Digest -> SUBSET Node]]
         /\ decided'   \in [Node -> SUBSET Digest]
         /\ pending'   \in [Node -> [Digest -> Req \cup {None}]]
         /\ futureSet' \subseteq Req
         /\ futureSet \subseteq futureSet'
         /\ \A p \in Node, e \in Digest :
              /\ pending'[p][e] # None => pending'[p][e] = pending[p][e]
              /\ committed'[p][e] # {} => e \in BackedDigests'
         /\ \A p \in Node : decided'[p] \subseteq BackedDigests'
         /\ \A r \in futureSet' \ futureSet : /\ r = pending[n][d]
                                              /\ phase[r] # "new"
                                              /\ digest[r] = d
PROOF
<1>1. /\ committed \in [Node -> [Digest -> SUBSET Node]]
      /\ decided   \in [Node -> SUBSET Digest]
      /\ pending   \in [Node -> [Digest -> Req \cup {None}]]
      /\ futureSet \subseteq Req
  BY DEF TypeOK
<1>2. Commits(n, d, leader) \in SUBSET Node
  BY <1>1 DEF Commits
<1>3. committed' = [committed EXCEPT ![n][d] = Commits(n, d, leader)]
  BY DEF OnCommit
<1>4. committed' \in [Node -> [Digest -> SUBSET Node]]
  BY <1>1, <1>2, <1>3
<1>5. ASSUME NEW p \in Node, NEW e \in Digest, committed'[p][e] # {}
      PROVE  e \in BackedDigests'
  <2>1. CASE p = n /\ e = d
    BY <2>1
  <2>2. CASE ~(p = n /\ e = d)
    <3>1. committed'[p][e] = committed[p][e]
      BY <1>1, <1>3, <2>2
    <3> QED
      BY <1>5, <3>1 DEF Backed
  <2> QED
    BY <2>1, <2>2
<1>6. \A p \in Node : decided[p] \subseteq BackedDigests'
  BY DEF Backed
<1>7. CASE d \notin decided[n] /\ IsQuorum(Commits(n, d, leader))
  <2>1. /\ decided' = [decided EXCEPT ![n] = @ \cup {d}]
        /\ pending' = [pending EXCEPT ![n][d] = None]
        /\ futureSet' = futureSet \cup {r \in {pending[n][d]} \ {None} : phase[r] \in Running}
    BY <1>7 DEF OnCommit
  <2>2. decided' \in [Node -> SUBSET Digest] /\ pending' \in [Node -> [Digest -> Req \cup {None}]]
    BY <1>1, <2>1
  <2>3. pending[n][d] \in Req \cup {None}
    BY <1>1
  <2>4. \A p \in Node, e \in Digest : pending'[p][e] # None => pending'[p][e] = pending[p][e]
    BY <1>1, <2>1
  <2>5. \A p \in Node : decided'[p] \subseteq BackedDigests'
    BY <1>1, <1>6, <2>1
  <2>6. \A r \in futureSet' \ futureSet : r = pending[n][d] /\ phase[r] \in Running /\ r # None
    BY <2>1
  <2>7. pending[n][d] # None => digest[pending[n][d]] = d
    BY DEF TypeOK
  <2> QED
    BY <1>1, <1>4, <1>5, <2>1, <2>2, <2>3, <2>4, <2>5, <2>6, <2>7 DEF Running
<1>8. CASE ~(d \notin decided[n] /\ IsQuorum(Commits(n, d, leader)))
  <2>1. decided' = decided /\ pending' = pending /\ futureSet' = futureSet
    BY <1>8 DEF OnCommit
  <2> QED
    BY <1>1, <1>4, <1>5, <1>6, <2>1
<1> QED
  BY <1>7, <1>8

-----------------------------------------------------------------------------
(***************************************************************************)
(* Typing and Requested and Backed, one lemma per action.                  *)
(***************************************************************************)

\* What held of the things under way still holds after a step in which
\* requests stay made and seen grows.
LEMMA Carried ==
  ASSUME Core, seen \subseteq seen',
         \A r \in Req : phase[r] # "new" => phase'[r] # "new" /\ digest'[r] = digest[r]
  PROVE  /\ \A m \in net : /\ phase'[m.req] # "new"
                           /\ digest'[m.req] = m.digest
                           /\ <<m.leader, m.digest>> \in seen'
                           /\ m.path = "commit" => m.digest \in BackedDigests'
         /\ \A t \in committing : /\ phase'[t[1]] # "new"
                                  /\ digest'[t[1]] \in BackedDigests'
         /\ \A r \in futureSet : /\ phase'[r] # "new"
                                 /\ digest'[r] \in BackedDigests'
         /\ \A s \in seen : \E r \in Req : phase'[r] # "new" /\ digest'[r] = s[2]
         /\ \A n \in Node, d \in Digest :
              /\ prepared[n][d] \subseteq Witnesses(d)'
              /\ committed[n][d] # {} => d \in BackedDigests'
         /\ \A n \in Node : decided[n] \subseteq BackedDigests'
         /\ \A r \in Req : phase[r] = "decided" => digest'[r] \in BackedDigests'
         /\ BackedDigests \subseteq BackedDigests'
PROOF
<1>1. /\ \A d \in Digest : Witnesses(d) \subseteq Witnesses(d)'
      /\ BackedDigests \subseteq BackedDigests'
  BY BackedGrows
<1>2. \A m \in net : /\ phase'[m.req] # "new"
                     /\ digest'[m.req] = m.digest
                     /\ <<m.leader, m.digest>> \in seen'
                     /\ m.path = "commit" => m.digest \in BackedDigests'
  <2>1. \A m \in net : m.req \in Req
    BY DEF Core, TypeOK, Message
  <2> QED
    BY <1>1, <2>1 DEF Core, Requested, Backed
<1>3. \A t \in committing : phase'[t[1]] # "new" /\ digest'[t[1]] \in BackedDigests'
  <2>1. \A t \in committing : t[1] \in Req
    BY DEF Core, TypeOK
  <2> QED
    BY <1>1, <2>1 DEF Core, Requested, Backed
<1>4. \A r \in futureSet : phase'[r] # "new" /\ digest'[r] \in BackedDigests'
  BY <1>1 DEF Core, TypeOK, Requested, Backed
<1>5. \A s \in seen : \E r \in Req : phase'[r] # "new" /\ digest'[r] = s[2]
  BY DEF Core, Requested
<1>6. \A n \in Node, d \in Digest :
        /\ prepared[n][d] \subseteq Witnesses(d)'
        /\ committed[n][d] # {} => d \in BackedDigests'
  BY <1>1 DEF Core, Backed
<1>7. \A n \in Node : decided[n] \subseteq BackedDigests'
  BY <1>1 DEF Core, Backed
<1>8. \A r \in Req : phase[r] = "decided" => digest'[r] \in BackedDigests'
  BY <1>1 DEF Core, Backed
<1> QED
  BY <1>1, <1>2, <1>3, <1>4, <1>5, <1>6, <1>7, <1>8

\* Nothing has been requested at the start.
LEMMA CoreInit == Init => Core
PROOF
<1> SUFFICES ASSUME Init
             PROVE  Core
  OBVIOUS
<1>1. TypeOK
  BY BoundsAreNat, NoneIsNeither DEF Init, TypeOK
<1>2. Requested
  BY DEF Init, Requested
<1>3. Backed
  BY DEF Init, Backed
<1> QED
  BY <1>1, <1>2, <1>3 DEF Core

\* A new request adds prepares of a digest its node has seen.
LEMMA RequestCore ==
  ASSUME Core, NEW r \in Req, NEW n \in Node, NEW d \in Digest, Request(r, n, d)
  PROVE  Core'
PROOF
<1>1. /\ phase[r] = "new"
      /\ at' = [at EXCEPT ![r] = n]
      /\ digest' = [digest EXCEPT ![r] = d]
      /\ phase' = [phase EXCEPT ![r] = "preparing"]
      /\ pending' = [pending EXCEPT ![n][d] = r]
      /\ net' = net \cup Calls("prepare", r, d, n)
      /\ seen' = seen \cup {<<n, d>>}
      /\ UNCHANGED <<prepared, committed, decided, futureSet, committing, losses, restarts>>
  BY DEF Request, faultVars
<1>2. TypeOK
  BY DEF Core
<1>3. /\ at' \in [Req -> Node \cup {None}]
      /\ digest' \in [Req -> Digest \cup {None}]
      /\ phase' \in [Req -> {"new", "failed"} \cup Running \cup Answered]
      /\ pending' \in [Node -> [Digest -> Req \cup {None}]]
      /\ phase'[r] = "preparing" /\ digest'[r] = d /\ at'[r] = n
      /\ \A q \in Req \ {r} : phase'[q] = phase[q] /\ digest'[q] = digest[q] /\ at'[q] = at[q]
  BY <1>1, <1>2 DEF TypeOK, Running
<1>4. \A q \in Req : phase[q] # "new" => phase'[q] # "new" /\ digest'[q] = digest[q]
  BY <1>1, <1>3
<1>5. net' \subseteq Message
  BY <1>1, <1>2, CallsAreMessages DEF TypeOK
<1>6. \A m \in net' \ net : m.path = "prepare" /\ m.req = r /\ m.digest = d /\ m.leader = n
  BY <1>1, CallsAreMessages
<1>7. \A p \in Node, e \in Digest : pending'[p][e] # None => digest'[pending'[p][e]] = e
  <2>1. ASSUME NEW p \in Node, NEW e \in Digest, pending'[p][e] # None
        PROVE  digest'[pending'[p][e]] = e
    <3>1. CASE p = n /\ e = d
      <4>1. pending'[p][e] = r
        BY <1>1, <1>2, <3>1 DEF TypeOK
      <4> QED
        BY <1>3, <3>1, <4>1
    <3>2. CASE ~(p = n /\ e = d)
      <4>1. pending'[p][e] = pending[p][e] /\ pending[p][e] \in Req
        BY <1>1, <1>2, <2>1, <3>2 DEF TypeOK
      <4>2. digest[pending[p][e]] = e
        BY <1>2, <2>1, <4>1 DEF TypeOK
      <4>3. phase[pending[p][e]] # "new"
        BY <4>1, <4>2, NoneIsNeither DEF Core, Requested
      <4> QED
        BY <1>4, <4>1, <4>2, <4>3
    <3> QED
      BY <3>1, <3>2
  <2> QED
    BY <2>1
<1>8. TypeOK'
  <2>1. seen' \subseteq Node \X Digest
    BY <1>1, <1>2 DEF TypeOK
  <2>2. \A q \in Req : phase'[q] # "new" => at'[q] # None /\ digest'[q] # None
    BY <1>2, <1>3, NoneIsNeither DEF TypeOK
  <2>3. /\ prepared' \in [Node -> [Digest -> SUBSET Node]]
        /\ committed' \in [Node -> [Digest -> SUBSET Node]]
        /\ decided' \in [Node -> SUBSET Digest]
        /\ futureSet' \subseteq Req
        /\ committing' \subseteq Req \X Node
        /\ losses' \in 0 .. MaxLosses
        /\ restarts' \in 0 .. MaxRestarts
    BY <1>1, <1>2 DEF TypeOK
  <2> QED
    BY <1>3, <1>5, <1>7, <2>1, <2>2, <2>3 DEF TypeOK
<1>9. Requested'
  <2>1. \A q \in Req : phase'[q] = "new" => at'[q] = None /\ digest'[q] = None
    BY <1>3 DEF Core, Requested
  <2>2. \A m \in net' : /\ phase'[m.req] # "new"
                        /\ digest'[m.req] = m.digest
                        /\ <<m.leader, m.digest>> \in seen'
    <3>1. seen \subseteq seen' /\ <<n, d>> \in seen'
      BY <1>1
    <3>2. \A m \in net : /\ phase'[m.req] # "new"
                         /\ digest'[m.req] = m.digest
                         /\ <<m.leader, m.digest>> \in seen'
      BY <1>4, <3>1, Carried
    <3>3. \A m \in net' \ net : /\ phase'[m.req] # "new"
                                /\ digest'[m.req] = m.digest
                                /\ <<m.leader, m.digest>> \in seen'
      BY <1>3, <1>6, <3>1
    <3> QED
      BY <3>2, <3>3
  <2>3. \A s \in seen' : \E q \in Req : phase'[q] # "new" /\ digest'[q] = s[2]
    BY <1>1, <1>3, <1>4, Carried
  <2>4. /\ \A t \in committing' : phase'[t[1]] # "new"
        /\ \A q \in futureSet' : phase'[q] # "new"
    BY <1>1, <1>4, Carried
  <2>5. \A q \in Req : phase'[q] # "new" => <<at'[q], digest'[q]>> \in seen'
    BY <1>1, <1>3 DEF Core, Requested
  <2> QED
    BY <2>1, <2>2, <2>3, <2>4, <2>5 DEF Requested
<1>10. Backed'
  <2>1. \A m \in net' : m.path = "commit" => m.digest \in BackedDigests'
    BY <1>1, <1>4, <1>6, Carried
  <2>2. \A q \in Req : phase'[q] = "decided" => digest'[q] \in BackedDigests'
    BY <1>1, <1>3, <1>4, Carried
  <2>3. /\ \A p \in Node, e \in Digest : /\ prepared'[p][e] \subseteq Witnesses(e)'
                                         /\ committed'[p][e] # {} => e \in BackedDigests'
        /\ \A p \in Node : decided'[p] \subseteq BackedDigests'
        /\ \A t \in committing' : digest'[t[1]] \in BackedDigests'
        /\ \A q \in futureSet' : digest'[q] \in BackedDigests'
    BY <1>1, <1>4, Carried
  <2> QED
    BY <2>1, <2>2, <2>3 DEF Backed
<1> QED
  BY <1>8, <1>9, <1>10 DEF Core

\* The two ways into on_prepare; only the net and the phase differ.
LEMMA PrepareCore ==
  ASSUME Core, NEW n \in Node, NEW r \in Req, NEW leader \in Node,
         <<leader, digest[r]>> \in seen, phase[r] # "new",
         NEW msgs \in SUBSET net,
         OnPrepare(n, r, digest[r], leader, msgs),
         phase' \in [Req -> {"new", "failed"} \cup Running \cup Answered],
         \A q \in Req : /\ phase'[q] = "new" <=> phase[q] = "new"
                        /\ phase'[q] = "decided" => phase[q] = "decided",
         UNCHANGED <<committed, decided, pending, at, digest, futureSet, losses, restarts>>
  PROVE  Core'
PROOF
<1> DEFINE d == digest[r]
<1>1. TypeOK /\ d \in Digest
  BY NoneIsNeither DEF Core, TypeOK
<1>2. /\ prepared' \in [Node -> [Digest -> SUBSET Node]]
      /\ seen' = seen \cup {<<n, d>>}
      /\ \A p \in Node, e \in Digest : prepared'[p][e] \subseteq Witnesses(e)'
      /\ \A m \in net' : \/ m \in msgs
                         \/ /\ m \in Message
                            /\ m.path = "commit" /\ m.req = r
                            /\ m.digest = d /\ m.leader = n
                            /\ d \in BackedDigests'
      /\ \A t \in committing' : t \in committing \/ (t = <<r, n>> /\ d \in BackedDigests')
  BY <1>1, PrepareEffect DEF Core
<1>3. /\ seen \subseteq seen' /\ <<n, d>> \in seen'
      /\ \A q \in Req : phase[q] # "new" => phase'[q] # "new" /\ digest'[q] = digest[q]
      /\ phase'[r] # "new" /\ digest'[r] = d
  BY <1>2
<1>4. TypeOK'
  <2>1. net' \subseteq Message
    BY <1>1, <1>2 DEF TypeOK
  <2>2. committing' \subseteq Req \X Node
    BY <1>1, <1>2 DEF TypeOK
  <2>3. seen' \subseteq Node \X Digest
    BY <1>1, <1>2 DEF TypeOK
  <2>4. \A q \in Req : phase'[q] # "new" => at'[q] # None /\ digest'[q] # None
    BY <1>1 DEF TypeOK
  <2> QED
    BY <1>1, <1>2, <2>1, <2>2, <2>3, <2>4 DEF TypeOK
<1>5. Requested'
  <2>1. \A q \in Req : phase'[q] = "new" => at'[q] = None /\ digest'[q] = None
    BY DEF Core, Requested
  <2>2. \A m \in net' : /\ phase'[m.req] # "new"
                        /\ digest'[m.req] = m.digest
                        /\ <<m.leader, m.digest>> \in seen'
    <3>1. \A m \in net : /\ phase'[m.req] # "new"
                         /\ digest'[m.req] = m.digest
                         /\ <<m.leader, m.digest>> \in seen'
      BY <1>3, Carried
    <3> QED
      BY <1>2, <1>3, <3>1
  <2>3. \A s \in seen' : \E q \in Req : phase'[q] # "new" /\ digest'[q] = s[2]
    BY <1>2, <1>3, Carried
  <2>4. \A t \in committing' : phase'[t[1]] # "new"
    BY <1>2, <1>3, Carried
  <2>5. \A q \in futureSet' : phase'[q] # "new"
    BY <1>3, Carried
  <2>6. \A q \in Req : phase'[q] # "new" => <<at'[q], digest'[q]>> \in seen'
    BY <1>3 DEF Core, Requested
  <2> QED
    BY <2>1, <2>2, <2>3, <2>4, <2>5, <2>6 DEF Requested
<1>6. Backed'
  <2>1. \A m \in net' : m.path = "commit" => m.digest \in BackedDigests'
    <3>1. \A m \in net : m.path = "commit" => m.digest \in BackedDigests'
      BY <1>3, Carried
    <3> QED
      BY <1>2, <3>1
  <2>2. \A t \in committing' : digest'[t[1]] \in BackedDigests'
    BY <1>2, <1>3, Carried
  <2>3. /\ \A p \in Node, e \in Digest : committed'[p][e] # {} => e \in BackedDigests'
        /\ \A p \in Node : decided'[p] \subseteq BackedDigests'
        /\ \A q \in futureSet' : digest'[q] \in BackedDigests'
        /\ \A q \in Req : phase'[q] = "decided" => digest'[q] \in BackedDigests'
    BY <1>3, Carried
  <2> QED
    BY <1>2, <2>1, <2>2, <2>3 DEF Backed
<1> QED
  BY <1>4, <1>5, <1>6 DEF Core

\* The node of a request has seen its digest.
LEMMA SelfPrepareCore ==
  ASSUME Core, NEW r \in Req, SelfPrepare(r)
  PROVE  Core'
PROOF
<1>1. /\ phase[r] = "preparing"
      /\ OnPrepare(at[r], r, digest[r], at[r], net)
      /\ phase' = [phase EXCEPT ![r] =
           IF IsQuorum(Prepares(at[r], digest[r], at[r])) THEN "committing" ELSE "waiting"]
      /\ UNCHANGED <<committed, decided, pending, at, digest, futureSet, losses, restarts>>
  BY DEF SelfPrepare, faultVars
<1>2. at[r] \in Node /\ phase \in [Req -> {"new", "failed"} \cup Running \cup Answered]
  BY <1>1 DEF Core, TypeOK
<1>3. <<at[r], digest[r]>> \in seen
  BY <1>1 DEF Core, Requested
<1> QED
  BY <1>1, <1>2, <1>3, PrepareCore DEF Running

\* The sender of a prepare has seen its digest.
LEMMA HandlePrepareCore ==
  ASSUME Core, NEW m \in net, HandlePrepare(m)
  PROVE  Core'
PROOF
<1>1. /\ OnPrepare(m.to, m.req, m.digest, m.leader, net \ {m})
      /\ UNCHANGED <<committed, decided, pending, at, digest, phase, futureSet, losses, restarts>>
  BY DEF HandlePrepare, faultVars, requestVars
<1>2. m.to \in Node /\ m.req \in Req /\ m.leader \in Node
  BY DEF Core, TypeOK, Message
<1>3. digest[m.req] = m.digest /\ <<m.leader, m.digest>> \in seen /\ phase[m.req] # "new"
  BY DEF Core, Requested
<1>4. phase' \in [Req -> {"new", "failed"} \cup Running \cup Answered]
  BY <1>1 DEF Core, TypeOK
<1> QED
  BY <1>1, <1>2, <1>3, <1>4, PrepareCore

\* The two ways into on_commit.
LEMMA CommitCore ==
  ASSUME Core, NEW n \in Node, NEW d \in BackedDigests, NEW leader \in Node,
         OnCommit(n, d, leader),
         net' \subseteq net, committing' \subseteq committing,
         phase' \in [Req -> {"new", "failed"} \cup Running \cup Answered],
         \A q \in Req : /\ phase'[q] = "new" <=> phase[q] = "new"
                        /\ phase'[q] = "decided" => phase[q] = "decided",
         UNCHANGED <<prepared, at, digest, losses, restarts, seen>>
  PROVE  Core'
PROOF
<1>1. TypeOK /\ Requested /\ Backed /\ d \in Digest
  BY DEF Core, BackedDigests
<1>2. /\ seen \subseteq seen'
      /\ \A q \in Req : phase[q] # "new" => phase'[q] # "new" /\ digest'[q] = digest[q]
  OBVIOUS
<1>3. BackedDigests \subseteq BackedDigests'
  BY <1>2, Carried
<1>4. /\ committed' \in [Node -> [Digest -> SUBSET Node]]
      /\ decided'   \in [Node -> SUBSET Digest]
      /\ pending'   \in [Node -> [Digest -> Req \cup {None}]]
      /\ futureSet' \subseteq Req
      /\ \A p \in Node, e \in Digest :
           /\ pending'[p][e] # None => pending'[p][e] = pending[p][e]
           /\ committed'[p][e] # {} => e \in BackedDigests'
      /\ \A p \in Node : decided'[p] \subseteq BackedDigests'
      /\ \A r \in futureSet' \ futureSet : phase[r] # "new" /\ digest[r] = d
  BY <1>1, <1>3, CommitEffect
<1>5. TypeOK'
  <2>1. net' \subseteq Message /\ committing' \subseteq Req \X Node
    BY <1>1 DEF TypeOK
  <2>2. \A q \in Req : phase'[q] # "new" => at'[q] # None /\ digest'[q] # None
    BY <1>1 DEF TypeOK
  <2>3. \A p \in Node, e \in Digest : pending'[p][e] # None => digest'[pending'[p][e]] = e
    BY <1>1, <1>4 DEF TypeOK
  <2>4. /\ prepared' \in [Node -> [Digest -> SUBSET Node]]
        /\ at' \in [Req -> Node \cup {None}]
        /\ digest' \in [Req -> Digest \cup {None}]
        /\ losses' \in 0 .. MaxLosses
        /\ restarts' \in 0 .. MaxRestarts
        /\ seen' \subseteq Node \X Digest
    BY <1>1 DEF TypeOK
  <2> QED
    BY <1>4, <2>1, <2>2, <2>3, <2>4 DEF TypeOK
<1>6. Requested'
  <2>1. \A q \in futureSet' : phase'[q] # "new"
    BY <1>1, <1>4 DEF Requested
  <2>2. /\ \A m \in net' : /\ phase'[m.req] # "new"
                           /\ digest'[m.req] = m.digest
                           /\ <<m.leader, m.digest>> \in seen'
        /\ \A t \in committing' : phase'[t[1]] # "new"
        /\ \A s \in seen' : \E q \in Req : phase'[q] # "new" /\ digest'[q] = s[2]
    BY <1>2, Carried
  <2>3. \A q \in Req : /\ phase'[q] = "new" => at'[q] = None /\ digest'[q] = None
                       /\ phase'[q] # "new" => <<at'[q], digest'[q]>> \in seen'
    BY <1>1 DEF Requested
  <2> QED
    BY <2>1, <2>2, <2>3 DEF Requested
<1>7. Backed'
  <2>1. \A q \in futureSet' : digest'[q] \in BackedDigests'
    BY <1>2, <1>3, <1>4, Carried
  <2>2. /\ \A m \in net' : m.path = "commit" => m.digest \in BackedDigests'
        /\ \A t \in committing' : digest'[t[1]] \in BackedDigests'
        /\ \A p \in Node, e \in Digest : prepared'[p][e] \subseteq Witnesses(e)'
        /\ \A q \in Req : phase'[q] = "decided" => digest'[q] \in BackedDigests'
    BY <1>2, Carried
  <2> QED
    BY <1>4, <2>1, <2>2 DEF Backed
<1> QED
  BY <1>5, <1>6, <1>7 DEF Core

\* A broadcast of commits is of a backed digest.
LEMMA SelfCommitCore ==
  ASSUME Core, NEW r \in Req, NEW n \in Node, SelfCommit(r, n)
  PROVE  Core'
PROOF
<1>1. /\ <<r, n>> \in committing
      /\ committing' = committing \ {<<r, n>>}
      /\ OnCommit(n, digest[r], n)
      /\ phase' = IF n = at[r] THEN [phase EXCEPT ![r] = "waiting"] ELSE phase
      /\ UNCHANGED <<prepared, at, digest, net, losses, restarts, seen>>
  BY DEF SelfCommit, faultVars
<1>2. phase \in [Req -> {"new", "failed"} \cup Running \cup Answered]
  BY DEF Core, TypeOK
<1>3. digest[r] \in BackedDigests /\ phase[r] # "new"
  BY <1>1 DEF Core, Requested, Backed
<1>4. /\ phase' \in [Req -> {"new", "failed"} \cup Running \cup Answered]
      /\ \A q \in Req : /\ phase'[q] = "new" <=> phase[q] = "new"
                        /\ phase'[q] = "decided" => phase[q] = "decided"
  <2>1. CASE n = at[r]
    <3>1. phase' = [phase EXCEPT ![r] = "waiting"]
      BY <1>1, <2>1
    <3> QED
      BY <1>2, <1>3, <3>1 DEF Running
  <2>2. CASE n # at[r]
    BY <1>1, <1>2, <2>2
  <2> QED
    BY <2>1, <2>2
<1> QED
  BY <1>1, <1>3, <1>4, CommitCore

\* A commit under way is of a backed digest.
LEMMA HandleCommitCore ==
  ASSUME Core, NEW m \in net, HandleCommit(m)
  PROVE  Core'
PROOF
<1>1. /\ m.path = "commit"
      /\ net' = net \ {m}
      /\ OnCommit(m.to, m.digest, m.leader)
      /\ UNCHANGED <<prepared, at, digest, phase, committing, losses, restarts, seen>>
  BY DEF HandleCommit, faultVars, requestVars
<1>2. m.to \in Node /\ m.leader \in Node
  BY DEF Core, TypeOK, Message
<1>3. m.digest \in BackedDigests
  BY <1>1 DEF Core, Backed
<1>4. phase' \in [Req -> {"new", "failed"} \cup Running \cup Answered]
  BY <1>1 DEF Core, TypeOK
<1> QED
  BY <1>1, <1>2, <1>3, <1>4, CommitCore

\* A step that learns nothing new: answers, faults and stuttering.
LEMMA ForgetCore ==
  ASSUME Core,
         prepared'  \in [Node -> [Digest -> SUBSET Node]],
         committed' \in [Node -> [Digest -> SUBSET Node]],
         decided'   \in [Node -> SUBSET Digest],
         pending'   \in [Node -> [Digest -> Req \cup {None}]],
         \A n \in Node, d \in Digest :
           /\ prepared'[n][d] \subseteq prepared[n][d]
           /\ committed'[n][d] \subseteq committed[n][d]
           /\ pending'[n][d] # None => pending'[n][d] = pending[n][d],
         \A n \in Node : decided'[n] \subseteq decided[n],
         net' \subseteq net, committing' \subseteq committing,
         phase' \in [Req -> {"new", "failed"} \cup Running \cup Answered],
         \A q \in Req : /\ phase'[q] = "new" <=> phase[q] = "new"
                        /\ phase'[q] = "decided" => phase[q] = "decided" \/ q \in futureSet,
         losses' \in 0 .. MaxLosses, restarts' \in 0 .. MaxRestarts,
         UNCHANGED <<at, digest, futureSet, seen>>
  PROVE  Core'
PROOF
<1>1. TypeOK /\ Requested /\ Backed
  BY DEF Core
<1>2. /\ seen \subseteq seen'
      /\ \A q \in Req : phase[q] # "new" => phase'[q] # "new" /\ digest'[q] = digest[q]
  OBVIOUS
<1>3. TypeOK'
  <2>1. net' \subseteq Message /\ committing' \subseteq Req \X Node
    BY <1>1 DEF TypeOK
  <2>2. \A q \in Req : phase'[q] # "new" => at'[q] # None /\ digest'[q] # None
    BY <1>1 DEF TypeOK
  <2>3. \A p \in Node, e \in Digest : pending'[p][e] # None => digest'[pending'[p][e]] = e
    BY <1>1 DEF TypeOK
  <2>4. /\ at' \in [Req -> Node \cup {None}]
        /\ digest' \in [Req -> Digest \cup {None}]
        /\ futureSet' \subseteq Req
        /\ seen' \subseteq Node \X Digest
    BY <1>1 DEF TypeOK
  <2> QED
    BY <2>1, <2>2, <2>3, <2>4 DEF TypeOK
<1>4. Requested'
  <2>1. /\ \A m \in net' : /\ phase'[m.req] # "new"
                           /\ digest'[m.req] = m.digest
                           /\ <<m.leader, m.digest>> \in seen'
        /\ \A t \in committing' : phase'[t[1]] # "new"
        /\ \A q \in futureSet' : phase'[q] # "new"
        /\ \A s \in seen' : \E q \in Req : phase'[q] # "new" /\ digest'[q] = s[2]
    BY <1>2, Carried
  <2>2. \A q \in Req : /\ phase'[q] = "new" => at'[q] = None /\ digest'[q] = None
                       /\ phase'[q] # "new" => <<at'[q], digest'[q]>> \in seen'
    BY <1>1 DEF Requested
  <2> QED
    BY <2>1, <2>2 DEF Requested
<1>5. Backed'
  <2>1. \A n \in Node, d \in Digest : /\ prepared'[n][d] \subseteq Witnesses(d)'
                                      /\ committed'[n][d] # {} => d \in BackedDigests'
    <3>1. \A n \in Node, d \in Digest : /\ prepared[n][d] \subseteq Witnesses(d)'
                                        /\ committed[n][d] # {} => d \in BackedDigests'
      BY <1>2, Carried
    <3> QED
      BY <3>1
  <2>2. \A n \in Node : decided'[n] \subseteq BackedDigests'
    BY <1>2, Carried
  <2>3. /\ \A m \in net' : m.path = "commit" => m.digest \in BackedDigests'
        /\ \A t \in committing' : digest'[t[1]] \in BackedDigests'
        /\ \A q \in futureSet' : digest'[q] \in BackedDigests'
        /\ \A q \in Req : phase'[q] = "decided" => digest'[q] \in BackedDigests'
    BY <1>2, Carried
  <2> QED
    BY <2>1, <2>2, <2>3 DEF Backed
<1> QED
  BY <1>3, <1>4, <1>5 DEF Core

\* Only a future that was set answers decided.
LEMMA AnswerCore ==
  ASSUME Core, NEW r \in Req, Answer(r)
  PROVE  Core'
PROOF
<1>1. /\ phase[r] = "waiting"
      /\ phase' = [phase EXCEPT ![r] = IF r \in futureSet THEN "decided" ELSE "undecided"]
      /\ UNCHANGED <<prepared, committed, decided, pending, at, digest, futureSet,
                     committing, net, losses, restarts, seen>>
  BY DEF Answer, faultVars
<1>2. TypeOK
  BY DEF Core
<1>3. /\ phase' \in [Req -> {"new", "failed"} \cup Running \cup Answered]
      /\ \A q \in Req : /\ phase'[q] = "new" <=> phase[q] = "new"
                        /\ phase'[q] = "decided" => phase[q] = "decided" \/ q \in futureSet
  BY <1>1, <1>2 DEF TypeOK, Answered
<1>4. /\ prepared'  \in [Node -> [Digest -> SUBSET Node]]
      /\ committed' \in [Node -> [Digest -> SUBSET Node]]
      /\ decided'   \in [Node -> SUBSET Digest]
      /\ pending'   \in [Node -> [Digest -> Req \cup {None}]]
      /\ losses' \in 0 .. MaxLosses /\ restarts' \in 0 .. MaxRestarts
  BY <1>1, <1>2 DEF TypeOK
<1> QED
  BY <1>1, <1>3, <1>4, ForgetCore

\* A lost call takes nothing back that was seen.
LEMMA LoseCore ==
  ASSUME Core, NEW m \in net, Lose(m)
  PROVE  Core'
PROOF
<1>1. /\ losses < MaxLosses /\ losses' = losses + 1
      /\ net' = net \ {m}
      /\ UNCHANGED <<prepared, committed, decided, pending, at, digest, phase, futureSet,
                     committing, restarts, seen>>
  BY DEF Lose, requestVars
<1>2. TypeOK
  BY DEF Core
<1>3. losses' \in 0 .. MaxLosses
  BY <1>1, <1>2, BoundsAreNat DEF TypeOK
<1>4. /\ prepared'  \in [Node -> [Digest -> SUBSET Node]]
      /\ committed' \in [Node -> [Digest -> SUBSET Node]]
      /\ decided'   \in [Node -> SUBSET Digest]
      /\ pending'   \in [Node -> [Digest -> Req \cup {None}]]
      /\ phase' \in [Req -> {"new", "failed"} \cup Running \cup Answered]
      /\ restarts' \in 0 .. MaxRestarts
  BY <1>1, <1>2 DEF TypeOK
<1> QED
  BY <1>1, <1>3, <1>4, ForgetCore

\* A restart forgets, and what it forgets was seen all the same.
LEMMA RestartCore ==
  ASSUME Core, NEW n \in Node, Restart(n)
  PROVE  Core'
PROOF
<1>1. /\ restarts < MaxRestarts /\ restarts' = restarts + 1
      /\ prepared' = [prepared EXCEPT ![n] = [d \in Digest |-> {}]]
      /\ committed' = [committed EXCEPT ![n] = [d \in Digest |-> {}]]
      /\ decided' = [decided EXCEPT ![n] = {}]
      /\ pending' = [pending EXCEPT ![n] = [d \in Digest |-> None]]
      /\ committing' = {t \in committing : t[2] # n}
      /\ phase' = [r \in Req |-> IF at[r] = n /\ phase[r] \in Running
                                   THEN "failed" ELSE phase[r]]
      /\ net' \subseteq net
      /\ UNCHANGED <<at, digest, futureSet, losses, seen>>
  BY DEF Restart
<1>2. TypeOK
  BY DEF Core
<1>3. restarts' \in 0 .. MaxRestarts /\ losses' \in 0 .. MaxLosses
  BY <1>1, <1>2, BoundsAreNat DEF TypeOK
<1>4. /\ prepared'  \in [Node -> [Digest -> SUBSET Node]]
      /\ \A p \in Node, d \in Digest : prepared'[p][d] \subseteq prepared[p][d]
  BY <1>1, <1>2 DEF TypeOK
<1>5. /\ committed' \in [Node -> [Digest -> SUBSET Node]]
      /\ \A p \in Node, d \in Digest : committed'[p][d] \subseteq committed[p][d]
  BY <1>1, <1>2 DEF TypeOK
<1>6. /\ decided' \in [Node -> SUBSET Digest]
      /\ \A p \in Node : decided'[p] \subseteq decided[p]
  BY <1>1, <1>2 DEF TypeOK
<1>7. /\ pending' \in [Node -> [Digest -> Req \cup {None}]]
      /\ \A p \in Node, d \in Digest : pending'[p][d] # None => pending'[p][d] = pending[p][d]
  BY <1>1, <1>2 DEF TypeOK
<1>8. /\ phase' \in [Req -> {"new", "failed"} \cup Running \cup Answered]
      /\ \A q \in Req : /\ phase'[q] = "new" <=> phase[q] = "new"
                        /\ phase'[q] = "decided" => phase[q] = "decided"
  BY <1>1, <1>2 DEF TypeOK, Running
<1>9. committing' \subseteq committing
  BY <1>1
<1> QED
  BY <1>1, <1>3, <1>4, <1>5, <1>6, <1>7, <1>8, <1>9, ForgetCore

\* The three conjuncts together are preserved by every step.
LEMMA CoreStep == Core /\ [Next]_vars => Core'
PROOF
<1> SUFFICES ASSUME Core, [Next]_vars
             PROVE  Core'
  OBVIOUS
<1>1. CASE \E r \in Req, n \in Node, d \in Digest : Request(r, n, d)
  BY <1>1, RequestCore
<1>2. CASE \E r \in Req : SelfPrepare(r)
  BY <1>2, SelfPrepareCore
<1>3. CASE \E r \in Req : Answer(r)
  BY <1>3, AnswerCore
<1>4. CASE \E r \in Req, n \in Node : SelfCommit(r, n)
  BY <1>4, SelfCommitCore
<1>5. CASE \E m \in net : HandlePrepare(m)
  BY <1>5, HandlePrepareCore
<1>6. CASE \E m \in net : HandleCommit(m)
  BY <1>6, HandleCommitCore
<1>7. CASE \E m \in net : Lose(m)
  BY <1>7, LoseCore
<1>8. CASE \E n \in Node : Restart(n)
  BY <1>8, RestartCore
<1>9. CASE UNCHANGED vars
  <2>1. UNCHANGED <<prepared, committed, decided, pending, at, digest, phase, futureSet,
                    committing, net, losses, restarts, seen>>
    BY <1>9 DEF vars, requestVars, faultVars
  <2>2. /\ prepared'  \in [Node -> [Digest -> SUBSET Node]]
        /\ committed' \in [Node -> [Digest -> SUBSET Node]]
        /\ decided'   \in [Node -> SUBSET Digest]
        /\ pending'   \in [Node -> [Digest -> Req \cup {None}]]
        /\ phase' \in [Req -> {"new", "failed"} \cup Running \cup Answered]
        /\ losses' \in 0 .. MaxLosses /\ restarts' \in 0 .. MaxRestarts
    BY <2>1 DEF Core, TypeOK
  <2> QED
    BY <2>1, <2>2, ForgetCore
<1> QED
  BY <1>1, <1>2, <1>3, <1>4, <1>5, <1>6, <1>7, <1>8, <1>9 DEF Next

-----------------------------------------------------------------------------
(***************************************************************************)
(* OwnBroadcast and Registered.                                            *)
(***************************************************************************)

\* Prepares go to peers only, and a restart ends the broadcasts of its node.
LEMMA OwnBroadcastStep == Core /\ OwnBroadcast /\ [Next]_vars => OwnBroadcast'
PROOF
<1> SUFFICES ASSUME Core, OwnBroadcast, [Next]_vars
             PROVE  OwnBroadcast'
  OBVIOUS
<1> USE DEF OwnBroadcast
<1>1. ASSUME NEW r \in Req, NEW n \in Node, NEW d \in Digest, Request(r, n, d)
      PROVE  OwnBroadcast'
  <2>1. /\ phase[r] = "new"
        /\ at' = [at EXCEPT ![r] = n]
        /\ phase' = [phase EXCEPT ![r] = "preparing"]
        /\ net' = net \cup Calls("prepare", r, d, n)
        /\ committing' = committing
    BY <1>1 DEF Request
  <2>2. /\ at'[r] = n
        /\ \A q \in Req \ {r} : at'[q] = at[q] /\ phase'[q] = phase[q]
    BY <2>1 DEF Core, TypeOK
  <2>3. \A m \in net : m.req \in Req \ {r}
    <3>1. \A m \in net : m.req \in Req
      BY DEF Core, TypeOK, Message
    <3>2. \A m \in net : phase[m.req] # "new"
      BY DEF Core, Requested
    <3> QED
      BY <2>1, <3>1, <3>2
  <2>4. \A m \in Calls("prepare", r, d, n) : m.req = r /\ m.leader = n /\ m.to # n
    BY DEF Calls
  <2>5. \A t \in committing : t[1] # r
    BY <2>1 DEF Core, Requested
  <2>6. \A m \in net' : m.path = "prepare" => m.leader = at'[m.req] /\ m.to # m.leader
    BY <2>1, <2>2, <2>3, <2>4
  <2>7. \A q \in Req : <<q, at'[q]>> \in committing' => phase'[q] = "committing"
    BY <2>1, <2>2, <2>5
  <2> QED
    BY <2>6, <2>7
<1>2. ASSUME NEW n \in Node, NEW r \in Req, NEW d, NEW leader, NEW msgs \in SUBSET net,
             OnPrepare(n, r, d, leader, msgs)
      PROVE  /\ \A m \in net' : m \in net \/ m.path = "commit"
             /\ \A t \in committing' : \/ t \in committing
                                       \/ t = <<r, n>> /\ IsQuorum(Prepares(n, d, leader))
  <2>1. CASE IsQuorum(Prepares(n, d, leader))
    BY <1>2, <2>1 DEF OnPrepare, Calls
  <2>2. CASE ~IsQuorum(Prepares(n, d, leader))
    BY <1>2, <2>2 DEF OnPrepare
  <2> QED
    BY <2>1, <2>2
<1>3. ASSUME NEW r \in Req, SelfPrepare(r)
      PROVE  OwnBroadcast'
  <2>1. /\ phase[r] = "preparing" /\ at' = at
        /\ OnPrepare(at[r], r, digest[r], at[r], net)
        /\ phase' = [phase EXCEPT ![r] =
             IF IsQuorum(Prepares(at[r], digest[r], at[r])) THEN "committing" ELSE "waiting"]
    BY <1>3 DEF SelfPrepare
  <2>2. at[r] \in Node
    BY <2>1 DEF Core, TypeOK
  <2>3. /\ \A m \in net' : m \in net \/ m.path = "commit"
        /\ \A t \in committing' :
             \/ t \in committing
             \/ t = <<r, at[r]>> /\ IsQuorum(Prepares(at[r], digest[r], at[r]))
    BY <1>2, <2>1, <2>2
  <2>4. <<r, at[r]>> \notin committing
    BY <2>1
  <2>5. \A q \in Req : <<q, at'[q]>> \in committing' => phase'[q] = "committing"
    <3>1. ASSUME NEW q \in Req, <<q, at[q]>> \in committing'
          PROVE  phase'[q] = "committing"
      <4>1. CASE q = r
        <5>1. IsQuorum(Prepares(at[r], digest[r], at[r]))
          BY <2>3, <2>4, <3>1, <4>1
        <5> QED
          BY <2>1, <4>1, <5>1 DEF Core, TypeOK
      <4>2. CASE q # r
        <5>1. <<q, at[q]>> \in committing
          BY <2>3, <3>1, <4>2
        <5> QED
          BY <2>1, <4>2, <5>1 DEF Core, TypeOK
      <4> QED
        BY <4>1, <4>2
    <3> QED
      BY <2>1, <3>1
  <2>6. \A m \in net' : m.path = "prepare" => m.leader = at'[m.req] /\ m.to # m.leader
    BY <2>1, <2>3
  <2> QED
    BY <2>5, <2>6
<1>4. ASSUME NEW m \in net, HandlePrepare(m)
      PROVE  OwnBroadcast'
  <2>1. /\ m.path = "prepare" /\ at' = at /\ phase' = phase
        /\ OnPrepare(m.to, m.req, m.digest, m.leader, net \ {m})
    BY <1>4 DEF HandlePrepare, requestVars
  <2>2. m.to \in Node /\ m.req \in Req
    BY DEF Core, TypeOK, Message
  <2>3. m.to # at[m.req]
    BY <2>1
  <2>4. /\ \A x \in net' : x \in net \/ x.path = "commit"
        /\ \A t \in committing' : t \in committing \/ t = <<m.req, m.to>>
    BY <1>2, <2>1, <2>2
  <2> QED
    BY <2>1, <2>3, <2>4
<1>5. ASSUME NEW r \in Req, Answer(r)
      PROVE  OwnBroadcast'
  <2>1. /\ phase[r] = "waiting" /\ UNCHANGED <<at, net, committing>>
        /\ \A q \in Req \ {r} : phase'[q] = phase[q]
    BY <1>5 DEF Answer, Core, TypeOK
  <2> QED
    BY <2>1
<1>6. ASSUME NEW r \in Req, NEW n \in Node, SelfCommit(r, n)
      PROVE  OwnBroadcast'
  <2>1. /\ committing' = committing \ {<<r, n>>}
        /\ phase' = IF n = at[r] THEN [phase EXCEPT ![r] = "waiting"] ELSE phase
        /\ UNCHANGED <<at, net>>
    BY <1>6 DEF SelfCommit
  <2>2. \A q \in Req \ {r} : phase'[q] = phase[q]
    BY <2>1 DEF Core, TypeOK
  <2>3. n # at[r] => phase' = phase
    BY <2>1
  <2> QED
    BY <2>1, <2>2, <2>3
<1>7. ASSUME NEW m \in net, HandleCommit(m) \/ Lose(m)
      PROVE  OwnBroadcast'
  <2>1. net' \subseteq net /\ UNCHANGED <<at, phase, committing>>
    BY <1>7 DEF HandleCommit, Lose, requestVars
  <2> QED
    BY <2>1
<1>8. ASSUME NEW n \in Node, Restart(n)
      PROVE  OwnBroadcast'
  <2>1. /\ committing' = {t \in committing : t[2] # n}
        /\ phase' = [r \in Req |-> IF at[r] = n /\ phase[r] \in Running
                                     THEN "failed" ELSE phase[r]]
        /\ net' \subseteq net /\ at' = at
    BY <1>8 DEF Restart
  <2> QED
    BY <2>1
<1>9. CASE UNCHANGED vars
  BY <1>9 DEF vars, requestVars
<1> QED
  BY <1>1, <1>3, <1>4, <1>5, <1>6, <1>7, <1>8, <1>9 DEF Next

\* on_commit pops the future of the only request for a digest and sets it.
LEMMA CommitRegisters ==
  ASSUME Core, Registered, NEW n \in Node, NEW d \in Digest, NEW leader,
         OnCommit(n, d, leader),
         NEW r \in Req, phase[r] \in Running, Alone(r)
  PROVE  /\ pending'[at[r]][digest[r]] = r \/ r \in futureSet'
         /\ digest[r] \in decided'[at[r]] => r \in futureSet'
PROOF
<1>1. /\ pending[at[r]][digest[r]] = r \/ r \in futureSet
      /\ digest[r] \in decided[at[r]] => r \in futureSet
  BY DEF Registered
<1>2. at[r] \in Node /\ digest[r] \in Digest /\ r # None
  BY NoneIsNeither DEF Core, TypeOK, Running
<1>3. CASE d \notin decided[n] /\ IsQuorum(Commits(n, d, leader))
  <2>1. /\ decided' = [decided EXCEPT ![n] = @ \cup {d}]
        /\ pending' = [pending EXCEPT ![n][d] = None]
        /\ futureSet' = futureSet \cup {q \in {pending[n][d]} \ {None} : phase[q] \in Running}
    BY <1>3 DEF OnCommit
  <2>2. CASE n = at[r] /\ d = digest[r]
    BY <1>1, <1>2, <2>1, <2>2
  <2>3. CASE ~(n = at[r] /\ d = digest[r])
    <3>1. /\ pending'[at[r]][digest[r]] = pending[at[r]][digest[r]]
          /\ digest[r] \in decided'[at[r]] => digest[r] \in decided[at[r]]
      BY <1>2, <2>1, <2>3 DEF Core, TypeOK
    <3> QED
      BY <1>1, <2>1, <3>1
  <2> QED
    BY <2>2, <2>3
<1>4. CASE ~(d \notin decided[n] /\ IsQuorum(Commits(n, d, leader)))
  <2>1. UNCHANGED <<decided, pending, futureSet>>
    BY <1>4 DEF OnCommit
  <2> QED
    BY <1>1, <2>1
<1> QED
  BY <1>3, <1>4

\* Only a request for the same digest can take the place of a future.
LEMMA RegisteredStep == Core /\ OwnBroadcast /\ Registered /\ [Next]_vars => Registered'
PROOF
<1> SUFFICES ASSUME Core, OwnBroadcast, Registered, [Next]_vars,
                    NEW r \in Req, phase'[r] \in Running, Alone(r)'
             PROVE  /\ pending'[at'[r]][digest'[r]] = r \/ r \in futureSet'
                    /\ digest'[r] \in decided'[at'[r]] => r \in futureSet'
  BY DEF Registered
<1> DEFINE Goal == /\ pending'[at'[r]][digest'[r]] = r \/ r \in futureSet'
                   /\ digest'[r] \in decided'[at'[r]] => r \in futureSet'
<1>1. ASSUME at' = at, digest' = digest, phase[r] \in Running,
             UNCHANGED <<pending, futureSet, decided>>
      PROVE  Goal
  BY <1>1 DEF Registered, Alone
<1>2. ASSUME at' = at, digest' = digest, phase[r] \in Running,
             NEW n \in Node, NEW d \in Digest, NEW leader, OnCommit(n, d, leader)
      PROVE  Goal
  <2>1. Alone(r)
    BY <1>2 DEF Alone
  <2> QED
    BY <1>2, <2>1, CommitRegisters
<1>3. ASSUME NEW q \in Req, NEW n \in Node, NEW d \in Digest, Request(q, n, d)
      PROVE  Goal
  <2>1. /\ phase[q] = "new"
        /\ at' = [at EXCEPT ![q] = n]
        /\ digest' = [digest EXCEPT ![q] = d]
        /\ phase' = [phase EXCEPT ![q] = "preparing"]
        /\ pending' = [pending EXCEPT ![n][d] = q]
        /\ UNCHANGED <<decided, futureSet>>
    BY <1>3 DEF Request
  <2>2. /\ at'[q] = n /\ digest'[q] = d
        /\ \A p \in Req \ {q} : /\ at'[p] = at[p] /\ digest'[p] = digest[p]
                                /\ phase'[p] = phase[p]
    BY <2>1 DEF Core, TypeOK
  <2>3. CASE r = q
    <3>1. pending'[n][d] = q
      BY <2>1 DEF Core, TypeOK
    <3>2. ASSUME d \in decided[n]
          PROVE  FALSE
      <4>1. d \in BackedDigests
        BY <3>2 DEF Core, Backed
      <4>2. PICK p \in Req : phase[p] # "new" /\ digest[p] = d
        BY <4>1, BackedIsRequested DEF Core
      <4>3. p # r /\ digest'[p] = d
        BY <2>1, <2>2, <2>3, <4>2
      <4> QED
        BY <2>2, <2>3, <4>3 DEF Alone
    <3> QED
      BY <2>1, <2>2, <2>3, <3>1, <3>2
  <2>4. CASE r # q
    <3>1. phase[r] \in Running /\ digest'[r] = digest[r] /\ at'[r] = at[r]
      BY <2>2, <2>4
    <3>2. at[r] \in Node /\ digest[r] \in Digest
      BY <3>1 DEF Core, TypeOK, Running
    <3>3. d # digest[r]
      BY <2>2, <2>4 DEF Alone
    <3>4. Alone(r)
      <4>1. ASSUME NEW p \in Req \ {r}
            PROVE  digest[p] # digest[r]
        <5>1. CASE p = q
          BY <2>1, <3>2, <5>1, NoneIsNeither DEF Core, Requested
        <5>2. CASE p # q
          BY <2>2, <2>4, <4>1, <5>2 DEF Alone
        <5> QED
          BY <5>1, <5>2
      <4> QED
        BY <4>1 DEF Alone
    <3>5. pending'[at[r]][digest[r]] = pending[at[r]][digest[r]]
      BY <2>1, <3>2, <3>3 DEF Core, TypeOK
    <3> QED
      BY <2>1, <3>1, <3>4, <3>5 DEF Registered
  <2> QED
    BY <2>3, <2>4
<1>4. ASSUME NEW q \in Req, SelfPrepare(q)
      PROVE  Goal
  <2>1. /\ phase[q] = "preparing"
        /\ \A p \in Req \ {q} : phase'[p] = phase[p]
        /\ UNCHANGED <<at, digest, pending, futureSet, decided>>
    BY <1>4 DEF SelfPrepare, Core, TypeOK
  <2>2. phase[r] \in Running
    BY <2>1 DEF Running
  <2> QED
    BY <1>1, <2>1, <2>2
<1>5. ASSUME NEW q \in Req, Answer(q)
      PROVE  Goal
  <2>1. /\ phase[q] = "waiting"
        /\ \A p \in Req \ {q} : phase'[p] = phase[p]
        /\ UNCHANGED <<at, digest, pending, futureSet, decided>>
    BY <1>5 DEF Answer, Core, TypeOK
  <2>2. phase[r] \in Running
    BY <2>1 DEF Running
  <2> QED
    BY <1>1, <2>1, <2>2
<1>6. ASSUME NEW q \in Req, NEW n \in Node, SelfCommit(q, n)
      PROVE  Goal
  <2>1. /\ <<q, n>> \in committing
        /\ OnCommit(n, digest[q], n)
        /\ phase' = IF n = at[q] THEN [phase EXCEPT ![q] = "waiting"] ELSE phase
        /\ UNCHANGED <<at, digest>>
    BY <1>6 DEF SelfCommit
  <2>2. digest[q] \in Digest
    BY <2>1 DEF Core, Backed, BackedDigests
  <2>3. phase[r] \in Running
    <3>1. CASE n = at[q]
      <4>1. phase[q] = "committing" /\ phase' = [phase EXCEPT ![q] = "waiting"]
        BY <2>1, <3>1 DEF OwnBroadcast
      <4>2. \A p \in Req \ {q} : phase'[p] = phase[p]
        BY <4>1 DEF Core, TypeOK
      <4> QED
        BY <4>1, <4>2 DEF Running
    <3>2. CASE n # at[q]
      BY <2>1, <3>2
    <3> QED
      BY <3>1, <3>2
  <2> QED
    BY <1>2, <2>1, <2>2, <2>3
<1>7. ASSUME NEW m \in net, HandleCommit(m)
      PROVE  Goal
  <2>1. m.to \in Node /\ m.digest \in Digest
    BY DEF Core, TypeOK, Message
  <2>2. OnCommit(m.to, m.digest, m.leader) /\ UNCHANGED <<at, digest, phase>>
    BY <1>7 DEF HandleCommit, requestVars
  <2> QED
    BY <1>2, <2>1, <2>2
<1>8. ASSUME NEW m \in net, HandlePrepare(m) \/ Lose(m)
      PROVE  Goal
  <2>1. UNCHANGED <<at, digest, phase, pending, futureSet, decided>>
    BY <1>8 DEF HandlePrepare, Lose, requestVars
  <2> QED
    BY <1>1, <2>1
<1>9. ASSUME NEW n \in Node, Restart(n)
      PROVE  Goal
  <2>1. /\ decided' = [decided EXCEPT ![n] = {}]
        /\ pending' = [pending EXCEPT ![n] = [d \in Digest |-> None]]
        /\ phase' = [q \in Req |-> IF at[q] = n /\ phase[q] \in Running
                                     THEN "failed" ELSE phase[q]]
        /\ UNCHANGED <<at, digest, futureSet>>
    BY <1>9 DEF Restart
  <2>2. phase[r] \in Running /\ at[r] # n
    BY <2>1 DEF Running
  <2>3. at[r] \in Node /\ Alone(r)
    BY <2>1, <2>2 DEF Core, TypeOK, Running, Alone
  <2>4. pending'[at[r]] = pending[at[r]] /\ decided'[at[r]] = decided[at[r]]
    BY <2>1, <2>2, <2>3 DEF Core, TypeOK
  <2> QED
    BY <2>1, <2>2, <2>3, <2>4 DEF Registered
<1>10. CASE UNCHANGED vars
  BY <1>1, <1>10 DEF vars, requestVars
<1> QED
  BY <1>3, <1>4, <1>5, <1>6, <1>7, <1>8, <1>9, <1>10 DEF Next

-----------------------------------------------------------------------------

\* The conjunction is inductive.
THEOREM PbftInvariant == Spec => []PbftInv
PROOF
<1>1. Init => PbftInv
  <2>1. Init => OwnBroadcast
    BY DEF Init, OwnBroadcast
  <2>2. Init => Registered
    BY DEF Init, Registered, Running
  <2> QED
    BY <2>1, <2>2, CoreInit DEF PbftInv
<1>2. PbftInv /\ [Next]_vars => PbftInv'
  BY CoreStep, OwnBroadcastStep, RegisteredStep DEF PbftInv
<1> QED
  BY <1>1, <1>2, PTL DEF Spec

\* Nodes, requests, broadcasts and calls keep their types, and a future is kept
\* under the digest of its own request (class PbftNode).
THEOREM TypeCorrect == Spec => []TypeOK
PROOF
<1>1. PbftInv => TypeOK
  BY DEF PbftInv, Core
<1> QED
  BY <1>1, PbftInvariant, PTL

\* What a node has decided, and what a client was told is decided, a majority of
\* the nodes has seen, for clusters of any size and any number of losses,
\* restarts and repeated requests (on_prepare, on_commit, quorum).
THEOREM DecisionsAreBacked == Spec => []DecidedByMajority
PROOF
<1>1. PbftInv => DecidedByMajority
  BY DEF PbftInv, Core, Backed, BackedDigests, DecidedByMajority
<1> QED
  BY <1>1, PbftInvariant, PTL

\* The only request for a digest is not told undecided once its node has decided
\* it (pre_prepare registers the future first, on_commit sets it).
THEOREM AloneIsTold == Spec => AloneToldTrue
PROOF
<1> DEFINE Told == \A r \in Req :
                     phase[r] = "waiting" /\ phase'[r] = "undecided" /\ Alone(r)
                       => digest[r] \notin decided[at[r]]
<1>1. PbftInv /\ [Next]_vars => [Told]_vars
  <2> SUFFICES ASSUME PbftInv, [Next]_vars, NEW r \in Req,
                      phase[r] = "waiting", phase'[r] = "undecided", Alone(r)
               PROVE  digest[r] \notin decided[at[r]]
    OBVIOUS
  <2>1. phase \in [Req -> {"new", "failed"} \cup Running \cup Answered]
    BY DEF PbftInv, Core, TypeOK
  <2>2. r \notin futureSet
    <3>1. ASSUME NEW q \in Req, Answer(q)
          PROVE  r \notin futureSet
      <4>1. phase' = [phase EXCEPT ![q] = IF q \in futureSet THEN "decided" ELSE "undecided"]
        BY <3>1 DEF Answer
      <4>2. q = r
        BY <2>1, <4>1
      <4> QED
        BY <2>1, <4>1, <4>2
    <3>2. ASSUME NEW q \in Req, NEW n \in Node, NEW d \in Digest, Request(q, n, d)
          PROVE  FALSE
      BY <2>1, <3>2 DEF Request
    <3>3. ASSUME NEW q \in Req, SelfPrepare(q)
          PROVE  FALSE
      <4>1. \E v \in {"committing", "waiting"} : phase' = [phase EXCEPT ![q] = v]
        BY <3>3 DEF SelfPrepare
      <4> QED
        BY <2>1, <4>1
    <3>4. ASSUME NEW q \in Req, NEW n \in Node, SelfCommit(q, n)
          PROVE  FALSE
      <4>1. phase' = phase \/ phase' = [phase EXCEPT ![q] = "waiting"]
        BY <3>4 DEF SelfCommit
      <4> QED
        BY <2>1, <4>1
    <3>5. ASSUME NEW m \in net, HandlePrepare(m) \/ HandleCommit(m) \/ Lose(m)
          PROVE  FALSE
      BY <3>5 DEF HandlePrepare, HandleCommit, Lose, requestVars
    <3>6. ASSUME NEW n \in Node, Restart(n)
          PROVE  FALSE
      BY <3>6 DEF Restart
    <3>7. ~ UNCHANGED vars
      BY DEF vars, requestVars
    <3> QED
      BY <3>1, <3>2, <3>3, <3>4, <3>5, <3>6, <3>7 DEF Next
  <2> QED
    BY <2>2 DEF PbftInv, Registered, Running
<1> QED
  BY <1>1, PbftInvariant, PTL DEF Spec, AloneToldTrue
=============================================================================
