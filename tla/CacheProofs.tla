---------------------------- MODULE CacheProofs ----------------------------
(***************************************************************************)
(* The cache, for any number of nodes, keys, requests and faults: a copy   *)
(* that is not what Redis has is about to go, or the node has missed a     *)
(* change for one of the reasons that the history variable records.        *)
(***************************************************************************)
EXTENDS Cache, SequenceTheorems, TLAPS

\* One copy per key.
OncePerKey(c) == \A i, j \in 1 .. Len(c) : c[i].key = c[j].key => i = j

\* A value and its TTL are what Redis has, or had until the key expired.
Fits(k, value, ttl) ==
  IF redis[k] = Absent THEN ttl ELSE value = redis[k].value /\ ttl = redis[k].ttl

CopyFits(e, k) == Fits(k, e.value, e.expires # "never")

CopiesFit ==
  \A n \in Node, k \in Key : Settled(n, k) => \A e \in CopiesOf(cache[n], k) : CopyFits(e, k)

Overtook(p) == <<op[p].node, op[p].key>> \in missed

\* What a request read or wrote in Redis is still there, or it was overtaken.
ReadsFit ==
  \A p \in Proc : op[p].at = "pttl" /\ ~Overtook(p) =>
    redis[op[p].key] # Absent /\ op[p].value = redis[op[p].key].value

OpsFit ==
  \A p \in Proc : op[p].at \in {"fill", "store"} /\ ~Overtook(p) =>
    Fits(op[p].key, op[p].value, op[p].ttl)

\* The values in use are those of put requests.
Valued ==
  /\ \A k \in Key : redis[k] # Absent => redis[k].value >= 1
  /\ \A p \in Proc : op[p].at \in {"pttl", "fill", "store"} => op[p].value >= 1

CacheInv == TypeOK /\ Valued /\ ReadsFit /\ OpsFit /\ CopiesFit

-----------------------------------------------------------------------------
(***************************************************************************)
(* LruCache.                                                               *)
(***************************************************************************)

\* A cache in good order.
Ordered(c) == c \in Seq(Copy) /\ Len(c) <= Capacity /\ OncePerKey(c)

\* The copies of a key, by position.
LEMMA CopiesAt ==
  ASSUME NEW c \in Seq(Copy), NEW k, NEW e
  PROVE  e \in CopiesOf(c, k) <=> e.key = k /\ \E i \in 1 .. Len(c) : c[i] = e
PROOF
<1>1. DOMAIN c = 1 .. Len(c)
  BY LenProperties
<1> QED
  BY <1>1 DEF CopiesOf, ToSet

\* An element is taken out.
LEMMA Removed ==
  ASSUME NEW c \in Seq(Copy), NEW i \in 1 .. Len(c)
  PROVE  /\ RemoveAt(c, i) \in Seq(Copy)
         /\ Len(RemoveAt(c, i)) = Len(c) - 1
         /\ \A j \in 1 .. Len(c) - 1 : RemoveAt(c, i)[j] = IF j < i THEN c[j] ELSE c[j + 1]
PROOF
<1> DEFINE front == SubSeq(c, 1, i - 1)
           rest  == SubSeq(c, i + 1, Len(c))
<1>1. Len(c) \in Nat /\ \A j \in 1 .. Len(c) : c[j] \in Copy
  BY LenProperties, ElementOfSeq
<1>2. /\ front \in Seq(Copy) /\ Len(front) = i - 1
      /\ \A j \in 1 .. i - 1 : front[j] = c[j]
  <2>1. \A j \in 1 .. i - 1 : c[j] \in Copy
    BY <1>1
  <2>2. /\ front \in Seq(Copy) /\ Len(front) = IF 1 <= i - 1 THEN i - 1 - 1 + 1 ELSE 0
        /\ \A j \in 1 .. i - 1 - 1 + 1 : front[j] = c[1 + j - 1]
    BY <1>1, <2>1, SubSeqProperties
  <2> HIDE DEF front
  <2> QED
    BY <1>1, <2>2
<1>3. /\ rest \in Seq(Copy) /\ Len(rest) = Len(c) - i
      /\ \A j \in 1 .. Len(c) - i : rest[j] = c[j + i]
  <2>1. \A j \in i + 1 .. Len(c) : c[j] \in Copy
    BY <1>1
  <2>2. /\ rest \in Seq(Copy)
        /\ Len(rest) = IF i + 1 <= Len(c) THEN Len(c) - (i + 1) + 1 ELSE 0
        /\ \A j \in 1 .. Len(c) - (i + 1) + 1 : rest[j] = c[i + 1 + j - 1]
    BY <1>1, <2>1, SubSeqProperties
  <2> HIDE DEF rest
  <2> QED
    BY <1>1, <2>2
<1>4. RemoveAt(c, i) = front \o rest
  BY DEF RemoveAt
<1> HIDE DEF front, rest
<1>5. /\ front \o rest \in Seq(Copy)
      /\ Len(front \o rest) = Len(front) + Len(rest)
      /\ \A j \in 1 .. Len(front) + Len(rest) :
           (front \o rest)[j] = IF j <= Len(front) THEN front[j] ELSE rest[j - Len(front)]
  BY <1>2, <1>3, ConcatProperties
<1>6. ASSUME NEW j \in 1 .. Len(c) - 1
      PROVE  RemoveAt(c, i)[j] = IF j < i THEN c[j] ELSE c[j + 1]
  <2>1. CASE j < i
    BY <1>1, <1>2, <1>3, <1>4, <1>5, <2>1
  <2>2. CASE ~(j < i)
    <3>1. j - (i - 1) \in 1 .. Len(c) - i /\ j \in 1 .. Len(front) + Len(rest)
          /\ ~(j <= Len(front)) /\ (j - (i - 1)) + i = j + 1
      BY <1>1, <1>2, <1>3, <2>2
    <3>2. rest[j - (i - 1)] = c[j + 1]
      BY <1>3, <3>1
    <3> QED
      BY <1>2, <1>4, <1>5, <2>2, <3>1, <3>2
  <2> QED
    BY <2>1, <2>2
<1> QED
  BY <1>1, <1>2, <1>3, <1>4, <1>5, <1>6

\* A key that is invalidated is gone, and the others stay.
LEMMA Invalidated ==
  ASSUME NEW c, Ordered(c), NEW k \in Key
  PROVE  LET r == Invalidate(c, k)
         IN  /\ Ordered(r) /\ CopiesOf(r, k) = {}
             /\ \A x : CopiesOf(r, x) \subseteq CopiesOf(c, x)
             /\ CopiesOf(c, k) # {} => Len(r) = Len(c) - 1
             /\ CopiesOf(c, k) = {} => r = c
PROOF
<1>1. CASE CopiesOf(c, k) = {}
  BY <1>1 DEF Invalidate
<1>2. CASE CopiesOf(c, k) # {}
  <2>1. /\ c \in Seq(Copy) /\ Len(c) \in Nat /\ Len(c) <= Capacity /\ OncePerKey(c)
        /\ DOMAIN c = 1 .. Len(c)
    BY LenProperties DEF Ordered
  <2>2. \E i \in 1 .. Len(c) : c[i].key = k
    BY <1>2, <2>1, CopiesAt
  <2>3. PICK i \in 1 .. Len(c) : c[i].key = k /\ Invalidate(c, k) = RemoveAt(c, i)
    BY <1>2, <2>1, <2>2 DEF Invalidate
  <2>4. PICK r : r = RemoveAt(c, i)
    OBVIOUS
  <2>5. /\ r \in Seq(Copy) /\ Len(r) = Len(c) - 1
        /\ \A j \in 1 .. Len(c) - 1 : r[j] = IF j < i THEN c[j] ELSE c[j + 1]
    BY <2>1, <2>4, Removed
  <2>6. \A j \in 1 .. Len(r) : \E h \in 1 .. Len(c) : h # i /\ r[j] = c[h]
    <3>1. ASSUME NEW j \in 1 .. Len(r) PROVE \E h \in 1 .. Len(c) : h # i /\ r[j] = c[h]
      <4>1. CASE j < i
        BY <2>1, <2>5, <4>1
      <4>2. CASE ~(j < i)
        <5>1. j + 1 \in 1 .. Len(c) /\ j + 1 # i /\ r[j] = c[j + 1]
          BY <2>1, <2>5, <4>2
        <5> QED
          BY <5>1
      <4> QED
        BY <4>1, <4>2
    <3> QED
      BY <3>1
  <2>7. OncePerKey(r)
    <3>1. SUFFICES ASSUME NEW a \in 1 .. Len(r), NEW b \in 1 .. Len(r), r[a].key = r[b].key
                   PROVE  a = b
      BY DEF OncePerKey
    <3>2. PICK x : x = IF a < i THEN a ELSE a + 1
      OBVIOUS
    <3>3. PICK y : y = IF b < i THEN b ELSE b + 1
      OBVIOUS
    <3>4. x \in 1 .. Len(c) /\ y \in 1 .. Len(c) /\ r[a] = c[x] /\ r[b] = c[y]
      BY <2>1, <2>5, <3>2, <3>3
    <3>5. x = y
      BY <2>1, <3>1, <3>4 DEF OncePerKey
    <3> QED
      BY <2>1, <2>5, <3>2, <3>3, <3>5
  <2>8. CopiesOf(r, k) = {}
    <3>1. \A j \in 1 .. Len(r) : r[j].key # k
      BY <2>1, <2>3, <2>6 DEF OncePerKey
    <3> QED
      BY <2>5, <3>1, CopiesAt
  <2>9. \A x : CopiesOf(r, x) \subseteq CopiesOf(c, x)
    <3>1. ASSUME NEW x, NEW e \in CopiesOf(r, x) PROVE e \in CopiesOf(c, x)
      <4>1. e.key = x /\ \E j \in 1 .. Len(r) : r[j] = e
        BY <2>5, <3>1, CopiesAt
      <4>2. \E h \in 1 .. Len(c) : c[h] = e
        BY <2>6, <4>1
      <4> QED
        BY <2>1, <4>1, <4>2, CopiesAt
    <3> QED
      BY <3>1
  <2>10. Len(r) <= Capacity
    BY <2>1, <2>5, CapacityIsPositive
  <2> QED
    BY <1>2, <2>3, <2>4, <2>5, <2>7, <2>8, <2>9, <2>10 DEF Ordered
<1> QED
  BY <1>1, <1>2

\* A copy is put behind those of other keys.
LEMMA Appended ==
  ASSUME NEW c \in Seq(Copy), OncePerKey(c), NEW e \in Copy, CopiesOf(c, e.key) = {},
         Len(c) < Capacity
  PROVE  LET r == Append(c, e)
         IN  /\ Ordered(r) /\ CopiesOf(r, e.key) = {e}
             /\ \A x : x # e.key => CopiesOf(r, x) \subseteq CopiesOf(c, x)
PROOF
<1>1. PICK r : r = Append(c, e)
  OBVIOUS
<1>2. Len(c) \in Nat /\ Capacity \in Nat
  BY CapacityIsPositive, LenProperties
<1>3. /\ r \in Seq(Copy) /\ Len(r) = Len(c) + 1 /\ r[Len(c) + 1] = e
      /\ \A i \in 1 .. Len(c) : r[i] = c[i]
  BY <1>1, AppendProperties
<1>4. \A i \in 1 .. Len(c) : c[i].key # e.key
  BY CopiesAt
<1>5. \A i \in 1 .. Len(r) : i \in 1 .. Len(c) \/ i = Len(c) + 1
  BY <1>2, <1>3
<1>6. OncePerKey(r)
  <2>1. SUFFICES ASSUME NEW i \in 1 .. Len(r), NEW j \in 1 .. Len(r), r[i].key = r[j].key
                 PROVE  i = j
    BY DEF OncePerKey
  <2>2. CASE i \in 1 .. Len(c) /\ j \in 1 .. Len(c)
    <3>1. c[i].key = c[j].key
      BY <1>3, <2>1, <2>2
    <3> QED
      BY <2>2, <3>1 DEF OncePerKey
  <2>3. CASE i = Len(c) + 1 /\ j \in 1 .. Len(c)
    BY <1>3, <1>4, <2>1, <2>3
  <2>4. CASE i \in 1 .. Len(c) /\ j = Len(c) + 1
    BY <1>3, <1>4, <2>1, <2>4
  <2>5. i \in 1 .. Len(c) \/ i = Len(c) + 1
    BY <1>5
  <2>6. j \in 1 .. Len(c) \/ j = Len(c) + 1
    BY <1>5
  <2> QED
    BY <2>2, <2>3, <2>4, <2>5, <2>6
<1>7. ASSUME NEW x, NEW d \in CopiesOf(r, x) PROVE d = e \/ d \in CopiesOf(c, x)
  <2>1. PICK i \in 1 .. Len(r) : r[i] = d /\ d.key = x
    <3>1. r \in Seq(Copy)
      BY <1>3
    <3> QED
      BY <1>7, <3>1, CopiesAt
  <2> QED
    BY <1>3, <1>5, <2>1, CopiesAt
<1>8. e \in CopiesOf(r, e.key)
  <2>1. Len(c) + 1 \in 1 .. Len(r)
    BY <1>2, <1>3
  <2> QED
    BY <1>3, <2>1, CopiesAt
<1>9. CopiesOf(r, e.key) = {e}
  <2>1. ASSUME NEW d \in CopiesOf(r, e.key) PROVE d = e
    <3>1. d = e \/ d \in CopiesOf(c, e.key)
      BY <1>7
    <3> QED
      BY <3>1
  <2> QED
    BY <1>8, <2>1
<1>10. ASSUME NEW x, x # e.key, NEW d \in CopiesOf(r, x) PROVE d \in CopiesOf(c, x)
  <2>1. d.key = x
    <3>1. r \in Seq(Copy)
      BY <1>3
    <3> QED
      BY <1>10, <3>1, CopiesAt
  <2> QED
    BY <1>7, <1>10, <2>1
<1>11. Len(r) <= Capacity
  BY <1>2, <1>3
<1> QED
  BY <1>1, <1>3, <1>6, <1>9, <1>10, <1>11 DEF Ordered

\* LruCache.put: the new copy is the only one of its key, and others at most go.
LEMMA LruPutFits ==
  ASSUME NEW c, Ordered(c), NEW e \in Copy
  PROVE  LET r == LruPut(c, e)
         IN  /\ Ordered(r) /\ CopiesOf(r, e.key) = {e}
             /\ \A x : x # e.key => CopiesOf(r, x) \subseteq CopiesOf(c, x)
PROOF
<1>1. /\ c \in Seq(Copy) /\ Len(c) \in Nat /\ Len(c) <= Capacity /\ OncePerKey(c)
      /\ Capacity \in Nat /\ Capacity >= 1 /\ e.key \in Key
  BY CapacityIsPositive, LenProperties DEF Ordered, Copy
<1>2. CASE CopiesOf(c, e.key) = {} /\ Len(c) >= Capacity
  <2>1. PICK t : t = Tail(c)
    OBVIOUS
  <2>2. c # << >>
    BY <1>1, <1>2
  <2>3. /\ t \in Seq(Copy) /\ Len(t) = Len(c) - 1
        /\ \A i \in 1 .. Len(t) : t[i] = c[i + 1]
    BY <1>1, <2>1, <2>2, HeadTailProperties
  <2>4. \A i \in 1 .. Len(t) : i + 1 \in 1 .. Len(c)
    BY <1>1, <2>3
  <2>5. OncePerKey(t)
    <3>1. SUFFICES ASSUME NEW i \in 1 .. Len(t), NEW j \in 1 .. Len(t), t[i].key = t[j].key
                   PROVE  i = j
      BY DEF OncePerKey
    <3>2. i + 1 = j + 1
      BY <1>1, <2>3, <2>4, <3>1 DEF OncePerKey
    <3> QED
      BY <3>2
  <2>6. ASSUME NEW x, NEW d \in CopiesOf(t, x) PROVE d \in CopiesOf(c, x)
    <3>1. PICK i \in 1 .. Len(t) : t[i] = d /\ d.key = x
      BY <2>3, <2>6, CopiesAt
    <3> QED
      BY <1>1, <2>3, <2>4, <3>1, CopiesAt
  <2>7. CopiesOf(t, e.key) = {} /\ Len(t) < Capacity
    BY <1>1, <1>2, <2>3, <2>6
  <2>8. LruPut(c, e) = Append(t, e)
    BY <1>2, <2>1 DEF LruPut
  <2>9. PICK r : r = Append(t, e)
    OBVIOUS
  <2>10. /\ Ordered(r) /\ CopiesOf(r, e.key) = {e}
         /\ \A x : x # e.key => CopiesOf(r, x) \subseteq CopiesOf(t, x)
    BY <2>3, <2>5, <2>7, <2>9, Appended
  <2> QED
    BY <2>6, <2>8, <2>9, <2>10
<1>3. CASE ~(CopiesOf(c, e.key) = {} /\ Len(c) >= Capacity)
  <2>1. PICK s : s = Invalidate(c, e.key)
    OBVIOUS
  <2>2. /\ Ordered(s) /\ CopiesOf(s, e.key) = {}
        /\ \A x : CopiesOf(s, x) \subseteq CopiesOf(c, x)
        /\ CopiesOf(c, e.key) # {} => Len(s) = Len(c) - 1
        /\ CopiesOf(c, e.key) = {} => s = c
    BY <1>1, <2>1, Invalidated
  <2>3. Len(s) < Capacity
    BY <1>1, <1>3, <2>2
  <2>4. LruPut(c, e) = Append(s, e)
    BY <1>3, <2>1 DEF LruPut
  <2>5. s \in Seq(Copy) /\ OncePerKey(s)
    BY <2>2 DEF Ordered
  <2>6. PICK r : r = Append(s, e)
    OBVIOUS
  <2>7. /\ Ordered(r) /\ CopiesOf(r, e.key) = {e}
        /\ \A x : x # e.key => CopiesOf(r, x) \subseteq CopiesOf(s, x)
    BY <2>2, <2>3, <2>5, <2>6, Appended
  <2> QED
    BY <2>2, <2>4, <2>6, <2>7
<1> QED
  BY <1>2, <1>3

-----------------------------------------------------------------------------
(***************************************************************************)
(* Types.                                                                  *)
(***************************************************************************)

Message == [key : Key, from : Node]

\* The fields of a request under way.
LEMMA OpFields ==
  ASSUME TypeOK, NEW p \in Proc, op[p].at # "idle"
  PROVE  /\ op[p].at \in {"get", "pttl", "fill", "store", "publish"}
         /\ op[p].node \in Node /\ op[p].key \in Key
         /\ op[p].value \in 0 .. MaxWrites /\ op[p].ttl \in BOOLEAN
BY DEF TypeOK, IdleOp

\* All caches are in good order.
LEMMA CachesOrdered ==
  ASSUME TypeOK, NEW n \in Node
  PROVE  Ordered(cache[n]) /\ cache[n] \in Seq(Copy) /\ Len(cache[n]) \in Nat
PROOF
<1>1. cache[n] \in Seq(Copy)
  BY DEF TypeOK
<1> QED
  BY <1>1, LenProperties DEF TypeOK, Ordered, OncePerKey

\* One cache changes.
LEMMA CacheTyped ==
  ASSUME TypeOK, NEW n \in Node, NEW c, Ordered(c), cache' = [cache EXCEPT ![n] = c]
  PROVE  /\ cache' \in [Node -> Seq(Copy)]
         /\ \A x \in Node : Len(cache'[x]) <= Capacity /\ OncePerKey(cache'[x])
         /\ cache'[n] = c /\ \A x \in Node : x # n => cache'[x] = cache[x]
PROOF
<1>1. cache \in [Node -> Seq(Copy)] /\ c \in Seq(Copy)
  BY DEF TypeOK, Ordered
<1>2. cache' \in [Node -> Seq(Copy)]
  BY <1>1
<1>3. cache'[n] = c /\ \A x \in Node : x # n => cache'[x] = cache[x]
  BY <1>1
<1>4. \A x \in Node : Len(cache'[x]) <= Capacity /\ OncePerKey(cache'[x])
  BY <1>3, CachesOrdered DEF Ordered
<1> QED
  BY <1>2, <1>3, <1>4

\* The type of the next state, with the parts that a step changes.
LEMMA TypedBy ==
  ASSUME cache' \in [Node -> Seq(Copy)],
         \A x \in Node : Len(cache'[x]) <= Capacity /\ OncePerKey(cache'[x]),
         redis' \in [Key -> [value : 0 .. MaxWrites, ttl : BOOLEAN]],
         channel' \in [Node -> Seq(Message)],
         listener' \in [Node -> {"starting", "subscribed", "stopped"}],
         op' \in [Proc -> {IdleOp} \cup
                    [at : {"get", "pttl", "fill", "store", "publish"},
                     node : Node, key : Key, value : 0 .. MaxWrites, ttl : BOOLEAN]],
         writes' \in 0 .. MaxWrites, faults' \in 0 .. MaxFaults, missed' \subseteq Node \X Key
  PROVE  TypeOK'
BY DEF TypeOK, OncePerKey, Message

\* What is typed stays so where nothing changes.
LEMMA TypedNow ==
  ASSUME TypeOK
  PROVE  /\ cache \in [Node -> Seq(Copy)]
         /\ \A x \in Node : Len(cache[x]) <= Capacity /\ OncePerKey(cache[x])
         /\ redis \in [Key -> [value : 0 .. MaxWrites, ttl : BOOLEAN]]
         /\ channel \in [Node -> Seq(Message)]
         /\ listener \in [Node -> {"starting", "subscribed", "stopped"}]
         /\ op \in [Proc -> {IdleOp} \cup
                     [at : {"get", "pttl", "fill", "store", "publish"},
                      node : Node, key : Key, value : 0 .. MaxWrites, ttl : BOOLEAN]]
         /\ writes \in 0 .. MaxWrites /\ faults \in 0 .. MaxFaults
         /\ missed \subseteq Node \X Key
BY DEF TypeOK, OncePerKey, Message

\* A hit moves its copy to the end.
LEMMA HitMoves ==
  ASSUME TypeOK, NEW n \in Node, NEW k \in Key, GetHit(n, k)
  PROVE  \E c : /\ Ordered(c) /\ cache' = [cache EXCEPT ![n] = c]
                /\ \A x : CopiesOf(c, x) \subseteq CopiesOf(cache[n], x)
PROOF
<1>1. PICK e \in CopiesOf(cache[n], k) :
        cache' = [cache EXCEPT ![n] = Append(Invalidate(cache[n], k), e)]
  BY DEF GetHit
<1>2. Ordered(cache[n]) /\ cache[n] \in Seq(Copy) /\ Len(cache[n]) \in Nat
  BY CachesOrdered
<1>3. PICK s : s = Invalidate(cache[n], k)
  OBVIOUS
<1>4. /\ Ordered(s) /\ CopiesOf(s, k) = {} /\ Len(s) = Len(cache[n]) - 1
      /\ \A x : CopiesOf(s, x) \subseteq CopiesOf(cache[n], x)
  BY <1>1, <1>2, <1>3, Invalidated
<1>5. e \in Copy /\ e.key = k
  BY <1>1, <1>2, CopiesAt, ElementOfSeq
<1>6. Len(s) < Capacity /\ s \in Seq(Copy) /\ OncePerKey(s)
  BY <1>2, <1>4, CapacityIsPositive DEF Ordered
<1>7. PICK c : c = Append(s, e)
  OBVIOUS
<1>8. /\ Ordered(c) /\ CopiesOf(c, k) = {e}
      /\ \A x : x # k => CopiesOf(c, x) \subseteq CopiesOf(s, x)
  BY <1>4, <1>5, <1>6, <1>7, Appended
<1>9. \A x : CopiesOf(c, x) \subseteq CopiesOf(cache[n], x)
  BY <1>1, <1>4, <1>8
<1> QED
  BY <1>1, <1>3, <1>7, <1>8, <1>9

\* A request stores a copy of what it read or wrote.
LEMMA CopyStored ==
  ASSUME TypeOK, NEW n \in Node, NEW k \in Key, NEW v \in 1 .. MaxWrites,
         NEW state \in {"S", "M"}, NEW ttl \in BOOLEAN, StoreCopy(n, k, v, state, ttl)
  PROVE  \E c : /\ Ordered(c) /\ cache' = [cache EXCEPT ![n] = c]
                /\ \A x : x # k => CopiesOf(c, x) \subseteq CopiesOf(cache[n], x)
                /\ \A e \in CopiesOf(c, k) : e.value = v /\ e.expires = Expiry(ttl)
PROOF
<1>1. PICK e : e = [key |-> k, value |-> v, state |-> state, expires |-> Expiry(ttl)]
  OBVIOUS
<1>2. e \in Copy /\ e.key = k /\ e.value = v /\ e.expires = Expiry(ttl)
  BY <1>1 DEF Copy, Expiry
<1>3. PICK c : c = LruPut(cache[n], e)
  OBVIOUS
<1>4. /\ Ordered(c) /\ CopiesOf(c, k) = {e}
      /\ \A x : x # k => CopiesOf(c, x) \subseteq CopiesOf(cache[n], x)
  BY <1>2, <1>3, CachesOrdered, LruPutFits
<1>5. cache' = [cache EXCEPT ![n] = c]
  BY <1>1, <1>3 DEF StoreCopy
<1> QED
  BY <1>2, <1>4, <1>5

\* A copy falls due, and nothing else about it changes.
LEMMA DueCopy ==
  ASSUME TypeOK, NEW n \in Node, NEW i \in 1 .. Len(cache[n]), FallDue(n, i)
  PROVE  \E c : /\ Ordered(c) /\ cache' = [cache EXCEPT ![n] = c]
                /\ \A x : \A e \in CopiesOf(c, x) : \E d \in CopiesOf(cache[n], x) :
                     d.value = e.value /\ (d.expires = "never" <=> e.expires = "never")
PROOF
<1>1. /\ cache[n] \in Seq(Copy) /\ Len(cache[n]) \in Nat /\ Ordered(cache[n])
      /\ cache[n][i] \in Copy /\ cache[n][i].expires = "later"
  BY CachesOrdered, ElementOfSeq DEF FallDue
<1>2. PICK due : due = [cache[n][i] EXCEPT !.expires = "due"]
  OBVIOUS
<1>3. /\ due \in Copy /\ due.key = cache[n][i].key /\ due.value = cache[n][i].value
      /\ due.expires = "due"
  BY <1>1, <1>2 DEF Copy
<1>4. PICK c : c = [cache[n] EXCEPT ![i] = due]
  OBVIOUS
<1>5. cache' = [cache EXCEPT ![n] = c]
  BY <1>2, <1>4 DEF FallDue
<1>6. /\ c \in Seq(Copy) /\ Len(c) = Len(cache[n]) /\ c[i] = due
      /\ \A j \in 1 .. Len(cache[n]) : j # i => c[j] = cache[n][j]
  BY <1>1, <1>3, <1>4, ExceptSeq
<1>7. \A j \in 1 .. Len(c) : c[j].key = cache[n][j].key
  BY <1>3, <1>6
<1>8. Ordered(c)
  <2>1. OncePerKey(c)
    BY <1>1, <1>6, <1>7 DEF Ordered, OncePerKey
  <2> QED
    BY <1>1, <1>6, <2>1 DEF Ordered
<1>9. ASSUME NEW x, NEW e \in CopiesOf(c, x)
      PROVE  \E d \in CopiesOf(cache[n], x) :
               d.value = e.value /\ (d.expires = "never" <=> e.expires = "never")
  <2>1. PICK j \in 1 .. Len(c) : c[j] = e /\ e.key = x
    BY <1>6, <1>9, CopiesAt
  <2>2. cache[n][j] \in CopiesOf(cache[n], x)
    <3>1. cache[n][j].key = x /\ j \in 1 .. Len(cache[n])
      BY <1>6, <1>7, <2>1
    <3> QED
      BY <1>1, <3>1, CopiesAt
  <2>3. cache[n][j].value = e.value
        /\ (cache[n][j].expires = "never" <=> e.expires = "never")
    BY <1>1, <1>3, <1>6, <2>1
  <2> QED
    BY <2>2, <2>3
<1> QED
  BY <1>5, <1>8, <1>9

\* Every step keeps the types.
LEMMA TypeSteps ==
  ASSUME TypeOK, Valued, Next
  PROVE  TypeOK' /\ Valued'
PROOF
<1> USE TypedNow
<1>1. ASSUME NEW n \in Node, NEW k \in Key, GetHit(n, k) PROVE TypeOK' /\ Valued'
  <2>1. UNCHANGED <<redis, listener, channel, op, writes, faults, missed>>
    BY <1>1 DEF GetHit
  <2>2. PICK c : Ordered(c) /\ cache' = [cache EXCEPT ![n] = c]
    BY <1>1, HitMoves
  <2> QED
    BY <2>1, <2>2, CacheTyped, TypedBy DEF Valued
<1>2. ASSUME NEW p \in Proc, NEW n \in Node, NEW k \in Key, GetMiss(p, n, k)
      PROVE  TypeOK' /\ Valued'
  <2>1. /\ op' = [op EXCEPT ![p] = Op("get", n, k, 0, FALSE)]
        /\ UNCHANGED <<redis, listener, channel, writes, faults, missed>>
    BY <1>2 DEF GetMiss
  <2>2. PICK c : Ordered(c) /\ cache' = [cache EXCEPT ![n] = c]
    BY <1>2, CachesOrdered, Invalidated DEF GetMiss
  <2>3. op' \in [Proc -> {IdleOp} \cup
                  [at : {"get", "pttl", "fill", "store", "publish"},
                   node : Node, key : Key, value : 0 .. MaxWrites, ttl : BOOLEAN]]
    BY <2>1, CacheBoundsAreNat DEF Op
  <2>4. Valued'
    BY <2>1 DEF Valued, Op
  <2> QED
    BY <2>1, <2>2, <2>3, <2>4, CacheTyped, TypedBy
<1>3. ASSUME NEW p \in Proc, ReadValue(p) PROVE TypeOK' /\ Valued'
  <2>1. /\ op[p].at = "get" /\ redis[op[p].key] \in [value : 0 .. MaxWrites, ttl : BOOLEAN]
        /\ op[p].node \in Node /\ op[p].key \in Key /\ op[p].ttl \in BOOLEAN
        /\ UNCHANGED <<redis, cache, listener, channel, writes, faults, missed>>
    BY <1>3, OpFields DEF ReadValue
  <2>2. CASE redis[op[p].key] = Absent
    <3>1. op' = [op EXCEPT ![p] = IdleOp]
      BY <1>3, <2>2 DEF ReadValue
    <3>2. Valued'
      BY <2>1, <3>1 DEF Valued, IdleOp
    <3> QED
      BY <2>1, <3>1, <3>2, TypedBy
  <2>3. CASE redis[op[p].key] # Absent
    <3>1. op' = [op EXCEPT ![p] = [@ EXCEPT !.at = "pttl", !.value = redis[op[p].key].value]]
      BY <1>3, <2>3 DEF ReadValue
    <3>2. op' \in [Proc -> {IdleOp} \cup
                    [at : {"get", "pttl", "fill", "store", "publish"},
                     node : Node, key : Key, value : 0 .. MaxWrites, ttl : BOOLEAN]]
      <4>1. op[p] \in [at : {"get", "pttl", "fill", "store", "publish"},
                       node : Node, key : Key, value : 0 .. MaxWrites, ttl : BOOLEAN]
        BY <2>1 DEF IdleOp
      <4> QED
        BY <2>1, <3>1, <4>1
    <3>3. Valued'
      <4>1. op'[p].value >= 1 /\ \A q \in Proc : q # p => op'[q] = op[q]
        BY <2>1, <2>3, <3>1 DEF Valued, IdleOp
      <4> QED
        BY <2>1, <4>1 DEF Valued
    <3> QED
      BY <2>1, <3>2, <3>3, TypedBy
  <2> QED
    BY <2>2, <2>3
<1>4. ASSUME NEW p \in Proc, ReadTtl(p) PROVE TypeOK' /\ Valued'
  <2>1. /\ op[p].at = "pttl" /\ redis[op[p].key] \in [value : 0 .. MaxWrites, ttl : BOOLEAN]
        /\ op' = [op EXCEPT ![p].at = "fill", ![p].ttl = redis[op[p].key].ttl]
        /\ UNCHANGED <<redis, cache, listener, channel, writes, faults, missed>>
    BY <1>4, OpFields DEF ReadTtl
  <2>2. op[p] \in [at : {"get", "pttl", "fill", "store", "publish"},
                   node : Node, key : Key, value : 0 .. MaxWrites, ttl : BOOLEAN]
    BY <2>1 DEF IdleOp
  <2>3. op' \in [Proc -> {IdleOp} \cup
                  [at : {"get", "pttl", "fill", "store", "publish"},
                   node : Node, key : Key, value : 0 .. MaxWrites, ttl : BOOLEAN]]
    BY <2>1, <2>2
  <2>4. op'[p].value = op[p].value /\ \A q \in Proc : q # p => op'[q] = op[q]
    BY <2>1, <2>2
  <2>5. Valued'
    BY <2>1, <2>4 DEF Valued
  <2> QED
    BY <2>1, <2>3, <2>5, TypedBy
<1>5. ASSUME NEW p \in Proc, Fill(p) PROVE TypeOK' /\ Valued'
  <2>1. /\ op' = [op EXCEPT ![p] = IdleOp] /\ op[p].at = "fill"
        /\ StoreCopy(op[p].node, op[p].key, op[p].value, "S", op[p].ttl)
        /\ UNCHANGED <<redis, listener, channel, writes, faults, missed>>
    BY <1>5 DEF Fill
  <2>2. /\ op[p].value \in 1 .. MaxWrites /\ op[p].node \in Node /\ op[p].key \in Key
        /\ op[p].ttl \in BOOLEAN
    BY <2>1, OpFields DEF Valued
  <2>3. PICK c : Ordered(c) /\ cache' = [cache EXCEPT ![op[p].node] = c]
    BY <2>1, <2>2, CopyStored
  <2>4. Valued'
    BY <2>1 DEF Valued, IdleOp
  <2> QED
    BY <2>1, <2>2, <2>3, <2>4, CacheTyped, TypedBy
<1>6. ASSUME NEW p \in Proc, NEW n \in Node, NEW k \in Key, NEW ttl \in BOOLEAN,
             PutSet(p, n, k, ttl)
      PROVE  TypeOK' /\ Valued'
  <2>1. /\ writes < MaxWrites /\ writes' = writes + 1
        /\ redis' = [redis EXCEPT ![k] = [value |-> writes + 1, ttl |-> ttl]]
        /\ op' = [op EXCEPT ![p] = Op("store", n, k, writes + 1, ttl)]
        /\ missed' = missed \cup {<<op[q].node, k>> : q \in Overtaken(p, k)}
        /\ UNCHANGED <<cache, listener, channel, faults>>
    BY <1>6 DEF PutSet
  <2>2. writes + 1 \in 1 .. MaxWrites /\ writes' \in 0 .. MaxWrites
    BY <2>1, CacheBoundsAreNat
  <2>3. redis' \in [Key -> [value : 0 .. MaxWrites, ttl : BOOLEAN]]
    BY <2>1, <2>2
  <2>4. op' \in [Proc -> {IdleOp} \cup
                  [at : {"get", "pttl", "fill", "store", "publish"},
                   node : Node, key : Key, value : 0 .. MaxWrites, ttl : BOOLEAN]]
    BY <2>1, <2>2 DEF Op
  <2>5. missed' \subseteq Node \X Key
    <3>1. \A q \in Overtaken(p, k) : op[q].node \in Node
      BY OpFields DEF Overtaken
    <3> QED
      BY <2>1, <3>1
  <2>6. Valued'
    <3>1. \A x \in Key : x # k => redis'[x] = redis[x]
      BY <2>1
    <3>2. \A q \in Proc : q # p => op'[q] = op[q]
      BY <2>1
    <3>3. redis'[k].value = writes + 1 /\ op'[p].value = writes + 1
      BY <2>1 DEF Op
    <3>4. redis'[k].value >= 1 /\ op'[p].value >= 1
      BY <2>2, <3>3
    <3>5. \A x \in Key : redis'[x] # Absent => redis'[x].value >= 1
      BY <3>1, <3>4 DEF Valued
    <3>6. \A q \in Proc : op'[q].at \in {"pttl", "fill", "store"} => op'[q].value >= 1
      BY <3>2, <3>4 DEF Valued
    <3> QED
      BY <3>5, <3>6 DEF Valued
  <2> QED
    BY <2>1, <2>2, <2>3, <2>4, <2>5, <2>6, TypedBy
<1>7. ASSUME NEW p \in Proc, PutStore(p) PROVE TypeOK' /\ Valued'
  <2>1. /\ op' = [op EXCEPT ![p] = Op("publish", op[p].node, op[p].key, 0, FALSE)]
        /\ StoreCopy(op[p].node, op[p].key, op[p].value, "M", op[p].ttl)
        /\ op[p].at = "store"
        /\ UNCHANGED <<redis, listener, channel, writes, faults, missed>>
    BY <1>7 DEF PutStore
  <2>2. /\ op[p].value \in 1 .. MaxWrites /\ op[p].node \in Node /\ op[p].key \in Key
        /\ op[p].ttl \in BOOLEAN
    BY <2>1, OpFields DEF Valued
  <2>3. PICK c : Ordered(c) /\ cache' = [cache EXCEPT ![op[p].node] = c]
    BY <2>1, <2>2, CopyStored
  <2>4. op' \in [Proc -> {IdleOp} \cup
                  [at : {"get", "pttl", "fill", "store", "publish"},
                   node : Node, key : Key, value : 0 .. MaxWrites, ttl : BOOLEAN]]
    BY <2>1, <2>2, CacheBoundsAreNat DEF Op
  <2>5. Valued'
    BY <2>1 DEF Valued, Op
  <2> QED
    BY <2>1, <2>2, <2>3, <2>4, <2>5, CacheTyped, TypedBy
<1>8. ASSUME NEW p \in Proc, PutPublish(p) PROVE TypeOK' /\ Valued'
  <2>1. PICK msg : msg = [key |-> op[p].key, from |-> op[p].node]
    OBVIOUS
  <2>2. op[p].at = "publish" /\ op' = [op EXCEPT ![p] = IdleOp]
        /\ UNCHANGED <<redis, cache, listener, writes, faults>>
    BY <1>8 DEF PutPublish
  <2>3. channel' = [n \in Node |-> IF listener[n] = "subscribed" THEN Append(channel[n], msg)
                                                               ELSE channel[n]]
    BY <1>8, <2>1 DEF PutPublish
  <2>4. missed' = missed \cup {<<n, msg.key>> : n \in {x \in Node : listener[x] # "subscribed"}}
    BY <1>8, <2>1 DEF PutPublish
  <2>5. msg \in Message /\ msg.key \in Key
    BY <2>1, <2>2, OpFields DEF Message
  <2>6. \A n \in Node : Append(channel[n], msg) \in Seq(Message)
    BY <2>5
  <2>7. channel' \in [Node -> Seq(Message)]
    BY <2>3, <2>6
  <2>8. missed' \subseteq Node \X Key
    BY <2>4, <2>5
  <2>9. Valued'
    BY <2>2 DEF Valued, IdleOp
  <2> QED
    BY <2>2, <2>7, <2>8, <2>9, TypedBy
<1>9. ASSUME NEW n \in Node, Subscribe(n) PROVE TypeOK' /\ Valued'
  <2>1. /\ listener' = [listener EXCEPT ![n] = "subscribed"]
        /\ UNCHANGED <<redis, cache, channel, op, writes, faults, missed>>
    BY <1>9 DEF Subscribe
  <2> QED
    BY <2>1, TypedBy DEF Valued
<1>10. ASSUME NEW n \in Node, Deliver(n) PROVE TypeOK' /\ Valued'
  <2>1. /\ channel[n] # << >> /\ channel' = [channel EXCEPT ![n] = Tail(channel[n])]
        /\ cache' = [cache EXCEPT ![n] = IF IsForeign(n, Head(channel[n]))
                                           THEN Invalidate(@, Head(channel[n]).key) ELSE @]
        /\ UNCHANGED <<redis, listener, op, writes, faults, missed>>
    BY <1>10 DEF Deliver
  <2>2. Head(channel[n]) \in Message /\ Tail(channel[n]) \in Seq(Message)
    BY <2>1, HeadTailProperties
  <2>3. Head(channel[n]).key \in Key
    BY <2>2 DEF Message
  <2>4. PICK c : Ordered(c) /\ cache' = [cache EXCEPT ![n] = c]
    <3>1. CASE IsForeign(n, Head(channel[n]))
      <4>1. PICK c : c = Invalidate(cache[n], Head(channel[n]).key)
        OBVIOUS
      <4>2. Ordered(c)
        BY <2>3, <4>1, CachesOrdered, Invalidated
      <4>3. cache' = [cache EXCEPT ![n] = c]
        BY <2>1, <3>1, <4>1
      <4> QED
        BY <4>2, <4>3
    <3>2. CASE ~IsForeign(n, Head(channel[n]))
      BY <2>1, <3>2, CachesOrdered
    <3> QED
      BY <3>1, <3>2
  <2>5. channel' \in [Node -> Seq(Message)]
    BY <2>1, <2>2
  <2> QED
    BY <2>1, <2>4, <2>5, CacheTyped, TypedBy DEF Valued
<1>11. ASSUME NEW k \in Key, Expire(k) PROVE TypeOK' /\ Valued'
  <2>1. /\ redis' = [redis EXCEPT ![k] = Absent]
        /\ missed' = missed \cup
             {<<op[q].node, k>> : q \in {x \in Proc : op[x].at = "pttl" /\ op[x].key = k}}
        /\ UNCHANGED <<cache, listener, channel, op, writes, faults>>
    BY <1>11 DEF Expire
  <2>2. redis' \in [Key -> [value : 0 .. MaxWrites, ttl : BOOLEAN]]
    BY <2>1, CacheBoundsAreNat DEF Absent
  <2>3. missed' \subseteq Node \X Key
    <3>1. \A q \in {x \in Proc : op[x].at = "pttl" /\ op[x].key = k} : op[q].node \in Node
      BY OpFields
    <3> QED
      BY <2>1, <3>1
  <2>4. Valued'
    BY <2>1 DEF Valued
  <2> QED
    BY <2>1, <2>2, <2>3, <2>4, TypedBy
<1>12. ASSUME NEW n \in Node, NEW i \in 1 .. Len(cache[n]), FallDue(n, i)
       PROVE  TypeOK' /\ Valued'
  <2>1. UNCHANGED <<redis, listener, channel, op, writes, faults, missed>>
    BY <1>12 DEF FallDue
  <2>2. PICK c : Ordered(c) /\ cache' = [cache EXCEPT ![n] = c]
    BY <1>12, DueCopy
  <2> QED
    BY <2>1, <2>2, CacheTyped, TypedBy DEF Valued
<1>13. Fault => faults' \in 0 .. MaxFaults
  BY CacheBoundsAreNat DEF Fault
<1>14. \A P \in SUBSET Proc : Untold(P) \subseteq Key
  BY OpFields DEF Untold
<1>15. ASSUME NEW p \in Proc, OpFails(p) PROVE TypeOK' /\ Valued'
  <2>1. /\ Fault /\ op' = [op EXCEPT ![p] = IdleOp]
        /\ missed' = missed \cup (Node \X Untold({p}))
        /\ UNCHANGED <<redis, cache, listener, channel, writes>>
    BY <1>15 DEF OpFails
  <2>2. missed' \subseteq Node \X Key
    BY <1>14, <2>1
  <2>3. Valued'
    BY <2>1 DEF Valued, IdleOp
  <2> QED
    BY <1>13, <2>1, <2>2, <2>3, TypedBy
<1>16. ASSUME NEW n \in Node, ListenerStops(n) PROVE TypeOK' /\ Valued'
  <2>1. /\ Fault /\ listener' = [listener EXCEPT ![n] = "stopped"]
        /\ channel' = [channel EXCEPT ![n] = << >>]
        /\ missed' = missed \cup {<<n, msg.key>> : msg \in ToSet(channel[n])}
        /\ UNCHANGED <<redis, cache, op, writes>>
    BY <1>16 DEF ListenerStops
  <2>2. missed' \subseteq Node \X Key
    <3>1. \A msg \in ToSet(channel[n]) : msg \in Message
      BY LenProperties, ElementOfSeq DEF ToSet
    <3> QED
      BY <2>1, <3>1 DEF Message
  <2>3. channel' \in [Node -> Seq(Message)]
    BY <2>1
  <2> QED
    BY <1>13, <2>1, <2>2, <2>3, TypedBy DEF Valued
<1>17. ASSUME NEW n \in Node, Restart(n) PROVE TypeOK' /\ Valued'
  <2> DEFINE mine == {p \in Proc : op[p] # IdleOp /\ op[p].node = n}
  <2>1. /\ Fault /\ cache' = [cache EXCEPT ![n] = << >>]
        /\ channel' = [channel EXCEPT ![n] = << >>]
        /\ listener' = [listener EXCEPT ![n] = "starting"]
        /\ op' = [p \in Proc |-> IF p \in mine THEN IdleOp ELSE op[p]]
        /\ missed' = missed \cup (Node \X Untold(mine))
        /\ UNCHANGED <<redis, writes>>
    BY <1>17 DEF Restart
  <2> HIDE DEF mine
  <2>2. Ordered(<< >>)
    BY CapacityIsPositive DEF Ordered, OncePerKey
  <2>3. missed' \subseteq Node \X Key
    <3>1. mine \in SUBSET Proc
      BY DEF mine
    <3> QED
      BY <1>14, <2>1, <3>1
  <2>4. Valued'
    BY <2>1 DEF Valued, IdleOp
  <2>5. channel' \in [Node -> Seq(Message)]
    BY <2>1
  <2>6. op' \in [Proc -> {IdleOp} \cup
                  [at : {"get", "pttl", "fill", "store", "publish"},
                   node : Node, key : Key, value : 0 .. MaxWrites, ttl : BOOLEAN]]
    BY <2>1
  <2> QED
    BY <1>13, <2>1, <2>2, <2>3, <2>4, <2>5, <2>6, CacheTyped, TypedBy
<1> QED
  BY <1>1, <1>2, <1>3, <1>4, <1>5, <1>6, <1>7, <1>8, <1>9, <1>10, <1>11, <1>12, <1>15, <1>16,
     <1>17 DEF Next, Step

\* The services start with their types.
LEMMA TypedFirst == Init => TypeOK /\ Valued
PROOF
<1>1. SUFFICES ASSUME Init PROVE TypeOK /\ Valued
  OBVIOUS
<1>2. Ordered(<< >>)
  BY CapacityIsPositive DEF Ordered, OncePerKey
<1>3. TypeOK
  BY <1>1, <1>2, CacheBoundsAreNat DEF Init, TypeOK, Ordered, OncePerKey, Absent
<1>4. Valued
  BY <1>1 DEF Init, Valued, IdleOp
<1> QED
  BY <1>3, <1>4

-----------------------------------------------------------------------------
(***************************************************************************)
(* Requests under way.                                                     *)
(***************************************************************************)

\* Requests that go on or end, while Redis stays as it is.
LEMMA RequestsRest ==
  ASSUME ReadsFit, OpsFit, UNCHANGED redis, missed \subseteq missed',
         \A p \in Proc : op'[p] = op[p] \/ op'[p].at \notin {"pttl", "fill", "store"}
  PROVE  ReadsFit' /\ OpsFit'
BY DEF ReadsFit, OpsFit, Overtook, Fits

\* A request has read its value, or found none.
LEMMA ReadValueFits ==
  ASSUME TypeOK, ReadsFit, OpsFit, NEW p \in Proc, ReadValue(p)
  PROVE  ReadsFit' /\ OpsFit'
PROOF
<1>1. op \in [Proc -> {op[q] : q \in Proc}] /\ op[p].at = "get" /\ UNCHANGED <<redis, missed>>
  BY DEF TypeOK, ReadValue
<1>2. CASE redis[op[p].key] = Absent
  <2>1. op' = [op EXCEPT ![p] = IdleOp]
    BY <1>2 DEF ReadValue
  <2> QED
    BY <1>1, <2>1, RequestsRest DEF IdleOp
<1>3. CASE redis[op[p].key] # Absent
  <2>1. op[p] \in [at : {"get", "pttl", "fill", "store", "publish"},
                   node : Node, key : Key, value : 0 .. MaxWrites, ttl : BOOLEAN]
    BY <1>1 DEF TypeOK, IdleOp
  <2>2. op' = [op EXCEPT ![p] = [@ EXCEPT !.at = "pttl", !.value = redis[op[p].key].value]]
    BY <1>3 DEF ReadValue
  <2>3. /\ op'[p].at = "pttl" /\ op'[p].value = redis[op[p].key].value
        /\ op'[p].key = op[p].key
        /\ \A q \in Proc : q # p => op'[q] = op[q]
    BY <1>1, <2>1, <2>2
  <2> QED
    BY <1>1, <1>3, <2>3 DEF ReadsFit, OpsFit, Overtook, Fits
<1> QED
  BY <1>2, <1>3

\* A request has read the TTL of the value it read before, which is still there.
LEMMA ReadTtlFits ==
  ASSUME TypeOK, ReadsFit, OpsFit, NEW p \in Proc, ReadTtl(p)
  PROVE  ReadsFit' /\ OpsFit'
PROOF
<1>1. /\ op[p].at = "pttl" /\ UNCHANGED <<redis, missed>>
      /\ op' = [op EXCEPT ![p].at = "fill", ![p].ttl = redis[op[p].key].ttl]
  BY DEF ReadTtl
<1>2. op[p] \in [at : {"get", "pttl", "fill", "store", "publish"},
                 node : Node, key : Key, value : 0 .. MaxWrites, ttl : BOOLEAN]
  BY <1>1 DEF TypeOK, IdleOp
<1>3. /\ op'[p].at = "fill" /\ op'[p].value = op[p].value /\ op'[p].key = op[p].key
      /\ op'[p].node = op[p].node /\ op'[p].ttl = redis[op[p].key].ttl
      /\ \A q \in Proc : q # p => op'[q] = op[q]
  BY <1>1, <1>2 DEF TypeOK
<1>4. ~Overtook(p) => Fits(op[p].key, op[p].value, redis[op[p].key].ttl)
  BY <1>1 DEF ReadsFit, Fits
<1>5. ASSUME NEW q \in Proc PROVE Overtook(q)' <=> Overtook(q)
  <2>1. op'[q].node = op[q].node /\ op'[q].key = op[q].key
    BY <1>3
  <2> QED
    BY <1>1, <2>1 DEF Overtook
<1>6. ReadsFit'
  BY <1>1, <1>3, <1>5 DEF ReadsFit
<1>7. ASSUME NEW q \in Proc, op'[q].at \in {"fill", "store"}, ~Overtook(q)'
      PROVE  Fits(op[q].key, op[q].value, op[q].ttl)'
  <2>1. CASE q = p
    BY <1>1, <1>3, <1>4, <1>5, <1>7, <2>1 DEF Fits
  <2>2. CASE q # p
    BY <1>1, <1>3, <1>5, <1>7, <2>2 DEF OpsFit, Fits
  <2> QED
    BY <2>1, <2>2
<1>8. OpsFit'
  BY <1>7 DEF OpsFit
<1> QED
  BY <1>6, <1>8

\* A put changes Redis under the requests that it overtakes.
LEMMA PutSetFits ==
  ASSUME TypeOK, ReadsFit, OpsFit, NEW p \in Proc, NEW n \in Node, NEW k \in Key,
         NEW ttl \in BOOLEAN, PutSet(p, n, k, ttl)
  PROVE  ReadsFit' /\ OpsFit'
PROOF
<1>1. /\ redis' = [redis EXCEPT ![k] = [value |-> writes + 1, ttl |-> ttl]]
      /\ op' = [op EXCEPT ![p] = Op("store", n, k, writes + 1, ttl)]
      /\ missed' = missed \cup {<<op[q].node, k>> : q \in Overtaken(p, k)}
  BY DEF PutSet
<1>2. writes + 1 # 0
  BY CacheBoundsAreNat DEF TypeOK
<1>3. /\ redis'[k].value = writes + 1 /\ redis'[k].ttl = ttl /\ redis'[k] # Absent
      /\ \A x \in Key : x # k => redis'[x] = redis[x]
  BY <1>1, <1>2 DEF TypeOK, Absent
<1>4. /\ op'[p].at = "store" /\ op'[p].key = k /\ op'[p].value = writes + 1
      /\ op'[p].ttl = ttl
      /\ \A q \in Proc : q # p => op'[q] = op[q]
  BY <1>1 DEF TypeOK, Op
<1>5. ASSUME NEW q \in Proc, q # p, op[q].at \in {"pttl", "fill", "store"}, ~Overtook(q)'
      PROVE  op'[q] = op[q] /\ ~Overtook(q) /\ op[q].key \in Key /\ op[q].key # k
  <2>1. op'[q] = op[q] /\ op[q].key \in Key
    BY <1>4, <1>5, OpFields
  <2>2. ~Overtook(q)
    BY <1>1, <1>5, <2>1 DEF Overtook
  <2>3. op[q].key # k
    BY <1>1, <1>5, <2>1 DEF Overtook, Overtaken
  <2> QED
    BY <2>1, <2>2, <2>3
<1>6. Fits(op[p].key, op[p].value, op[p].ttl)'
  BY <1>3, <1>4 DEF Fits
<1> QED
  BY <1>3, <1>4, <1>5, <1>6 DEF ReadsFit, OpsFit, Fits

\* A key expires under the requests that have not read its TTL.
LEMMA ExpireFits ==
  ASSUME TypeOK, ReadsFit, OpsFit, NEW k \in Key, Expire(k)
  PROVE  ReadsFit' /\ OpsFit'
PROOF
<1>1. /\ redis[k].ttl /\ redis' = [redis EXCEPT ![k] = Absent] /\ UNCHANGED op
      /\ missed' = missed \cup
           {<<op[q].node, k>> : q \in {x \in Proc : op[x].at = "pttl" /\ op[x].key = k}}
  BY DEF Expire
<1>2. redis'[k] = Absent /\ redis[k] # Absent /\ \A x \in Key : x # k => redis'[x] = redis[x]
  BY <1>1 DEF TypeOK, Absent
<1>3. ASSUME NEW p \in Proc, op[p].at = "pttl", ~Overtook(p)'
      PROVE  op[p].key \in Key /\ op[p].key # k /\ ~Overtook(p)
  <2>1. op[p].key \in Key
    BY <1>3, OpFields
  <2> QED
    BY <1>1, <1>3, <2>1 DEF Overtook
<1>4. ReadsFit'
  BY <1>1, <1>2, <1>3 DEF ReadsFit
<1>5. ASSUME NEW p \in Proc, op[p].at \in {"fill", "store"}, ~Overtook(p)'
      PROVE  Fits(op[p].key, op[p].value, op[p].ttl)'
  <2>1. op[p].key \in Key /\ Fits(op[p].key, op[p].value, op[p].ttl)
    BY <1>1, <1>5, OpFields DEF Overtook, OpsFit
  <2>2. CASE op[p].key = k
    BY <1>1, <1>2, <2>1, <2>2 DEF Fits
  <2>3. CASE op[p].key # k
    BY <1>1, <1>2, <2>1, <2>3 DEF Fits
  <2> QED
    BY <2>2, <2>3
<1>6. OpsFit'
  BY <1>1, <1>5 DEF OpsFit
<1> QED
  BY <1>4, <1>6

\* Every step keeps what is known of the requests under way.
LEMMA RequestSteps ==
  ASSUME TypeOK, ReadsFit, OpsFit, Next
  PROVE  ReadsFit' /\ OpsFit'
PROOF
<1> USE DEF IdleOp
<1>1. op \in [Proc -> {op[q] : q \in Proc}]
  BY DEF TypeOK
<1>2. ASSUME NEW n \in Node, NEW k \in Key, GetHit(n, k) PROVE ReadsFit' /\ OpsFit'
  BY <1>2, RequestsRest DEF GetHit
<1>3. ASSUME NEW p \in Proc, NEW n \in Node, NEW k \in Key, GetMiss(p, n, k)
      PROVE  ReadsFit' /\ OpsFit'
  BY <1>1, <1>3, RequestsRest DEF GetMiss, Op
<1>4. ASSUME NEW p \in Proc, Fill(p) PROVE ReadsFit' /\ OpsFit'
  BY <1>1, <1>4, RequestsRest DEF Fill
<1>5. ASSUME NEW p \in Proc, PutStore(p) PROVE ReadsFit' /\ OpsFit'
  BY <1>1, <1>5, RequestsRest DEF PutStore, Op
<1>6. ASSUME NEW p \in Proc, PutPublish(p) PROVE ReadsFit' /\ OpsFit'
  BY <1>1, <1>6, RequestsRest DEF PutPublish
<1>7. ASSUME NEW n \in Node, Subscribe(n) \/ Deliver(n) PROVE ReadsFit' /\ OpsFit'
  BY <1>7, RequestsRest DEF Subscribe, Deliver
<1>8. ASSUME NEW n \in Node, NEW i \in 1 .. Len(cache[n]), FallDue(n, i)
      PROVE  ReadsFit' /\ OpsFit'
  BY <1>8, RequestsRest DEF FallDue
<1>9. ASSUME NEW p \in Proc, OpFails(p) PROVE ReadsFit' /\ OpsFit'
  BY <1>1, <1>9, RequestsRest DEF OpFails
<1>10. ASSUME NEW n \in Node, ListenerStops(n) PROVE ReadsFit' /\ OpsFit'
  BY <1>10, RequestsRest DEF ListenerStops
<1>11. ASSUME NEW n \in Node, Restart(n) PROVE ReadsFit' /\ OpsFit'
  <2>1. UNCHANGED redis /\ missed \subseteq missed'
    BY <1>11 DEF Restart
  <2>2. \A p \in Proc : op'[p] = op[p] \/ op'[p].at \notin {"pttl", "fill", "store"}
    BY <1>11 DEF Restart
  <2> QED
    BY <2>1, <2>2, RequestsRest
<1> QED
  BY <1>2, <1>3, <1>4, <1>5, <1>6, <1>7, <1>8, <1>9, <1>10, <1>11,
     ReadValueFits, ReadTtlFits, PutSetFits, ExpireFits DEF Next, Step

-----------------------------------------------------------------------------
(***************************************************************************)
(* Copies.                                                                 *)
(***************************************************************************)

Same(d, e) == d.value = e.value /\ (d.expires = "never" <=> e.expires = "never")

\* While Redis stays as it is, copies fit that fit before or that are new and fit.
LEMMA CopiesRest ==
  ASSUME CopiesFit, UNCHANGED redis,
         \A n \in Node, k \in Key : Settled(n, k)' =>
           \A e \in CopiesOf(cache'[n], k) :
             \/ CopyFits(e, k)
             \/ Settled(n, k) /\ \E d \in CopiesOf(cache[n], k) : Same(d, e)
  PROVE  CopiesFit'
PROOF
<1>1. SUFFICES ASSUME NEW n \in Node, NEW k \in Key, Settled(n, k)',
                      NEW e \in CopiesOf(cache'[n], k)
               PROVE  CopyFits(e, k)'
  BY DEF CopiesFit
<1>2. CopyFits(e, k)' <=> CopyFits(e, k)
  BY DEF CopyFits, Fits
<1>3. CASE Settled(n, k) /\ \E d \in CopiesOf(cache[n], k) : Same(d, e)
  <2>1. PICK d \in CopiesOf(cache[n], k) : Same(d, e)
    BY <1>3
  <2>2. CopyFits(d, k)
    BY <1>3 DEF CopiesFit
  <2> QED
    BY <1>2, <2>1, <2>2 DEF CopyFits, Fits, Same
<1> QED
  BY <1>1, <1>2, <1>3

\* A put is under way for longer than for one step that is not its own.
LEMMA StillBeingPut ==
  ASSUME NEW n \in Node, NEW k \in Key, BeingPut(n, k),
         \A p \in Proc : op'[p] = op[p] \/ op[p].at \notin {"store", "publish"}
  PROVE  BeingPut(n, k)'
BY DEF BeingPut

\* What is settled after a step that announces nothing was settled before it.
LEMMA SettledBefore ==
  ASSUME NEW n \in Node, NEW k \in Key, Settled(n, k)', channel'[n] = channel[n],
         missed \subseteq missed',
         \A p \in Proc : op'[p] = op[p] \/ op[p].at \notin {"store", "publish"}
  PROVE  Settled(n, k)
BY StillBeingPut DEF Settled, Announced

\* A step that only moves, ages or drops copies.
LEMMA CopiesMoved ==
  ASSUME CopiesFit, UNCHANGED <<redis, channel>>, missed \subseteq missed',
         \A p \in Proc : op'[p] = op[p] \/ op[p].at \notin {"store", "publish"},
         \A n \in Node, k \in Key : \A e \in CopiesOf(cache'[n], k) :
           \E d \in CopiesOf(cache[n], k) : Same(d, e)
  PROVE  CopiesFit'
BY SettledBefore, CopiesRest

\* Copies that stay copies.
LEMMA SameCopies ==
  ASSUME TypeOK, NEW n \in Node, NEW c, cache' = [cache EXCEPT ![n] = c],
         \A x : \A e \in CopiesOf(c, x) : \E d \in CopiesOf(cache[n], x) : Same(d, e)
  PROVE  \A m \in Node, k \in Key : \A e \in CopiesOf(cache'[m], k) :
           \E d \in CopiesOf(cache[m], k) : Same(d, e)
PROOF
<1>1. cache'[n] = c /\ \A m \in Node : m # n => cache'[m] = cache[m]
  BY DEF TypeOK
<1>2. \A e : Same(e, e)
  BY DEF Same
<1> QED
  BY <1>1, <1>2

\* A get that is answered from the cache.
LEMMA GetHitFits ==
  ASSUME TypeOK, CopiesFit, NEW n \in Node, NEW k \in Key, GetHit(n, k)
  PROVE  CopiesFit'
PROOF
<1>1. PICK c : /\ cache' = [cache EXCEPT ![n] = c]
               /\ \A x : CopiesOf(c, x) \subseteq CopiesOf(cache[n], x)
  BY HitMoves
<1>2. \A x : \A e \in CopiesOf(c, x) : \E d \in CopiesOf(cache[n], x) : Same(d, e)
  BY <1>1 DEF Same
<1>3. UNCHANGED <<redis, channel, op, missed>>
  BY DEF GetHit
<1> QED
  BY <1>1, <1>2, <1>3, SameCopies, CopiesMoved

\* A get that drops a due copy and goes to Redis.
LEMMA GetMissFits ==
  ASSUME TypeOK, CopiesFit, NEW p \in Proc, NEW n \in Node, NEW k \in Key, GetMiss(p, n, k)
  PROVE  CopiesFit'
PROOF
<1>1. PICK c : c = Invalidate(cache[n], k)
  OBVIOUS
<1>2. cache' = [cache EXCEPT ![n] = c] /\ UNCHANGED <<redis, channel, missed>>
  BY <1>1 DEF GetMiss
<1>3. \A x : CopiesOf(c, x) \subseteq CopiesOf(cache[n], x)
  BY <1>1, CachesOrdered, Invalidated
<1>4. \A x : \A e \in CopiesOf(c, x) : \E d \in CopiesOf(cache[n], x) : Same(d, e)
  BY <1>3 DEF Same
<1>5. \A q \in Proc : op'[q] = op[q] \/ op[q].at \notin {"store", "publish"}
  <2>1. op' = [op EXCEPT ![p] = Op("get", n, k, 0, FALSE)] /\ op[p].at = "idle"
    BY DEF GetMiss, IdleOp
  <2>2. \A q \in Proc : q # p => op'[q] = op[q]
    BY <2>1 DEF TypeOK
  <2> QED
    BY <2>1, <2>2
<1> QED
  BY <1>2, <1>4, <1>5, SameCopies, CopiesMoved

\* A copy falls due.
LEMMA FallDueFits ==
  ASSUME TypeOK, CopiesFit, NEW n \in Node, NEW i \in 1 .. Len(cache[n]), FallDue(n, i)
  PROVE  CopiesFit'
PROOF
<1>1. PICK c : /\ cache' = [cache EXCEPT ![n] = c]
               /\ \A x : \A e \in CopiesOf(c, x) : \E d \in CopiesOf(cache[n], x) :
                    d.value = e.value /\ (d.expires = "never" <=> e.expires = "never")
  BY DueCopy
<1>2. \A x : \A e \in CopiesOf(c, x) : \E d \in CopiesOf(cache[n], x) : Same(d, e)
  BY <1>1 DEF Same
<1>3. UNCHANGED <<redis, channel, op, missed>>
  BY DEF FallDue
<1> QED
  BY <1>1, <1>2, <1>3, SameCopies, CopiesMoved

\* A request reads from Redis, or a listener subscribes.
LEMMA ReadsLeaveCopies ==
  ASSUME TypeOK, CopiesFit, UNCHANGED <<redis, cache, channel, missed>>,
         \A p \in Proc : op'[p] = op[p] \/ op[p].at \notin {"store", "publish"}
  PROVE  CopiesFit'
PROOF
<1>1. \A n \in Node, k \in Key : \A e \in CopiesOf(cache'[n], k) :
        \E d \in CopiesOf(cache[n], k) : Same(d, e)
  BY DEF Same
<1> QED
  BY <1>1, CopiesMoved

\* What a get or a put stores, and where.
LEMMA OpStored ==
  ASSUME TypeOK, Valued, NEW p \in Proc, op[p].at \in {"fill", "store"},
         NEW state \in {"S", "M"},
         StoreCopy(op[p].node, op[p].key, op[p].value, state, op[p].ttl)
  PROVE  \A m \in Node, x \in Key : \A e \in CopiesOf(cache'[m], x) :
           IF m = op[p].node /\ x = op[p].key
             THEN e.value = op[p].value /\ (e.expires # "never" <=> op[p].ttl)
             ELSE e \in CopiesOf(cache[m], x)
PROOF
<1>1. /\ op[p].node \in Node /\ op[p].key \in Key /\ op[p].ttl \in BOOLEAN
      /\ op[p].value \in 1 .. MaxWrites
  BY OpFields DEF Valued
<1>2. PICK n \in Node : n = op[p].node
  BY <1>1
<1>3. PICK k \in Key : k = op[p].key
  BY <1>1
<1>4. PICK v \in 1 .. MaxWrites : v = op[p].value
  BY <1>1
<1>5. PICK ttl \in BOOLEAN : ttl = op[p].ttl
  BY <1>1
<1>6. StoreCopy(n, k, v, state, ttl)
  BY <1>2, <1>3, <1>4, <1>5
<1>7. PICK c : /\ Ordered(c) /\ cache' = [cache EXCEPT ![n] = c]
               /\ \A x : x # k => CopiesOf(c, x) \subseteq CopiesOf(cache[n], x)
               /\ \A e \in CopiesOf(c, k) : e.value = v /\ e.expires = Expiry(ttl)
  BY <1>6, CopyStored
<1>8. cache'[n] = c /\ \A m \in Node : m # n => cache'[m] = cache[m]
  BY <1>7 DEF TypeOK
<1>9. SUFFICES ASSUME NEW m \in Node, NEW x \in Key, NEW e \in CopiesOf(cache'[m], x)
               PROVE  IF m = n /\ x = k THEN e.value = v /\ (e.expires # "never" <=> ttl)
                                        ELSE e \in CopiesOf(cache[m], x)
  BY <1>2, <1>3, <1>4, <1>5
<1>10. CASE m = n /\ x = k
  <2>1. e.value = v /\ e.expires = Expiry(ttl)
    BY <1>7, <1>8, <1>9, <1>10
  <2> QED
    BY <1>10, <2>1 DEF Expiry
<1>11. CASE ~(m = n /\ x = k)
  BY <1>7, <1>8, <1>9, <1>11
<1> QED
  BY <1>10, <1>11

\* What a get or a put stores fits, unless the request was overtaken.
LEMMA OpStoredFits ==
  ASSUME TypeOK, Valued, OpsFit, NEW p \in Proc, op[p].at \in {"fill", "store"},
         NEW state \in {"S", "M"}, ~Overtook(p),
         StoreCopy(op[p].node, op[p].key, op[p].value, state, op[p].ttl),
         NEW e \in CopiesOf(cache'[op[p].node], op[p].key)
  PROVE  CopyFits(e, op[p].key)
PROOF
<1>1. op[p].node \in Node /\ op[p].key \in Key /\ op[p].ttl \in BOOLEAN
  BY OpFields
<1>2. e.value = op[p].value /\ (e.expires # "never" <=> op[p].ttl)
  BY <1>1, OpStored
<1>3. Fits(op[p].key, op[p].value, op[p].ttl)
  BY DEF OpsFit
<1> QED
  BY <1>1, <1>2, <1>3 DEF CopyFits, Fits

\* A get stores what it read.
LEMMA FillFits ==
  ASSUME TypeOK, Valued, OpsFit, CopiesFit, NEW p \in Proc, Fill(p)
  PROVE  CopiesFit'
PROOF
<1>1. /\ op[p].at = "fill" /\ op' = [op EXCEPT ![p] = IdleOp]
      /\ StoreCopy(op[p].node, op[p].key, op[p].value, "S", op[p].ttl)
      /\ UNCHANGED <<redis, channel, missed>>
  BY DEF Fill
<1>2. \A q \in Proc : op'[q] = op[q] \/ op[q].at \notin {"store", "publish"}
  BY <1>1 DEF TypeOK
<1>3. SUFFICES ASSUME NEW m \in Node, NEW x \in Key, Settled(m, x)',
                      NEW e \in CopiesOf(cache'[m], x)
               PROVE  CopyFits(e, x) \/ e \in CopiesOf(cache[m], x)
  BY <1>1, <1>2, SettledBefore, CopiesRest DEF Same
<1>4. CASE m = op[p].node /\ x = op[p].key
  <2>1. ~Overtook(p)
    BY <1>1, <1>3, <1>4 DEF Settled, Overtook
  <2> QED
    BY <1>1, <1>3, <1>4, <2>1, OpStoredFits
<1>5. CASE ~(m = op[p].node /\ x = op[p].key)
  BY <1>1, <1>3, <1>5, OpStored
<1> QED
  BY <1>4, <1>5

\* A put changes Redis and is then under way: no node is settled about its key.
LEMMA PutSetCopies ==
  ASSUME TypeOK, CopiesFit, NEW p \in Proc, NEW n \in Node, NEW k \in Key,
         NEW ttl \in BOOLEAN, PutSet(p, n, k, ttl)
  PROVE  CopiesFit'
PROOF
<1>1. /\ op[p].at = "idle" /\ op' = [op EXCEPT ![p] = Op("store", n, k, writes + 1, ttl)]
      /\ redis' = [redis EXCEPT ![k] = [value |-> writes + 1, ttl |-> ttl]]
      /\ missed \subseteq missed' /\ UNCHANGED <<cache, channel>>
  BY DEF PutSet, IdleOp
<1>2. /\ op'[p].at = "store" /\ op'[p].key = k
      /\ \A q \in Proc : op'[q] = op[q] \/ op[q].at \notin {"store", "publish"}
  BY <1>1 DEF TypeOK, Op
<1>3. SUFFICES ASSUME NEW m \in Node, NEW x \in Key, Settled(m, x)',
                      NEW e \in CopiesOf(cache'[m], x)
               PROVE  CopyFits(e, x)'
  BY DEF CopiesFit
<1>4. x # k
  BY <1>2, <1>3 DEF Settled, BeingPut
<1>5. redis'[x] = redis[x]
  BY <1>1, <1>4 DEF TypeOK
<1>6. CopyFits(e, x)
  BY <1>1, <1>2, <1>3, SettledBefore DEF CopiesFit
<1> QED
  BY <1>5, <1>6 DEF CopyFits, Fits

\* A put stores what it wrote, and has the other nodes to tell.
LEMMA PutStoreFits ==
  ASSUME TypeOK, Valued, OpsFit, CopiesFit, NEW p \in Proc, PutStore(p)
  PROVE  CopiesFit'
PROOF
<1>1. /\ op[p].at = "store"
      /\ op' = [op EXCEPT ![p] = Op("publish", op[p].node, op[p].key, 0, FALSE)]
      /\ StoreCopy(op[p].node, op[p].key, op[p].value, "M", op[p].ttl)
      /\ UNCHANGED <<redis, channel, missed>>
  BY DEF PutStore
<1>2. /\ op'[p].at = "publish" /\ op'[p].node = op[p].node /\ op'[p].key = op[p].key
      /\ \A q \in Proc : q # p => op'[q] = op[q]
  BY <1>1 DEF TypeOK, Op
<1>3. SUFFICES ASSUME NEW m \in Node, NEW x \in Key, Settled(m, x)',
                      NEW e \in CopiesOf(cache'[m], x)
               PROVE  CopyFits(e, x) \/ (Settled(m, x) /\ e \in CopiesOf(cache[m], x))
  BY <1>1, CopiesRest DEF Same
<1>4. CASE m = op[p].node /\ x = op[p].key
  <2>1. ~Overtook(p)
    BY <1>1, <1>3, <1>4 DEF Settled, Overtook
  <2> QED
    BY <1>1, <1>3, <1>4, <2>1, OpStoredFits
<1>5. CASE ~(m = op[p].node /\ x = op[p].key)
  <2>1. x # op[p].key
    BY <1>2, <1>3, <1>5 DEF Settled, BeingPut
  <2>2. Settled(m, x)
    BY <1>1, <1>2, <1>3, <2>1 DEF Settled, BeingPut, Announced
  <2> QED
    BY <1>1, <1>3, <1>5, <2>2, OpStored
<1> QED
  BY <1>4, <1>5
\* A put tells the nodes that listen; the others have missed the change.
LEMMA PutPublishFits ==
  ASSUME TypeOK, CopiesFit, NEW p \in Proc, PutPublish(p)
  PROVE  CopiesFit'
PROOF
<1>1. PICK msg : msg = [key |-> op[p].key, from |-> op[p].node]
  OBVIOUS
<1>2. /\ op[p].at = "publish" /\ op' = [op EXCEPT ![p] = IdleOp]
      /\ UNCHANGED <<redis, cache>>
  BY DEF PutPublish
<1>3. channel' = [n \in Node |-> IF listener[n] = "subscribed" THEN Append(channel[n], msg)
                                                             ELSE channel[n]]
  BY <1>1 DEF PutPublish
<1>4. missed' = missed \cup {<<n, msg.key>> : n \in {x \in Node : listener[x] # "subscribed"}}
  BY <1>1 DEF PutPublish
<1>5. \A q \in Proc : q # p => op'[q] = op[q]
  BY <1>2 DEF TypeOK
<1>6. SUFFICES ASSUME NEW m \in Node, NEW k \in Key, Settled(m, k)' PROVE Settled(m, k)
  BY <1>2, CopiesRest DEF Same
<1>7. <<m, k>> \notin missed
  BY <1>4, <1>6 DEF Settled
<1>8. CASE listener[m] = "subscribed"
  <2>1. channel[m] \in Seq(Message) /\ Len(channel[m]) \in Nat
    BY TypedNow, LenProperties
  <2>2. msg \in Message
    BY <1>1, <1>2, OpFields DEF Message
  <2>3. channel'[m] = Append(channel[m], msg)
    BY <1>3, <1>8
  <2>4. /\ Len(channel'[m]) = Len(channel[m]) + 1 /\ channel'[m][Len(channel[m]) + 1] = msg
        /\ \A i \in 1 .. Len(channel[m]) : channel'[m][i] = channel[m][i]
    BY <2>1, <2>2, <2>3, AppendProperties
  <2>5. ~Announced(m, k) /\ ~(msg.key = k /\ msg.from # m)
    BY <1>6, <2>1, <2>4 DEF Settled, Announced
  <2>6. ~BeingPut(m, k)
    BY <1>1, <1>2, <1>5, <1>6, <2>5 DEF Settled, BeingPut
  <2> QED
    BY <1>7, <2>5, <2>6 DEF Settled
<1>9. CASE listener[m] # "subscribed"
  <2>1. channel'[m] = channel[m]
    BY <1>3, <1>9
  <2>2. op[p].key # k
    BY <1>1, <1>4, <1>6, <1>9 DEF Settled
  <2>3. ~BeingPut(m, k)
    BY <1>5, <1>6, <2>2 DEF Settled, BeingPut
  <2> QED
    BY <1>6, <1>7, <2>1, <2>3 DEF Settled, Announced
<1> QED
  BY <1>8, <1>9

\* A listener takes a message: a foreign one drops the copy it is about.
LEMMA DeliverFits ==
  ASSUME TypeOK, CopiesFit, NEW n \in Node, Deliver(n)
  PROVE  CopiesFit'
PROOF
<1>1. PICK msg : msg = Head(channel[n])
  OBVIOUS
<1>2. /\ channel[n] # << >> /\ channel' = [channel EXCEPT ![n] = Tail(channel[n])]
      /\ UNCHANGED <<redis, op, missed>>
  BY DEF Deliver
<1>3. cache' = [cache EXCEPT ![n] =
                  IF IsForeign(n, msg) THEN Invalidate(cache[n], msg.key) ELSE cache[n]]
  BY <1>1 DEF Deliver
<1>4. /\ channel[n] \in Seq(Message) /\ Len(channel[n]) \in Nat
      /\ msg = channel[n][1] /\ msg.key \in Key
      /\ Len(Tail(channel[n])) = Len(channel[n]) - 1
      /\ \A i \in 1 .. Len(Tail(channel[n])) : Tail(channel[n])[i] = channel[n][i + 1]
  <2>1. channel[n] \in Seq(Message) /\ Len(channel[n]) \in Nat
    BY TypedNow, LenProperties
  <2>2. Head(channel[n]) \in Message
    BY <1>2, <2>1, HeadTailProperties
  <2> QED
    BY <1>1, <1>2, <2>1, <2>2, HeadTailProperties DEF Message
<1>5. /\ channel'[n] = Tail(channel[n]) /\ \A m \in Node : m # n => channel'[m] = channel[m]
      /\ cache'[n] = IF IsForeign(n, msg) THEN Invalidate(cache[n], msg.key) ELSE cache[n]
      /\ \A m \in Node : m # n => cache'[m] = cache[m]
  BY <1>2, <1>3 DEF TypeOK
<1>6. SUFFICES ASSUME NEW m \in Node, NEW k \in Key, Settled(m, k)',
                      NEW e \in CopiesOf(cache'[m], k)
               PROVE  Settled(m, k) /\ e \in CopiesOf(cache[m], k)
  BY <1>2, CopiesRest DEF Same
<1>7. CASE m # n
  BY <1>2, <1>5, <1>6, <1>7, SettledBefore
<1>8. CASE m = n
  <2>1. e \in CopiesOf(cache[n], k) /\ ~(msg.key = k /\ IsForeign(n, msg))
    <3>1. CASE IsForeign(n, msg)
      <4>1. PICK c : c = Invalidate(cache[n], msg.key)
        OBVIOUS
      <4>2. CopiesOf(c, msg.key) = {} /\ CopiesOf(c, k) \subseteq CopiesOf(cache[n], k)
        BY <1>4, <4>1, CachesOrdered, Invalidated
      <4>3. e \in CopiesOf(c, k)
        BY <1>5, <1>6, <1>8, <3>1, <4>1
      <4> QED
        BY <4>2, <4>3
    <3>2. CASE ~IsForeign(n, msg)
      BY <1>5, <1>6, <1>8, <3>2
    <3> QED
      BY <3>1, <3>2
  <2>2. ~Announced(n, k)
    <3>1. ASSUME NEW i \in 1 .. Len(channel[n]), channel[n][i].key = k, channel[n][i].from # n
          PROVE  FALSE
      <4>1. i # 1
        BY <1>4, <2>1, <3>1 DEF IsForeign
      <4>2. i - 1 \in 1 .. Len(channel'[n]) /\ channel'[n][i - 1] = channel[n][i]
        BY <1>4, <1>5, <4>1
      <4> QED
        BY <1>6, <1>8, <3>1, <4>2 DEF Settled, Announced
    <3> QED
      BY <3>1 DEF Announced
  <2> QED
    BY <1>2, <1>6, <1>8, <2>1, <2>2 DEF Settled, BeingPut
<1> QED
  BY <1>7, <1>8
\* A key expires: its copies had an expiry, since they fitted.
LEMMA ExpireCopies ==
  ASSUME TypeOK, CopiesFit, NEW k \in Key, Expire(k)
  PROVE  CopiesFit'
PROOF
<1>1. /\ redis[k].ttl /\ redis' = [redis EXCEPT ![k] = Absent]
      /\ missed \subseteq missed' /\ UNCHANGED <<cache, channel, op>>
  BY DEF Expire
<1>2. redis'[k] = Absent /\ redis[k] # Absent /\ \A x \in Key : x # k => redis'[x] = redis[x]
  BY <1>1 DEF TypeOK, Absent
<1>3. SUFFICES ASSUME NEW m \in Node, NEW x \in Key, Settled(m, x)',
                      NEW e \in CopiesOf(cache'[m], x)
               PROVE  CopyFits(e, x)'
  BY DEF CopiesFit
<1>4. CopyFits(e, x)
  BY <1>1, <1>3, SettledBefore DEF CopiesFit
<1>5. CASE x = k
  <2>1. e.expires # "never"
    BY <1>1, <1>2, <1>4, <1>5 DEF CopyFits, Fits
  <2> QED
    BY <1>2, <1>5, <2>1 DEF CopyFits, Fits
<1>6. CASE x # k
  BY <1>2, <1>4, <1>6 DEF CopyFits, Fits
<1> QED
  BY <1>5, <1>6

\* Requests that end have told the other nodes, or the nodes have missed the
\* change.
LEMMA EndedUntold ==
  ASSUME NEW n \in Node, NEW k \in Key, <<n, k>> \notin missed', NEW P \in SUBSET Proc,
         missed' = missed \cup (Node \X Untold(P)), \A p \in Proc \ P : op'[p] = op[p],
         ~BeingPut(n, k)'
  PROVE  ~BeingPut(n, k) /\ <<n, k>> \notin missed
PROOF
<1>1. <<n, k>> \notin missed /\ k \notin Untold(P)
  OBVIOUS
<1>2. ASSUME NEW p \in Proc, op[p].at \in {"store", "publish"}, op[p].key = k
      PROVE  op'[p] = op[p]
  <2>1. p \notin P
    BY <1>1, <1>2 DEF Untold
  <2> QED
    BY <2>1
<1> QED
  BY <1>1, <1>2 DEF BeingPut

\* A request fails.
LEMMA OpFailsFits ==
  ASSUME TypeOK, CopiesFit, NEW p \in Proc, OpFails(p)
  PROVE  CopiesFit'
PROOF
<1>1. /\ op' = [op EXCEPT ![p] = IdleOp] /\ missed' = missed \cup (Node \X Untold({p}))
      /\ UNCHANGED <<redis, cache, channel>>
  BY DEF OpFails
<1>2. {p} \in SUBSET Proc /\ \A q \in Proc \ {p} : op'[q] = op[q]
  BY <1>1 DEF TypeOK
<1>3. SUFFICES ASSUME NEW m \in Node, NEW k \in Key, Settled(m, k)' PROVE Settled(m, k)
  BY <1>1, CopiesRest DEF Same
<1>4. ~BeingPut(m, k) /\ <<m, k>> \notin missed
  BY <1>1, <1>2, <1>3, EndedUntold DEF Settled
<1> QED
  BY <1>1, <1>3, <1>4 DEF Settled, Announced

\* A listener stops, and the messages that waited for it are lost.
LEMMA ListenerStopsFits ==
  ASSUME TypeOK, CopiesFit, NEW n \in Node, ListenerStops(n)
  PROVE  CopiesFit'
PROOF
<1>1. /\ channel' = [channel EXCEPT ![n] = << >>]
      /\ missed' = missed \cup {<<n, msg.key>> : msg \in ToSet(channel[n])}
      /\ UNCHANGED <<redis, cache, op>>
  BY DEF ListenerStops
<1>2. \A m \in Node : m # n => channel'[m] = channel[m]
  BY <1>1 DEF TypeOK
<1>3. SUFFICES ASSUME NEW m \in Node, NEW k \in Key, Settled(m, k)' PROVE Settled(m, k)
  BY <1>1, CopiesRest DEF Same
<1>4. CASE m # n
  BY <1>1, <1>2, <1>3, <1>4, SettledBefore
<1>5. CASE m = n
  <2>1. DOMAIN channel[n] = 1 .. Len(channel[n])
    BY TypedNow, LenProperties
  <2>2. \A i \in 1 .. Len(channel[n]) : channel[n][i].key # k
    BY <1>1, <1>3, <1>5, <2>1 DEF Settled, ToSet
  <2> QED
    BY <1>1, <1>3, <1>5, <2>2 DEF Settled, Announced, BeingPut
<1> QED
  BY <1>4, <1>5

\* A node restarts with an empty cache, and the changes it did not announce are
\* missed.
LEMMA RestartFits ==
  ASSUME TypeOK, CopiesFit, NEW n \in Node, Restart(n)
  PROVE  CopiesFit'
PROOF
<1>1. PICK mine : mine = {p \in Proc : op[p] # IdleOp /\ op[p].node = n}
  OBVIOUS
<1>2. /\ cache' = [cache EXCEPT ![n] = << >>] /\ channel' = [channel EXCEPT ![n] = << >>]
      /\ op' = [p \in Proc |-> IF p \in mine THEN IdleOp ELSE op[p]]
      /\ missed' = missed \cup (Node \X Untold(mine)) /\ UNCHANGED redis
  BY <1>1 DEF Restart
<1>3. /\ cache'[n] = << >>
      /\ \A m \in Node : m # n => cache'[m] = cache[m] /\ channel'[m] = channel[m]
  BY <1>2 DEF TypeOK
<1>4. mine \in SUBSET Proc /\ \A p \in Proc \ mine : op'[p] = op[p]
  BY <1>1, <1>2
<1>5. SUFFICES ASSUME NEW m \in Node, NEW k \in Key, Settled(m, k)',
                      NEW e \in CopiesOf(cache'[m], k)
               PROVE  Settled(m, k) /\ e \in CopiesOf(cache[m], k)
  BY <1>2, CopiesRest DEF Same
<1>6. m # n
  <2>1. CopiesOf(<< >>, k) = {}
    BY DEF CopiesOf, ToSet
  <2> QED
    BY <1>3, <1>5, <2>1
<1>7. ~BeingPut(m, k) /\ <<m, k>> \notin missed
  BY <1>2, <1>4, <1>5, EndedUntold DEF Settled
<1> QED
  BY <1>3, <1>5, <1>6, <1>7 DEF Settled, Announced

\* Every step keeps what is known of the copies.
LEMMA CopySteps ==
  ASSUME TypeOK, Valued, ReadsFit, OpsFit, CopiesFit, Next
  PROVE  CopiesFit'
PROOF
<1>1. ASSUME NEW p \in Proc, ReadValue(p) PROVE CopiesFit'
  <2>1. /\ op[p].at = "get" /\ \A q \in Proc : q # p => op'[q] = op[q]
        /\ UNCHANGED <<redis, cache, channel, missed>>
    BY <1>1 DEF ReadValue, TypeOK
  <2> QED
    BY <2>1, ReadsLeaveCopies
<1>2. ASSUME NEW p \in Proc, ReadTtl(p) PROVE CopiesFit'
  <2>1. /\ op[p].at = "pttl" /\ \A q \in Proc : q # p => op'[q] = op[q]
        /\ UNCHANGED <<redis, cache, channel, missed>>
    BY <1>2 DEF ReadTtl, TypeOK
  <2> QED
    BY <2>1, ReadsLeaveCopies
<1>3. ASSUME NEW n \in Node, Subscribe(n) PROVE CopiesFit'
  BY <1>3, ReadsLeaveCopies DEF Subscribe
<1> QED
  BY <1>1, <1>2, <1>3, GetHitFits, GetMissFits, FillFits, FallDueFits, PutSetCopies,
     PutStoreFits, PutPublishFits, DeliverFits, ExpireCopies, OpFailsFits, ListenerStopsFits,
     RestartFits DEF Next, Step

-----------------------------------------------------------------------------
(***************************************************************************)
(* The invariant, and what it says.                                        *)
(***************************************************************************)

\* The inductive invariant, in every state.
LEMMA Invariance == Spec => []CacheInv
PROOF
<1>1. Init => CacheInv
  <2>1. SUFFICES ASSUME Init PROVE CacheInv
    OBVIOUS
  <2>2. TypeOK /\ Valued
    BY <2>1, TypedFirst
  <2>3. ReadsFit /\ OpsFit
    BY <2>1 DEF Init, ReadsFit, OpsFit, IdleOp
  <2>4. CopiesFit
    BY <2>1 DEF Init, CopiesFit, CopiesOf, ToSet
  <2> QED
    BY <2>2, <2>3, <2>4 DEF CacheInv
<1>2. CacheInv /\ [Next]_vars => CacheInv'
  <2>1. CASE Next
    BY <2>1, TypeSteps, RequestSteps, CopySteps DEF CacheInv
  <2>2. CASE UNCHANGED vars
    <3>1. TypeOK /\ Valued /\ UNCHANGED vars => TypeOK' /\ Valued'
      BY DEF vars, TypeOK, Valued
    <3>2. ReadsFit /\ OpsFit /\ UNCHANGED vars => ReadsFit' /\ OpsFit'
      BY RequestsRest DEF vars
    <3>3. TypeOK /\ CopiesFit /\ UNCHANGED vars => CopiesFit'
      BY ReadsLeaveCopies DEF vars
    <3> QED
      BY <2>2, <3>1, <3>2, <3>3 DEF CacheInv
  <2> QED
    BY <2>1, <2>2
<1> QED
  BY <1>1, <1>2, PTL DEF Spec

\* The cache keeps its types, its capacity and one copy per key, for any number
\* of nodes, keys and requests.
THEOREM TypeCorrect == Spec => []TypeOK
BY Invariance, PTL DEF CacheInv

\* Whatever the cache holds that Redis does not is on its way out, or the node
\* has missed a change for a reason that the history variable records.
THEOREM StaleIsAnnounced == Spec => []CopiesCurrent
PROOF
<1>1. CacheInv => CopiesCurrent
  BY DEF CacheInv, CopiesCurrent, CopiesFit, CopyFits, Fits, Stale
<1> QED
  BY <1>1, Invariance, PTL

\* A copy expires if its key does, unless its node has missed a change.
THEOREM ExpiryIsKept == Spec => []CopiesExpire
PROOF
<1>1. CacheInv => CopiesExpire
  <2>1. SUFFICES ASSUME CacheInv, NEW n \in Node, NEW k \in Key, Settled(n, k),
                        NEW e \in CopiesOf(cache[n], k)
                 PROVE  IF redis[k] = Absent THEN e.expires # "never"
                                             ELSE e.expires = "never" <=> ~redis[k].ttl
    BY DEF CopiesExpire
  <2>2. CopyFits(e, k) /\ redis[k].ttl \in BOOLEAN
    BY <2>1 DEF CacheInv, CopiesFit, TypeOK
  <2> QED
    BY <2>2 DEF CopyFits, Fits
<1> QED
  BY <1>1, Invariance, PTL
=============================================================================
