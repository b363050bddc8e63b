---------------------------- MODULE ShardLemmas ----------------------------
(***************************************************************************)
(* What the operators of Shard return, for every set K of keys, every set  *)
(* E of entries and every capacity.                                        *)
(***************************************************************************)
EXTENDS Shard, SequenceTheorems, FiniteSetTheorems, TLAPS

(* Removing the first occurrence of the i-th key of a queue without        *)
(* duplicates closes the gap at i.                                         *)
LEMMA RemoveFirstPresent ==
  ASSUME NEW S, NEW q \in Seq(S), IsInjective(q), NEW i \in 1 .. Len(q)
  PROVE  /\ RemoveFirst(q, q[i]) \in Seq(S)
         /\ Len(RemoveFirst(q, q[i])) = Len(q) - 1
         /\ \A j \in 1 .. Len(q) - 1 :
              RemoveFirst(q, q[i])[j] = IF j < i THEN q[j] ELSE q[j + 1]
<1> DEFINE I == {j \in 1 .. Len(q) : q[j] = q[i]}
<1>1. I = {i}
  BY LenProperties DEF IsInjective
<1>2. SelectInSeq(q, LAMBDA v : v = q[i]) = i
  BY <1>1 DEF SelectInSeq, Min
<1>3. RemoveFirst(q, q[i]) = RemoveAt(q, i)
  BY <1>2 DEF RemoveFirst
<1> DEFINE a == SubSeq(q, 1, i - 1)
           b == SubSeq(q, i + 1, Len(q))
<1>4. /\ a \in Seq(S)
      /\ Len(a) = i - 1
      /\ \A j \in 1 .. i - 1 : a[j] = q[j]
  BY LenProperties
<1>5. /\ b \in Seq(S)
      /\ Len(b) = Len(q) - i
      /\ \A j \in 1 .. Len(q) - i : b[j] = q[i + j]
  BY LenProperties
<1>6. RemoveFirst(q, q[i]) = a \o b
  BY <1>3 DEF RemoveAt
<1>7. /\ a \o b \in Seq(S)
      /\ Len(a \o b) = Len(q) - 1
      /\ \A j \in 1 .. Len(q) - 1 :
           (a \o b)[j] = IF j < i THEN q[j] ELSE q[j + 1]
  <2> HIDE DEF a, b
  <2>1. Len(q) \in Nat
    BY LenProperties
  <2>2. /\ a \o b \in Seq(S)
        /\ Len(a \o b) = Len(a) + Len(b)
        /\ \A j \in 1 .. Len(a) + Len(b) :
             (a \o b)[j] = IF j <= Len(a) THEN a[j] ELSE b[j - Len(a)]
    BY <1>4, <1>5, ConcatProperties
  <2>3. ASSUME NEW j \in 1 .. Len(q) - 1
        PROVE  (a \o b)[j] = IF j < i THEN q[j] ELSE q[j + 1]
    <3>1. CASE j < i
      BY <3>1, <2>1, <2>2, <1>4, <1>5
    <3>2. CASE ~ (j < i)
      <4>1. j - Len(a) \in 1 .. Len(q) - i /\ i + (j - Len(a)) = j + 1
        BY <3>2, <2>1, <1>4
      <4>2. (a \o b)[j] = b[j - Len(a)]
        BY <3>2, <2>1, <2>2, <1>4, <1>5
      <4>3. QED
        BY <4>1, <4>2, <3>2, <1>5
    <3>3. QED
      BY <3>1, <3>2
  <2>4. QED
    BY <2>1, <2>2, <2>3, <1>4, <1>5
<1>8. QED
  BY <1>6, <1>7

LEMMA RemoveFirstAbsent ==
  ASSUME NEW S, NEW q \in Seq(S), NEW k, k \notin Range(q)
  PROVE  RemoveFirst(q, k) = q
  BY LenProperties DEF RemoveFirst, Range

(* Promoting a key that is in the queue rotates it to the end. *)
LEMMA PromotePresent ==
  ASSUME NEW S, NEW q \in Seq(S), IsInjective(q), NEW i \in 1 .. Len(q)
  PROVE  /\ Promote(q, q[i]) \in Seq(S)
         /\ Len(Promote(q, q[i])) = Len(q)
         /\ \A j \in 1 .. i - 1 : Promote(q, q[i])[j] = q[j]
         /\ \A j \in i .. Len(q) - 1 : Promote(q, q[i])[j] = q[j + 1]
         /\ Promote(q, q[i])[Len(q)] = q[i]
<1> DEFINE r == RemoveFirst(q, q[i])
<1>1. /\ r \in Seq(S)
      /\ Len(r) = Len(q) - 1
      /\ \A j \in 1 .. Len(q) - 1 : r[j] = IF j < i THEN q[j] ELSE q[j + 1]
  BY RemoveFirstPresent
<1>2. Len(q) \in Nat /\ q[i] \in S
  BY LenProperties
<1> HIDE DEF r
<1>3. /\ Append(r, q[i]) \in Seq(S)
      /\ Len(Append(r, q[i])) = Len(r) + 1
      /\ \A j \in 1 .. Len(r) : Append(r, q[i])[j] = r[j]
      /\ Append(r, q[i])[Len(r) + 1] = q[i]
  BY <1>1, <1>2, AppendProperties
<1>4. Promote(q, q[i]) = Append(r, q[i])
  BY DEF Promote, r
<1>5. QED
  BY <1>1, <1>2, <1>3, <1>4

(* Promoting a key that is not in the queue appends it. *)
LEMMA PromoteAbsent ==
  ASSUME NEW S, NEW q \in Seq(S), NEW k \in S, k \notin Range(q)
  PROVE  Promote(q, k) = Append(q, k)
  BY RemoveFirstAbsent DEF Promote

(* Appending a new key keeps a queue free of duplicates. *)
LEMMA AppendNew ==
  ASSUME NEW S, NEW q \in Seq(S), IsInjective(q), NEW k \in S, k \notin Range(q)
  PROVE  /\ Append(q, k) \in Seq(S)
         /\ IsInjective(Append(q, k))
         /\ Range(Append(q, k)) = Range(q) \cup {k}
<1>1. /\ Append(q, k) \in Seq(S)
      /\ Len(Append(q, k)) = Len(q) + 1
      /\ \A j \in 1 .. Len(q) : Append(q, k)[j] = q[j]
      /\ Append(q, k)[Len(q) + 1] = k
  BY AppendProperties
<1>2. /\ Len(q) \in Nat
      /\ DOMAIN q = 1 .. Len(q)
      /\ DOMAIN Append(q, k) = 1 .. Len(q) + 1
  BY <1>1, LenProperties
<1>3. IsInjective(Append(q, k))
  BY <1>1, <1>2 DEF IsInjective, Range
<1>4. Range(Append(q, k)) = Range(q) \cup {k}
  BY <1>1, <1>2 DEF Range
<1>5. QED
  BY <1>1, <1>3, <1>4

(* Where each position of a rotation takes its element from. *)
LEMMA RotationIndex ==
  ASSUME NEW n \in Nat, NEW i \in 1 .. n
  PROVE  \E f \in [1 .. n -> 1 .. n] :
           /\ \A j \in 1 .. n : f[j] = IF j = n THEN i ELSE IF j < i THEN j ELSE j + 1
           /\ \A j, m \in 1 .. n : f[j] = f[m] => j = m
           /\ \A m \in 1 .. n : \E j \in 1 .. n : f[j] = m
<1> DEFINE g == [j \in 1 .. n |-> IF j = n THEN i ELSE IF j < i THEN j ELSE j + 1]
<1>1. g \in [1 .. n -> 1 .. n]
  OBVIOUS
<1>2. \A j \in 1 .. n : g[j] = IF j = n THEN i ELSE IF j < i THEN j ELSE j + 1
  OBVIOUS
<1> HIDE DEF g
<1>3. \A j, m \in 1 .. n : g[j] = g[m] => j = m
  BY <1>2
<1>4. ASSUME NEW m \in 1 .. n
      PROVE  \E j \in 1 .. n : g[j] = m
  <2>1. CASE m = i
    <3>1. g[n] = m
      BY <2>1, <1>2
    <3>2. QED
      BY <3>1
  <2>2. CASE m < i
    <3>1. g[m] = m
      BY <2>2, <1>2
    <3>2. QED
      BY <3>1
  <2>3. CASE m > i
    <3>1. m - 1 \in 1 .. n /\ g[m - 1] = m
      BY <2>3, <1>2
    <3>2. QED
      BY <3>1
  <2>4. QED
    BY <2>1, <2>2, <2>3
<1>5. QED
  BY <1>1, <1>2, <1>3, <1>4

(* A rotation has the same keys, and no duplicates if there were none. *)
LEMMA RotationQueue ==
  ASSUME NEW S, NEW q \in Seq(S), NEW p \in Seq(S), NEW i \in 1 .. Len(q),
         IsInjective(q),
         Len(p) = Len(q),
         \A j \in 1 .. i - 1 : p[j] = q[j],
         \A j \in i .. Len(q) - 1 : p[j] = q[j + 1],
         p[Len(q)] = q[i]
  PROVE  IsInjective(p) /\ Range(p) = Range(q)
<1>1. PICK n \in Nat : n = Len(q)
  BY LenProperties
<1>2. DOMAIN q = 1 .. n /\ DOMAIN p = 1 .. n /\ i \in 1 .. n
  BY <1>1, LenProperties
<1>3. PICK f \in [1 .. n -> 1 .. n] :
        /\ \A j \in 1 .. n : f[j] = IF j = n THEN i ELSE IF j < i THEN j ELSE j + 1
        /\ \A j, m \in 1 .. n : f[j] = f[m] => j = m
        /\ \A m \in 1 .. n : \E j \in 1 .. n : f[j] = m
  BY <1>2, RotationIndex
<1>4. ASSUME NEW j \in 1 .. n
      PROVE  p[j] = q[f[j]]
  <2>1. CASE j = n
    BY <2>1, <1>1, <1>3
  <2>2. CASE j < i /\ j # n
    BY <2>2, <1>1, <1>3
  <2>3. CASE j >= i /\ j # n
    <3>1. j \in i .. Len(q) - 1
      BY <2>3, <1>1
    <3>2. f[j] = j + 1
      BY <2>3, <1>2, <1>3
    <3>3. QED
      BY <3>1, <3>2
  <2>4. QED
    BY <2>1, <2>2, <2>3, <1>1
<1>5. IsInjective(p)
  <2>1. SUFFICES ASSUME NEW a \in 1 .. n, NEW b \in 1 .. n, p[a] = p[b]
                 PROVE  a = b
    BY <1>2 DEF IsInjective
  <2>2. q[f[a]] = q[f[b]] /\ f[a] \in 1 .. n /\ f[b] \in 1 .. n
    BY <2>1, <1>4
  <2>3. f[a] = f[b]
    BY <2>2, <1>2 DEF IsInjective
  <2>4. QED
    BY <2>3, <1>3
<1>6. Range(p) \subseteq Range(q)
  BY <1>2, <1>3, <1>4 DEF Range
<1>7. ASSUME NEW m \in 1 .. n
      PROVE  q[m] \in Range(p)
  <2>1. PICK j \in 1 .. n : f[j] = m
    BY <1>3
  <2>2. QED
    BY <2>1, <1>2, <1>4 DEF Range
<1>8. Range(q) \subseteq Range(p)
  BY <1>2, <1>7 DEF Range
<1>9. QED
  BY <1>5, <1>6, <1>8

(* Promotion keeps a queue free of duplicates and adds at most the key. *)
LEMMA PromoteQueue ==
  ASSUME NEW S, NEW q \in Seq(S), IsInjective(q), NEW k \in S
  PROVE  /\ Promote(q, k) \in Seq(S)
         /\ IsInjective(Promote(q, k))
         /\ Range(Promote(q, k)) = Range(q) \cup {k}
<1>1. CASE k \in Range(q)
  <2>1. PICK i \in 1 .. Len(q) : q[i] = k
    BY <1>1, LenProperties DEF Range
  <2>2. /\ Promote(q, q[i]) \in Seq(S)
        /\ IsInjective(Promote(q, q[i]))
        /\ Range(Promote(q, q[i])) = Range(q)
    <3> DEFINE p == Promote(q, q[i])
    <3>1. /\ p \in Seq(S)
          /\ Len(p) = Len(q)
          /\ \A j \in 1 .. i - 1 : p[j] = q[j]
          /\ \A j \in i .. Len(q) - 1 : p[j] = q[j + 1]
          /\ p[Len(q)] = q[i]
      BY PromotePresent
    <3> HIDE DEF p
    <3>2. IsInjective(p) /\ Range(p) = Range(q)
      BY <3>1, RotationQueue
    <3>3. QED
      BY <3>1, <3>2 DEF p
  <2>3. QED
    BY <1>1, <2>1, <2>2
<1>2. CASE k \notin Range(q)
  <2>1. Promote(q, k) = Append(q, k)
    BY <1>2, PromoteAbsent
  <2>2. QED
    BY <1>2, <2>1, AppendNew
<1>3. QED
  BY <1>1, <1>2

(* A queue without duplicates names as many keys as it is long. *)
LEMMA QueueCardinality ==
  ASSUME NEW S, NEW q \in Seq(S), IsInjective(q)
  PROVE  IsFiniteSet(Range(q)) /\ Cardinality(Range(q)) = Len(q)
<1>1. /\ Len(q) \in Nat
      /\ DOMAIN q = 1 .. Len(q)
      /\ q \in [1 .. Len(q) -> S]
  BY LenProperties
<1>2. q \in Bijection(1 .. Len(q), Range(q))
  BY <1>1 DEF Bijection, Injection, Surjection, Range, IsInjective
<1>3. ExistsBijection(1 .. Len(q), Range(q))
  BY <1>2 DEF ExistsBijection
<1>4. IsFiniteSet(1 .. Len(q)) /\ Cardinality(1 .. Len(q)) = Len(q)
  BY <1>1, FS_Interval
<1>5. QED
  BY <1>3, <1>4, FS_Bijection

-----------------------------------------------------------------------------

(* The shard before an insert of a new key: map and queue agree, and the   *)
(* queue is no longer than the capacity.                                   *)
Sound(s, K, E) ==
  /\ s \in [map : PartialMap(K, E), lru : Seq(K), cap : Nat \ {0}]
  /\ Range(s.lru) = DOMAIN s.map
  /\ IsInjective(s.lru)
  /\ Len(s.lru) <= s.cap

(* The eviction loop pops nothing while there is room, and exactly one key *)
(* of a full shard.                                                        *)
LEMMA EvictCountValue ==
  ASSUME NEW K, NEW E, NEW s, Sound(s, K, E)
  PROVE  EvictCount(s) = IF Len(s.lru) < s.cap THEN 0 ELSE 1
<1> DEFINE n == Len(s.lru)
<1>1. /\ s.lru \in Seq(K)
      /\ n \in Nat
      /\ s.cap \in Nat /\ s.cap >= 1
      /\ n <= s.cap
      /\ DOMAIN s.lru = 1 .. n
  BY LenProperties DEF Sound
<1>2. IsFiniteSet(DOMAIN s.map) /\ Cardinality(DOMAIN s.map) = n
  BY <1>1, QueueCardinality DEF Sound
<1>3. DOMAIN s.map \ Range(SubSeq(s.lru, 1, 0)) = DOMAIN s.map
  <2>1. SubSeq(s.lru, 1, 0) = << >>
    BY SubSeqEmpty
  <2>2. Range(<< >>) = {}
    BY DEF Range
  <2>3. QED
    BY <2>1, <2>2
<1>4. CASE n < s.cap
  <2>1. StopsAfter(s, 0)
    BY <1>2, <1>3, <1>4 DEF StopsAfter
  <2>2. \A m \in 0 .. n : (\A k \in 0 .. m - 1 : ~ StopsAfter(s, k)) => m = 0
    BY <2>1, <1>1
  <2>3. EvictCount(s) = 0
    <3>1. 0 \in 0 .. n /\ \A m \in 0 .. 0 - 1 : ~ StopsAfter(s, m)
      BY <1>1
    <3>2. QED
      BY <2>1, <2>2, <3>1 DEF EvictCount
  <2>4. QED
    BY <2>3, <1>4
<1>5. CASE n = s.cap
  <2>1. ~ StopsAfter(s, 0)
    <3>1. Cardinality(DOMAIN s.map \ Range(SubSeq(s.lru, 1, 0))) = n
      BY <1>2, <1>3
    <3>2. 0 # n /\ ~ (n < s.cap)
      BY <1>1, <1>5
    <3> HIDE DEF n
    <3>3. QED
      BY <3>1, <3>2, Zenon DEF StopsAfter, n
  <2>2. StopsAfter(s, 1)
    <3>1. s.lru[1] \in DOMAIN s.map
      BY <1>1, <1>5 DEF Sound, Range
    <3>2. Range(SubSeq(s.lru, 1, 1)) = {s.lru[1]}
      <4>1. \A j \in 1 .. 1 : s.lru[j] \in K
        BY <1>1, <1>5, ElementOfSeq
      <4>2. /\ SubSeq(s.lru, 1, 1) \in Seq(K)
            /\ Len(SubSeq(s.lru, 1, 1)) = 1
            /\ SubSeq(s.lru, 1, 1)[1] = s.lru[1]
        BY <4>1, SubSeqProperties
      <4>3. DOMAIN SubSeq(s.lru, 1, 1) = 1 .. 1
        BY <4>2, LenProperties
      <4>4. QED
        BY <4>2, <4>3 DEF Range
    <3>3. Cardinality(DOMAIN s.map \ {s.lru[1]}) = n - 1
      BY <3>1, <1>2, FS_RemoveElement
    <3>4. Cardinality(DOMAIN s.map \ Range(SubSeq(s.lru, 1, 1))) < s.cap
      <4>1. Cardinality(DOMAIN s.map \ Range(SubSeq(s.lru, 1, 1))) = n - 1
        BY <3>2, <3>3, Zenon
      <4>2. n - 1 < s.cap
        BY <1>1, <1>5
      <4>3. QED
        BY <4>1, <4>2, Zenon
    <3>5. QED
      BY <3>4, Zenon DEF StopsAfter
  <2>3. \A m \in 0 .. n : /\ StopsAfter(s, m)
                          /\ \A k \in 0 .. m - 1 : ~ StopsAfter(s, k)
                          => m = 1
    BY <2>1, <2>2, <1>1
  <2>4. 1 \in 0 .. n /\ \A m \in 0 .. 1 - 1 : ~ StopsAfter(s, m)
    BY <2>1, <1>1, <1>5
  <2>5. EvictCount(s) = 1
    BY <2>2, <2>3, <2>4 DEF EvictCount
  <2>6. QED
    BY <2>5, <1>5, <1>1
<1>6. QED
  BY <1>1, <1>4, <1>5

LEMMA PartialMapIntro ==
  ASSUME NEW K, NEW E, NEW D \in SUBSET K, NEW m \in [D -> E]
  PROVE  m \in PartialMap(K, E)
  BY DEF PartialMap

LEMMA PartialMapElim ==
  ASSUME NEW K, NEW E, NEW m \in PartialMap(K, E)
  PROVE  DOMAIN m \subseteq K /\ m \in [DOMAIN m -> E]
  BY DEF PartialMap

LEMMA PutType ==
  ASSUME NEW K, NEW E, NEW m \in PartialMap(K, E), NEW k \in K, NEW e \in E
  PROVE  Put(m, k, e) \in PartialMap(K, E)
<1>1. DOMAIN m \subseteq K /\ m \in [DOMAIN m -> E]
  BY PartialMapElim
<1>2. Put(m, k, e) \in [DOMAIN m \cup {k} -> E]
  BY <1>1 DEF Put
<1>3. DOMAIN m \cup {k} \in SUBSET K
  BY <1>1
<1>4. QED
  BY <1>2, <1>3, PartialMapIntro

(* The eviction loop leaves a shard with room alone. *)
LEMMA EvictRoom ==
  ASSUME NEW K, NEW E, NEW s, Sound(s, K, E), Len(s.lru) < s.cap
  PROVE  Evict(s) = s
<1>1. /\ s \in [map : PartialMap(K, E), lru : Seq(K), cap : Nat \ {0}]
      /\ s.lru \in Seq(K)
      /\ s.map \in PartialMap(K, E)
  BY DEF Sound
<1>2. s.map \in [DOMAIN s.map -> E]
  BY <1>1, PartialMapElim
<1>3. EvictCount(s) = 0
  BY EvictCountValue
<1>4. Range(SubSeq(s.lru, 1, 0)) = {}
  <2>1. SubSeq(s.lru, 1, 0) = << >>
    BY SubSeqEmpty
  <2>2. Range(<< >>) = {}
    BY DEF Range
  <2>3. QED
    BY <2>1, <2>2
<1>5. Restrict(s.map, DOMAIN s.map \ Range(SubSeq(s.lru, 1, 0))) = s.map
  BY <1>4, <1>2 DEF Restrict
<1>6. SubSeq(s.lru, 0 + 1, Len(s.lru)) = s.lru
  BY <1>1, SubSeqFull
<1>7. QED
  BY <1>1, <1>3, <1>5, <1>6 DEF Evict

(* From a full shard it removes the first key of the queue. *)
LEMMA EvictFull ==
  ASSUME NEW K, NEW E, NEW s, Sound(s, K, E), Len(s.lru) = s.cap
  PROVE  /\ Evict(s) \in [map : PartialMap(K, E), lru : Seq(K), cap : Nat \ {0}]
         /\ Evict(s).cap = s.cap
         /\ Len(Evict(s).lru) = s.cap - 1
         /\ \A j \in 1 .. s.cap - 1 : Evict(s).lru[j] = s.lru[j + 1]
         /\ DOMAIN Evict(s).map = DOMAIN s.map \ {s.lru[1]}
         /\ \A x \in DOMAIN s.map \ {s.lru[1]} : Evict(s).map[x] = s.map[x]
<1>1. PICK n \in Nat \ {0} : n = s.cap /\ Len(s.lru) = n
  BY DEF Sound
<1>2. /\ s \in [map : PartialMap(K, E), lru : Seq(K), cap : Nat \ {0}]
      /\ s.lru \in Seq(K)
      /\ DOMAIN s.lru = 1 .. n
      /\ s.map \in PartialMap(K, E)
  BY <1>1, LenProperties DEF Sound
<1>3. DOMAIN s.map \subseteq K /\ s.map \in [DOMAIN s.map -> E]
  BY <1>2, PartialMapElim
<1>4. EvictCount(s) = 1
  BY <1>1, EvictCountValue
<1>5. Range(SubSeq(s.lru, 1, 1)) = {s.lru[1]}
  <2>1. \A j \in 1 .. 1 : s.lru[j] \in K
    BY <1>1, <1>2, ElementOfSeq
  <2>2. /\ SubSeq(s.lru, 1, 1) \in Seq(K)
        /\ Len(SubSeq(s.lru, 1, 1)) = 1
        /\ SubSeq(s.lru, 1, 1)[1] = s.lru[1]
    BY <2>1, SubSeqProperties
  <2>3. DOMAIN SubSeq(s.lru, 1, 1) = 1 .. 1
    BY <2>2, LenProperties
  <2>4. QED
    BY <2>2, <2>3 DEF Range
<1> DEFINE q == SubSeq(s.lru, 2, n)
           m == Restrict(s.map, DOMAIN s.map \ {s.lru[1]})
<1>6. /\ q \in Seq(K)
      /\ Len(q) = n - 1
      /\ \A j \in 1 .. n - 1 : q[j] = s.lru[j + 1]
  <2>1. \A j \in 2 .. n : s.lru[j] \in K
    BY <1>1, <1>2, ElementOfSeq
  <2>2. /\ q \in Seq(K)
        /\ Len(q) = IF 2 <= n THEN n - 2 + 1 ELSE 0
        /\ \A j \in 1 .. n - 2 + 1 : q[j] = s.lru[2 + j - 1]
    BY <2>1, SubSeqProperties
  <2> HIDE DEF q
  <2>3. ASSUME NEW j \in 1 .. n - 1
        PROVE  q[j] = s.lru[j + 1]
    <3>1. j \in 1 .. n - 2 + 1 /\ 2 + j - 1 = j + 1
      OBVIOUS
    <3>2. QED
      BY <3>1, <2>2
  <2>4. QED
    BY <2>2, <2>3
<1>7. /\ m \in [DOMAIN s.map \ {s.lru[1]} -> E]
      /\ \A x \in DOMAIN s.map \ {s.lru[1]} : m[x] = s.map[x]
  BY <1>3 DEF Restrict
<1>8. m \in PartialMap(K, E)
  BY <1>3, <1>7, PartialMapIntro
<1>9. Evict(s) = [s EXCEPT !.map = m, !.lru = q]
  <2>1. 1 + 1 = 2
    OBVIOUS
  <2>2. QED
    BY <2>1, <1>1, <1>4, <1>5, Zenon DEF Evict
<1> HIDE DEF q, m
<1>10. /\ Evict(s) \in [map : PartialMap(K, E), lru : Seq(K), cap : Nat \ {0}]
       /\ Evict(s).cap = s.cap
       /\ Evict(s).map = m
       /\ Evict(s).lru = q
  BY <1>2, <1>6, <1>8, <1>9
<1>11. QED
  BY <1>1, <1>6, <1>7, <1>10

(* Inserting a new key into a shard with room. *)
LEMMA InsertRoom ==
  ASSUME NEW K, NEW E, NEW s, Sound(s, K, E), Len(s.lru) < s.cap,
         NEW k \in K, NEW e \in E, k \notin DOMAIN s.map
  PROVE  /\ ShardInsert(s, k, e)
              \in [map : PartialMap(K, E), lru : Seq(K), cap : Nat \ {0}]
         /\ ShardInsert(s, k, e).cap = s.cap
         /\ ShardInsert(s, k, e).lru = Append(s.lru, k)
         /\ ShardInsert(s, k, e).map = Put(s.map, k, e)
<1>1. ShardInsert(s, k, e) = [s EXCEPT !.map = Put(s.map, k, e), !.lru = Append(s.lru, k)]
  BY EvictRoom DEF ShardInsert
<1>2. s \in [map : PartialMap(K, E), lru : Seq(K), cap : Nat \ {0}]
  BY DEF Sound
<1>3. Put(s.map, k, e) \in PartialMap(K, E) /\ Append(s.lru, k) \in Seq(K)
  BY <1>2, PutType, AppendProperties
<1>4. QED
  BY <1>1, <1>2, <1>3

(* Inserting a new key into a full shard replaces the first of the queue. *)
LEMMA InsertFull ==
  ASSUME NEW K, NEW E, NEW s, Sound(s, K, E), Len(s.lru) = s.cap,
         NEW k \in K, NEW e \in E, k \notin DOMAIN s.map
  PROVE  /\ ShardInsert(s, k, e)
              \in [map : PartialMap(K, E), lru : Seq(K), cap : Nat \ {0}]
         /\ ShardInsert(s, k, e).cap = s.cap
         /\ Len(ShardInsert(s, k, e).lru) = s.cap
         /\ \A j \in 1 .. s.cap - 1 : ShardInsert(s, k, e).lru[j] = s.lru[j + 1]
         /\ ShardInsert(s, k, e).lru[s.cap] = k
         /\ DOMAIN ShardInsert(s, k, e).map = (DOMAIN s.map \ {s.lru[1]}) \cup {k}
         /\ ShardInsert(s, k, e).map[k] = e
         /\ \A x \in DOMAIN s.map \ {s.lru[1]} :
              ShardInsert(s, k, e).map[x] = s.map[x]
<1> DEFINE v == Evict(s)
           t == ShardInsert(s, k, e)
<1>1. PICK n \in Nat \ {0} : n = s.cap /\ Len(s.lru) = n
  BY DEF Sound
<1>2. /\ v \in [map : PartialMap(K, E), lru : Seq(K), cap : Nat \ {0}]
      /\ v.cap = n
      /\ Len(v.lru) = n - 1
      /\ \A j \in 1 .. n - 1 : v.lru[j] = s.lru[j + 1]
      /\ DOMAIN v.map = DOMAIN s.map \ {s.lru[1]}
      /\ \A x \in DOMAIN s.map \ {s.lru[1]} : v.map[x] = s.map[x]
  BY <1>1, EvictFull
<1>3. t = [v EXCEPT !.map = Put(v.map, k, e), !.lru = Append(v.lru, k)]
  BY DEF ShardInsert
<1> HIDE DEF v, t
<1>4. v.map \in PartialMap(K, E) /\ v.lru \in Seq(K)
  BY <1>2
<1>5. /\ Put(v.map, k, e) \in PartialMap(K, E)
      /\ DOMAIN Put(v.map, k, e) = DOMAIN v.map \cup {k}
      /\ Put(v.map, k, e)[k] = e
      /\ \A x \in DOMAIN v.map \ {k} : Put(v.map, k, e)[x] = v.map[x]
  <2>1. Put(v.map, k, e) \in PartialMap(K, E)
    BY <1>4, PutType
  <2>2. QED
    BY <2>1 DEF Put
<1>6. /\ Append(v.lru, k) \in Seq(K)
      /\ Len(Append(v.lru, k)) = n
      /\ \A j \in 1 .. n - 1 : Append(v.lru, k)[j] = v.lru[j]
      /\ Append(v.lru, k)[n] = k
  BY <1>2, <1>4, AppendProperties
<1>7. /\ t \in [map : PartialMap(K, E), lru : Seq(K), cap : Nat \ {0}]
      /\ t.cap = n
      /\ t.map = Put(v.map, k, e)
      /\ t.lru = Append(v.lru, k)
  BY <1>2, <1>3, <1>5, <1>6
<1>8. /\ Len(t.lru) = n
      /\ \A j \in 1 .. n - 1 : t.lru[j] = s.lru[j + 1]
      /\ t.lru[n] = k
  BY <1>2, <1>6, <1>7
<1>9. /\ DOMAIN t.map = (DOMAIN s.map \ {s.lru[1]}) \cup {k}
      /\ t.map[k] = e
      /\ \A x \in DOMAIN s.map \ {s.lru[1]} : t.map[x] = s.map[x]
  BY <1>2, <1>5, <1>7
<1>10. QED
  BY <1>1, <1>7, <1>8, <1>9 DEF t

(* Overwriting a resident key only promotes it. *)
LEMMA InsertResident ==
  ASSUME NEW K, NEW E, NEW s, Sound(s, K, E), NEW k \in K, NEW e \in E, k \in DOMAIN s.map
  PROVE  /\ ShardInsert(s, k, e)
              \in [map : PartialMap(K, E), lru : Seq(K), cap : Nat \ {0}]
         /\ ShardInsert(s, k, e).cap = s.cap
         /\ ShardInsert(s, k, e).lru = Promote(s.lru, k)
         /\ ShardInsert(s, k, e).map = Put(s.map, k, e)
<1>1. ShardInsert(s, k, e) = [s EXCEPT !.map = Put(s.map, k, e), !.lru = Promote(s.lru, k)]
  BY DEF ShardInsert
<1>2. s \in [map : PartialMap(K, E), lru : Seq(K), cap : Nat \ {0}]
  BY DEF Sound
<1>3. Put(s.map, k, e) \in PartialMap(K, E) /\ Promote(s.lru, k) \in Seq(K)
  BY <1>2, PutType, PromoteQueue DEF Sound
<1>4. QED
  BY <1>1, <1>2, <1>3

(* A get changes nothing but the recency of the key it finds. *)
LEMMA GetResult ==
  ASSUME NEW K, NEW E, NEW s, Sound(s, K, E), NEW k \in K
  PROVE  /\ ShardGet(s, k) \in [map : PartialMap(K, E), lru : Seq(K), cap : Nat \ {0}]
         /\ ShardGet(s, k).cap = s.cap
         /\ ShardGet(s, k).map = s.map
         /\ ShardGet(s, k).lru = IF k \in DOMAIN s.map THEN Promote(s.lru, k) ELSE s.lru
<1>1. Promote(s.lru, k) \in Seq(K)
  BY PromoteQueue DEF Sound
<1>2. QED
  BY <1>1 DEF Sound, ShardGet

-----------------------------------------------------------------------------

(* t is the end of q, c elements long or all of q if q is shorter. *)
TailOf(t, q, c) ==
  /\ Len(t) = IF Len(q) < c THEN Len(q) ELSE c
  /\ \A j \in 1 .. Len(t) : t[j] = q[(Len(q) - Len(t)) + j]

(* Promoting a key of the tail keeps it the tail. *)
LEMMA TailPromote ==
  ASSUME NEW S, NEW t \in Seq(S), NEW q \in Seq(S), NEW c \in Nat \ {0},
         IsInjective(t), IsInjective(q), TailOf(t, q, c), NEW i \in 1 .. Len(t)
  PROVE  TailOf(Promote(t, t[i]), Promote(q, t[i]), c)
<1>1. PICK n \in Nat : n = Len(t)
  BY LenProperties
<1>2. PICK d \in Nat : Len(q) = d + n /\ n = IF d + n < c THEN d + n ELSE c
  <2>1. Len(q) \in Nat
    BY LenProperties
  <2>2. n <= Len(q)
    BY <2>1, <1>1 DEF TailOf
  <2>3. (Len(q) - n) \in Nat /\ Len(q) = (Len(q) - n) + n
    BY <2>1, <2>2
  <2>4. QED
    BY <2>3, <1>1 DEF TailOf
<1>3. \A j \in 1 .. n : t[j] = q[d + j]
  <2>1. Len(q) - Len(t) = d
    BY <1>1, <1>2
  <2>2. QED
    BY <2>1, <1>1 DEF TailOf
<1>4. d + i \in 1 .. Len(q) /\ t[i] = q[d + i] /\ i \in 1 .. n
  BY <1>1, <1>2, <1>3
<1> DEFINE u == Promote(t, t[i])
           w == Promote(q, q[d + i])
<1>5. /\ Len(u) = n
      /\ \A j \in 1 .. i - 1 : u[j] = t[j]
      /\ \A j \in i .. n - 1 : u[j] = t[j + 1]
      /\ u[n] = t[i]
  BY <1>1, PromotePresent
<1>6. /\ Len(w) = d + n
      /\ \A j \in 1 .. (d + i) - 1 : w[j] = q[j]
      /\ \A j \in (d + i) .. (d + n) - 1 : w[j] = q[j + 1]
      /\ w[d + n] = q[d + i]
  <2>1. PICK m \in 1 .. Len(q) : m = d + i
    BY <1>4
  <2>2. /\ Len(Promote(q, q[m])) = Len(q)
        /\ \A j \in 1 .. m - 1 : Promote(q, q[m])[j] = q[j]
        /\ \A j \in m .. Len(q) - 1 : Promote(q, q[m])[j] = q[j + 1]
        /\ Promote(q, q[m])[Len(q)] = q[m]
    BY PromotePresent
  <2>3. Len(q) = d + n
    BY <1>2
  <2>4. QED
    BY <2>1, <2>2, <2>3, Zenon
<1> HIDE DEF u, w
<1>7. ASSUME NEW j \in 1 .. n
      PROVE  u[j] = w[d + j]
  <2>1. CASE j = n
    BY <2>1, <1>4, <1>5, <1>6
  <2>2. CASE j < i
    <3>1. d + j \in 1 .. (d + i) - 1 /\ j \in 1 .. i - 1
      BY <2>2, <1>4
    <3>2. QED
      BY <3>1, <1>3, <1>5, <1>6
  <2>3. CASE j >= i /\ j # n
    <3>1. d + j \in (d + i) .. (d + n) - 1 /\ j \in i .. n - 1 /\ j + 1 \in 1 .. n
      BY <2>3, <1>4
    <3>2. u[j] = t[j + 1] /\ w[d + j] = q[(d + j) + 1]
      BY <3>1, <1>5, <1>6
    <3>3. t[j + 1] = q[d + (j + 1)] /\ d + (j + 1) = (d + j) + 1
      BY <3>1, <1>3
    <3>4. QED
      BY <3>2, <3>3
  <2>4. QED
    BY <2>1, <2>2, <2>3, <1>4
<1>8. TailOf(u, w, c)
  <2>1. Len(w) - Len(u) = d
    BY <1>5, <1>6
  <2>2. QED
    BY <2>1, <1>2, <1>5, <1>6, <1>7 DEF TailOf
<1>9. QED
  BY <1>4, <1>8 DEF u, w

(* While the whole of q fits, appending to both keeps it so. *)
LEMMA TailAppend ==
  ASSUME NEW S, NEW t \in Seq(S), NEW q \in Seq(S), NEW c \in Nat \ {0},
         TailOf(t, q, c), Len(t) < c, NEW k \in S
  PROVE  t = q /\ TailOf(Append(t, k), Append(q, k), c)
<1>1. PICK n \in Nat : n = Len(t) /\ n = Len(q) /\ n < c
  BY LenProperties DEF TailOf
<1>2. \A j \in 1 .. n : t[j] = q[j]
  <2>1. \A j \in 1 .. n : (n - n) + j = j
    OBVIOUS
  <2>2. \A j \in 1 .. n : t[j] = q[(n - n) + j]
    BY <1>1 DEF TailOf
  <2>3. QED
    BY <2>1, <2>2
<1>3. t = q
  BY <1>1, <1>2, SeqEqual
<1>4. /\ Len(Append(q, k)) = n + 1
      /\ n + 1 <= c
  BY <1>1, AppendProperties
<1>5. TailOf(Append(q, k), Append(q, k), c)
  BY <1>4 DEF TailOf
<1>6. QED
  BY <1>3, <1>5

(* Replacing the first element of a full tail by a new last one, when that *)
(* one is new to q or comes from the part of q outside the tail.           *)
LEMMA TailShift ==
  ASSUME NEW S, NEW t \in Seq(S), NEW q \in Seq(S), NEW c \in Nat \ {0},
         IsInjective(q), TailOf(t, q, c), Len(t) = c,
         NEW k \in S, k \notin Range(t),
         NEW u \in Seq(S), Len(u) = c,
         \A j \in 1 .. c - 1 : u[j] = t[j + 1],
         u[c] = k
  PROVE  TailOf(u, Promote(q, k), c)
<1>1. PICK d \in Nat : Len(q) = d + c
  <2>1. Len(q) \in Nat /\ Len(q) >= c
    BY LenProperties DEF TailOf
  <2>2. Len(q) - c \in Nat /\ Len(q) = (Len(q) - c) + c
    BY <2>1
  <2>3. QED
    BY <2>2
<1>2. \A j \in 1 .. c : t[j] = q[d + j]
  <2>1. Len(q) - Len(t) = d
    BY <1>1
  <2>2. QED
    BY <2>1 DEF TailOf
<1>3. ASSUME NEW w \in Seq(S), NEW x \in Nat, Len(w) = x + c,
             \A j \in 1 .. c - 1 : w[x + j] = q[d + (j + 1)],
             w[x + c] = k
      PROVE  TailOf(u, w, c)
  <2>1. Len(w) - Len(u) = x /\ ~ (Len(w) < c)
    BY <1>3
  <2>2. ASSUME NEW j \in 1 .. c
        PROVE  u[j] = w[x + j]
    <3>1. CASE j = c
      BY <3>1, <1>3
    <3>2. CASE j # c
      <4>1. j \in 1 .. c - 1 /\ j + 1 \in 1 .. c
        BY <3>2
      <4>2. u[j] = t[j + 1] /\ t[j + 1] = q[d + (j + 1)] /\ w[x + j] = q[d + (j + 1)]
        BY <4>1, <1>2, <1>3
      <4>3. QED
        BY <4>2
    <3>3. QED
      BY <3>1, <3>2
  <2>3. QED
    BY <2>1, <2>2 DEF TailOf
<1>4. CASE k \notin Range(q)
  <2> DEFINE w == Append(q, k)
  <2>1. /\ w \in Seq(S)
        /\ Len(w) = (d + c) + 1
        /\ \A j \in 1 .. d + c : w[j] = q[j]
        /\ w[(d + c) + 1] = k
    <3>1. /\ w \in Seq(S)
          /\ Len(w) = Len(q) + 1
          /\ \A j \in 1 .. Len(q) : w[j] = q[j]
          /\ w[Len(q) + 1] = k
      BY AppendProperties
    <3>2. QED
      BY <3>1, <1>1, Zenon
  <2> HIDE DEF w
  <2>2. /\ d + 1 \in Nat
        /\ Len(w) = (d + 1) + c
        /\ w[(d + 1) + c] = k
    <3>1. (d + c) + 1 = (d + 1) + c
      OBVIOUS
    <3>2. QED
      BY <3>1, <2>1
  <2>3. ASSUME NEW j \in 1 .. c - 1
        PROVE  w[(d + 1) + j] = q[d + (j + 1)]
    <3>1. (d + 1) + j \in 1 .. d + c /\ (d + 1) + j = d + (j + 1)
      OBVIOUS
    <3>2. QED
      BY <3>1, <2>1
  <2>4. TailOf(u, w, c)
    BY <2>1, <2>2, <2>3, <1>3
  <2>5. QED
    BY <2>4, <1>4, PromoteAbsent DEF w
<1>5. CASE k \in Range(q)
  <2>1. PICK p \in 1 .. Len(q) : q[p] = k
    BY <1>5, LenProperties DEF Range
  <2>2. p <= d
    <3>1. SUFFICES ASSUME p > d PROVE FALSE
      BY <2>1, <1>1
    <3>2. p - d \in 1 .. c /\ d + (p - d) = p
      BY <3>1, <2>1, <1>1
    <3>3. t[p - d] = k
      BY <3>2, <2>1, <1>2
    <3>4. DOMAIN t = 1 .. c
      BY LenProperties
    <3>5. QED
      BY <3>2, <3>3, <3>4 DEF Range
  <2> DEFINE w == Promote(q, q[p])
  <2>3. /\ w \in Seq(S)
        /\ Len(w) = d + c
        /\ \A j \in p .. (d + c) - 1 : w[j] = q[j + 1]
        /\ w[d + c] = k
    <3>1. /\ w \in Seq(S)
          /\ Len(w) = Len(q)
          /\ \A j \in p .. Len(q) - 1 : w[j] = q[j + 1]
          /\ w[Len(q)] = q[p]
      BY PromotePresent
    <3>2. QED
      BY <3>1, <2>1, <1>1, Zenon
  <2> HIDE DEF w
  <2>4. ASSUME NEW j \in 1 .. c - 1
        PROVE  w[d + j] = q[d + (j + 1)]
    <3>1. d + j \in p .. (d + c) - 1 /\ (d + j) + 1 = d + (j + 1)
      <4>1. p \in Nat
        BY <1>1
      <4>2. ASSUME NEW x \in Nat, x <= d
            PROVE  d + j \in x .. (d + c) - 1 /\ (d + j) + 1 = d + (j + 1)
        BY <4>2
      <4>3. QED
        BY <4>1, <4>2, <2>2
    <3>2. QED
      BY <3>1, <2>3
  <2>5. TailOf(u, w, c)
    BY <2>3, <2>4, <1>3
  <2>6. QED
    BY <2>5, <2>1 DEF w
<1>6. QED
  BY <1>4, <1>5

(* The queue of a full shard after a replacement. *)
LEMMA ShiftQueue ==
  ASSUME NEW S, NEW t \in Seq(S), NEW c \in Nat \ {0}, Len(t) = c,
         IsInjective(t), NEW k \in S, k \notin Range(t),
         NEW u \in Seq(S), Len(u) = c,
         \A j \in 1 .. c - 1 : u[j] = t[j + 1],
         u[c] = k
  PROVE  /\ IsInjective(u)
         /\ Range(u) = (Range(t) \ {t[1]}) \cup {k}
<1>1. DOMAIN t = 1 .. c /\ DOMAIN u = 1 .. c
  BY LenProperties
<1>2. \A j \in 1 .. c : t[j] # k
  BY <1>1 DEF Range
<1>3. \A a, b \in 1 .. c : t[a] = t[b] => a = b
  BY <1>1 DEF IsInjective
<1>4. \A a, b \in 1 .. c : u[a] = u[b] => a = b
  <2>1. SUFFICES ASSUME NEW a \in 1 .. c, NEW b \in 1 .. c, u[a] = u[b]
                 PROVE  a = b
    OBVIOUS
  <2>2. CASE a = c /\ b = c
    BY <2>2
  <2>3. CASE a # c /\ b # c
    <3>1. a \in 1 .. c - 1 /\ b \in 1 .. c - 1 /\ a + 1 \in 1 .. c /\ b + 1 \in 1 .. c
      BY <2>3
    <3>2. t[a + 1] = t[b + 1]
      BY <3>1, <2>1
    <3>3. a + 1 = b + 1
      BY <3>1, <3>2, <1>3
    <3>4. QED
      BY <3>3
  <2>4. CASE a # c /\ b = c
    <3>1. a \in 1 .. c - 1 /\ a + 1 \in 1 .. c
      BY <2>4
    <3>2. QED
      BY <3>1, <2>4, <2>1, <1>2
  <2>5. CASE a = c /\ b # c
    <3>1. b \in 1 .. c - 1 /\ b + 1 \in 1 .. c
      BY <2>5
    <3>2. QED
      BY <3>1, <2>5, <2>1, <1>2
  <2>6. QED
    BY <2>2, <2>3, <2>4, <2>5
<1>5. ASSUME NEW x \in Range(u)
      PROVE  x \in (Range(t) \ {t[1]}) \cup {k}
  <2>1. PICK a \in 1 .. c : u[a] = x
    BY <1>1, <1>5 DEF Range
  <2>2. CASE a = c
    BY <2>1, <2>2
  <2>3. CASE a # c
    <3>1. a \in 1 .. c - 1 /\ a + 1 \in 1 .. c /\ a + 1 # 1 /\ 1 \in 1 .. c
      BY <2>3
    <3>2. x = t[a + 1] /\ t[a + 1] # t[1]
      BY <3>1, <2>1, <1>3
    <3>3. QED
      BY <3>1, <3>2, <1>1 DEF Range
  <2>4. QED
    BY <2>2, <2>3
<1>6. ASSUME NEW x \in (Range(t) \ {t[1]}) \cup {k}
      PROVE  x \in Range(u)
  <2>1. CASE x = k
    <3>1. c \in 1 .. c
      OBVIOUS
    <3>2. QED
      BY <3>1, <2>1, <1>1 DEF Range
  <2>2. CASE x # k
    <3>1. PICK a \in 1 .. c : t[a] = x /\ a # 1
      BY <2>2, <1>6, <1>1 DEF Range
    <3>2. a - 1 \in 1 .. c - 1 /\ (a - 1) + 1 = a /\ a - 1 \in 1 .. c
      BY <3>1
    <3>3. u[a - 1] = x
      BY <3>1, <3>2
    <3>4. QED
      BY <3>2, <3>3, <1>1 DEF Range
  <2>3. QED
    BY <2>1, <2>2
<1>7. Range(u) = (Range(t) \ {t[1]}) \cup {k}
  BY <1>5, <1>6
<1>8. QED
  BY <1>1, <1>4, <1>7 DEF IsInjective

-----------------------------------------------------------------------------

(* Every method of a shard keeps it sound. *)
LEMMA SoundNew ==
  ASSUME NEW K, NEW E, NEW c \in Nat
  PROVE  Sound(ShardNew(c), K, E)
<1>1. PICK d \in Nat \ {0} : d = IF c > 1 THEN c ELSE 1
  OBVIOUS
<1>2. ShardNew(c) = [map |-> << >>, lru |-> << >>, cap |-> d]
  BY <1>1 DEF ShardNew
<1>3. << >> \in [{} -> E] /\ << >> \in Seq(K) /\ Len(<< >>) = 0 /\ DOMAIN << >> = {}
  OBVIOUS
<1>4. << >> \in PartialMap(K, E)
  BY <1>3, PartialMapIntro
<1>5. Range(<< >>) = {} /\ IsInjective(<< >>)
  BY DEF Range, IsInjective
<1>6. QED
  BY <1>2, <1>3, <1>4, <1>5 DEF Sound

LEMMA SoundFlush ==
  ASSUME NEW K, NEW E, NEW s, Sound(s, K, E)
  PROVE  Sound(ShardFlush(s), K, E)
<1>1. s \in [map : PartialMap(K, E), lru : Seq(K), cap : Nat \ {0}]
  BY DEF Sound
<1>2. << >> \in [{} -> E] /\ << >> \in Seq(K) /\ Len(<< >>) = 0 /\ DOMAIN << >> = {}
  OBVIOUS
<1>3. << >> \in PartialMap(K, E)
  BY <1>2, PartialMapIntro
<1>4. Range(<< >>) = {} /\ IsInjective(<< >>)
  BY DEF Range, IsInjective
<1>5. PICK t : t = ShardFlush(s)
  OBVIOUS
<1>6. /\ t \in [map : PartialMap(K, E), lru : Seq(K), cap : Nat \ {0}]
      /\ t.map = << >> /\ t.lru = << >> /\ t.cap \in Nat
  BY <1>1, <1>2, <1>3, <1>5 DEF ShardFlush
<1>7. Sound(t, K, E)
  BY <1>2, <1>4, <1>6 DEF Sound
<1>8. QED
  BY <1>5, <1>7

(* Promoting a resident key keeps the queue's length and its keys. *)
LEMMA SoundPromote ==
  ASSUME NEW K, NEW E, NEW s, Sound(s, K, E), NEW k \in DOMAIN s.map
  PROVE  /\ k \in K
         /\ IsInjective(Promote(s.lru, k))
         /\ Range(Promote(s.lru, k)) = DOMAIN s.map
         /\ Len(Promote(s.lru, k)) = Len(s.lru)
<1>1. PICK q \in Seq(K) : q = s.lru /\ IsInjective(q) /\ Range(q) = DOMAIN s.map
  BY DEF Sound
<1>1a. IsInjective(q)
  BY <1>1
<1>2. PICK i \in 1 .. Len(q) : q[i] = k
  BY <1>1, LenProperties DEF Range
<1>3. k \in K
  BY <1>2, LenProperties
<1>4. IsInjective(Promote(q, k)) /\ Range(Promote(q, k)) = Range(q) \cup {k}
  BY <1>1a, <1>3, PromoteQueue
<1>5. Len(Promote(q, q[i])) = Len(q)
  BY <1>1, PromotePresent
<1>6. QED
  BY <1>1, <1>2, <1>3, <1>4, <1>5

LEMMA SoundGet ==
  ASSUME NEW K, NEW E, NEW s, Sound(s, K, E), NEW k \in K
  PROVE  Sound(ShardGet(s, k), K, E)
<1>1. /\ ShardGet(s, k) \in [map : PartialMap(K, E), lru : Seq(K), cap : Nat \ {0}]
      /\ ShardGet(s, k).cap = s.cap
      /\ ShardGet(s, k).map = s.map
      /\ ShardGet(s, k).lru = IF k \in DOMAIN s.map THEN Promote(s.lru, k) ELSE s.lru
  BY GetResult
<1>2. CASE k \in DOMAIN s.map
  BY <1>1, <1>2, SoundPromote DEF Sound
<1>3. CASE k \notin DOMAIN s.map
  BY <1>1, <1>3 DEF Sound
<1>4. QED
  BY <1>2, <1>3

LEMMA SoundInsert ==
  ASSUME NEW K, NEW E, NEW s, Sound(s, K, E), NEW k \in K, NEW e \in E
  PROVE  Sound(ShardInsert(s, k, e), K, E)
<1> DEFINE t == ShardInsert(s, k, e)
<1>1. /\ s.lru \in Seq(K) /\ IsInjective(s.lru) /\ Range(s.lru) = DOMAIN s.map
      /\ s.cap \in Nat \ {0} /\ Len(s.lru) \in Nat /\ Len(s.lru) <= s.cap
  BY LenProperties DEF Sound
<1>2. DOMAIN Put(s.map, k, e) = DOMAIN s.map \cup {k}
  BY DEF Put
<1>3. CASE k \in DOMAIN s.map
  <2>1. /\ t \in [map : PartialMap(K, E), lru : Seq(K), cap : Nat \ {0}]
        /\ t.cap = s.cap
        /\ t.lru = Promote(s.lru, k)
        /\ t.map = Put(s.map, k, e)
    BY <1>3, InsertResident
  <2> HIDE DEF t
  <2>2. DOMAIN t.map = DOMAIN s.map
    BY <2>1, <1>2, <1>3
  <2>3. Sound(t, K, E)
    BY <2>1, <2>2, <1>1, <1>3, SoundPromote DEF Sound
  <2>4. QED
    BY <2>3 DEF t
<1>4. CASE k \notin DOMAIN s.map /\ Len(s.lru) < s.cap
  <2>1. /\ t \in [map : PartialMap(K, E), lru : Seq(K), cap : Nat \ {0}]
        /\ t.cap = s.cap
        /\ t.lru = Append(s.lru, k)
        /\ t.map = Put(s.map, k, e)
    BY <1>4, InsertRoom
  <2> HIDE DEF t
  <2>2. IsInjective(t.lru) /\ Range(t.lru) = DOMAIN t.map
    BY <2>1, <1>1, <1>2, <1>4, AppendNew
  <2>3. Len(t.lru) <= t.cap
    BY <2>1, <1>1, <1>4, AppendProperties
  <2>4. Sound(t, K, E)
    BY <2>1, <2>2, <2>3 DEF Sound
  <2>5. QED
    BY <2>4 DEF t
<1>5. CASE k \notin DOMAIN s.map /\ Len(s.lru) = s.cap
  <2>1. /\ t \in [map : PartialMap(K, E), lru : Seq(K), cap : Nat \ {0}]
        /\ t.cap = s.cap
        /\ Len(t.lru) = s.cap
        /\ \A j \in 1 .. s.cap - 1 : t.lru[j] = s.lru[j + 1]
        /\ t.lru[s.cap] = k
        /\ DOMAIN t.map = (DOMAIN s.map \ {s.lru[1]}) \cup {k}
    BY <1>5, InsertFull
  <2> HIDE DEF t
  <2>2. t.lru \in Seq(K)
    BY <2>1
  <2>3. IsInjective(t.lru) /\ Range(t.lru) = (Range(s.lru) \ {s.lru[1]}) \cup {k}
    <3>1. PICK c \in Nat \ {0} : c = s.cap
      BY <1>1
    <3>2. PICK q \in Seq(K) : q = s.lru
      BY <1>1
    <3>3. PICK u \in Seq(K) : u = t.lru
      BY <2>2
    <3>4. Len(q) = c /\ IsInjective(q) /\ k \notin Range(q)
      BY <3>1, <3>2, <1>1, <1>5
    <3>5. Len(u) = c /\ u[c] = k /\ \A j \in 1 .. c - 1 : u[j] = q[j + 1]
      BY <3>1, <3>2, <3>3, <2>1
    <3>6. IsInjective(u) /\ Range(u) = (Range(q) \ {q[1]}) \cup {k}
      BY <3>4, <3>5, ShiftQueue
    <3>7. QED
      BY <3>2, <3>3, <3>6
  <2>4. Sound(t, K, E)
    BY <2>1, <2>3, <1>1 DEF Sound
  <2>5. QED
    BY <2>4 DEF t
<1>6. QED
  BY <1>1, <1>3, <1>4, <1>5

(* What a shard holds after an insert is the new entry, or was there.      *)
LEMMA InsertKeeps ==
  ASSUME NEW K, NEW E, NEW s, Sound(s, K, E), NEW k \in K, NEW e \in E,
         NEW x \in DOMAIN ShardInsert(s, k, e).map
  PROVE  \/ ShardInsert(s, k, e).map[x] = e
         \/ x \in DOMAIN s.map /\ ShardInsert(s, k, e).map[x] = s.map[x]
<1>1. /\ s.cap \in Nat /\ Len(s.lru) \in Nat /\ Len(s.lru) <= s.cap
      /\ DOMAIN Put(s.map, k, e) = DOMAIN s.map \cup {k}
      /\ \A y \in DOMAIN s.map \cup {k} :
           Put(s.map, k, e)[y] = IF y = k THEN e ELSE s.map[y]
  BY LenProperties DEF Sound, Put
<1>2. CASE k \in DOMAIN s.map
  <2>1. ShardInsert(s, k, e).map = Put(s.map, k, e)
    BY <1>2, InsertResident
  <2>2. QED
    BY <2>1, <1>1
<1>3. CASE k \notin DOMAIN s.map /\ Len(s.lru) < s.cap
  <2>1. ShardInsert(s, k, e).map = Put(s.map, k, e)
    BY <1>3, InsertRoom
  <2>2. QED
    BY <2>1, <1>1
<1>4. CASE k \notin DOMAIN s.map /\ Len(s.lru) = s.cap
  BY <1>4, InsertFull
<1>5. QED
  BY <1>1, <1>2, <1>3, <1>4

=============================================================================
