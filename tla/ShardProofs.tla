---------------------------- MODULE ShardProofs ----------------------------
(***************************************************************************)
(* Proofs about the cache shard, for every set of keys, every set of       *)
(* entries and every capacity.                                             *)
(***************************************************************************)
EXTENDS ShardLRU, ShardLemmas

(* The inductive invariant.  The queue is a tail of the full history, which *)
(* is what KeepsMostRecent says, but position by position, and the history  *)
(* itself is free of duplicates, without which promoting a key that has     *)
(* been evicted would leave an older copy behind.                           *)
Agrees(m, w) == \A k \in DOMAIN m : k \in DOMAIN w /\ m[k] = w[k]

IInv ==
  /\ Sound(shard, Key, Entry)
  /\ used \in Seq(Key)
  /\ IsInjective(used)
  /\ written \in PartialMap(Key, Entry)
  /\ TailOf(shard.lru, used, shard.cap)
  /\ Agrees(shard.map, written)

LEMMA EmptyQueue ==
  ASSUME NEW c \in Nat \ {0}
  PROVE  /\ << >> \in Seq(Key)
         /\ << >> \in PartialMap(Key, Entry)
         /\ IsInjective(<< >>)
         /\ Range(<< >>) = {}
         /\ DOMAIN << >> = {}
         /\ Len(<< >>) = 0
         /\ TailOf(<< >>, << >>, c)
         /\ Agrees(<< >>, << >>)
<1>1. << >> \in Seq(Key) /\ Len(<< >>) = 0 /\ DOMAIN << >> = {}
  OBVIOUS
<1>2. << >> \in [{} -> Entry]
  OBVIOUS
<1>3. << >> \in PartialMap(Key, Entry)
  BY <1>2, PartialMapIntro
<1>4. IsInjective(<< >>) /\ Range(<< >>) = {}
  BY DEF IsInjective, Range
<1>5. TailOf(<< >>, << >>, c)
  BY <1>1 DEF TailOf
<1>6. Agrees(<< >>, << >>)
  BY <1>1 DEF Agrees
<1>7. QED
  BY <1>1, <1>3, <1>4, <1>5, <1>6

LEMMA InitIInv == Init => IInv
<1>1. SUFFICES ASSUME Init PROVE IInv
  OBVIOUS
<1>2. PICK c \in Size : shard = ShardNew(c)
  BY <1>1 DEF Init
<1>3. PICK d \in Nat \ {0} : d = IF c > 1 THEN c ELSE 1
  BY SizeAssumption
<1>4. shard = [map |-> << >>, lru |-> << >>, cap |-> d]
  BY <1>2, <1>3 DEF ShardNew
<1>5. shard.map = << >> /\ shard.lru = << >> /\ shard.cap = d
  BY <1>4
<1>6. shard \in [map : PartialMap(Key, Entry), lru : Seq(Key), cap : Nat \ {0}]
  BY <1>4, EmptyQueue
<1>7. Sound(shard, Key, Entry)
  BY <1>5, <1>6, EmptyQueue DEF Sound
<1>8. used = << >> /\ written = << >>
  BY <1>1 DEF Init
<1>9. QED
  BY <1>5, <1>7, <1>8, EmptyQueue DEF IInv

(* Facts about the current state that every action starts from. *)
LEMMA IInvFacts ==
  ASSUME IInv
  PROVE  /\ shard.lru \in Seq(Key)
         /\ shard.map \in PartialMap(Key, Entry)
         /\ shard.cap \in Nat \ {0}
         /\ IsInjective(shard.lru)
         /\ Range(shard.lru) = DOMAIN shard.map
         /\ Len(shard.lru) \in Nat
         /\ Len(shard.lru) <= shard.cap
  BY LenProperties DEF IInv, Sound

(* Promoting a resident key in the queue and in the history. *)
LEMMA PromoteBoth ==
  ASSUME IInv, NEW k \in DOMAIN shard.map
  PROVE  /\ Promote(shard.lru, k) \in Seq(Key)
         /\ IsInjective(Promote(shard.lru, k))
         /\ Range(Promote(shard.lru, k)) = DOMAIN shard.map
         /\ Len(Promote(shard.lru, k)) = Len(shard.lru)
         /\ Promote(used, k) \in Seq(Key)
         /\ IsInjective(Promote(used, k))
         /\ TailOf(Promote(shard.lru, k), Promote(used, k), shard.cap)
<1>1. k \in Key
  BY IInvFacts, PartialMapElim
<1>2. PICK i \in 1 .. Len(shard.lru) : shard.lru[i] = k
  BY IInvFacts, LenProperties DEF Range
<1>3. TailOf(Promote(shard.lru, k), Promote(used, k), shard.cap)
  <2>1. TailOf(Promote(shard.lru, shard.lru[i]), Promote(used, shard.lru[i]), shard.cap)
    BY IInvFacts, TailPromote DEF IInv
  <2>2. QED
    BY <2>1, <1>2
<1>4. /\ Promote(shard.lru, k) \in Seq(Key)
      /\ IsInjective(Promote(shard.lru, k))
      /\ Range(Promote(shard.lru, k)) = DOMAIN shard.map \cup {k}
  <2>1. PICK q \in Seq(Key) : q = shard.lru
    BY IInvFacts
  <2>2. IsInjective(q) /\ Range(q) = DOMAIN shard.map
    BY <2>1, IInvFacts
  <2>3. /\ Promote(q, k) \in Seq(Key)
        /\ IsInjective(Promote(q, k))
        /\ Range(Promote(q, k)) = Range(q) \cup {k}
    BY <2>2, <1>1, PromoteQueue
  <2>4. QED
    BY <2>1, <2>2, <2>3, Zenon
<1>5. Len(Promote(shard.lru, k)) = Len(shard.lru)
  <2>1. Len(Promote(shard.lru, shard.lru[i])) = Len(shard.lru)
    BY IInvFacts, PromotePresent
  <2>2. QED
    BY <2>1, <1>2
<1>6. Promote(used, k) \in Seq(Key) /\ IsInjective(Promote(used, k))
  BY <1>1, PromoteQueue DEF IInv
<1>7. QED
  BY <1>3, <1>4, <1>5, <1>6

LEMMA GetIInv ==
  ASSUME IInv, NEW k \in Key, Get(k)
  PROVE  IInv'
<1>1. /\ shard' \in [map : PartialMap(Key, Entry), lru : Seq(Key), cap : Nat \ {0}]
      /\ shard'.cap = shard.cap
      /\ shard'.map = shard.map
      /\ shard'.lru = IF k \in DOMAIN shard.map THEN Promote(shard.lru, k) ELSE shard.lru
  BY GetResult DEF Get, IInv
<1>2. /\ used' = IF k \in DOMAIN shard.map THEN Promote(used, k) ELSE used
      /\ written' = written
  BY DEF Get
<1>3. CASE k \in DOMAIN shard.map
  <2>1. shard'.lru = Promote(shard.lru, k) /\ used' = Promote(used, k)
    BY <1>1, <1>2, <1>3
  <2>2. Sound(shard', Key, Entry)
    BY <2>1, <1>1, <1>3, PromoteBoth, IInvFacts DEF Sound
  <2>3. QED
    BY <2>1, <2>2, <1>1, <1>2, <1>3, PromoteBoth DEF IInv
<1>4. CASE k \notin DOMAIN shard.map
  <2>1. shard'.lru = shard.lru /\ used' = used
    BY <1>1, <1>2, <1>4
  <2>2. Sound(shard', Key, Entry)
    BY <2>1, <1>1, IInvFacts DEF Sound
  <2>3. QED
    BY <2>1, <2>2, <1>1, <1>2 DEF IInv
<1>5. QED
  BY <1>3, <1>4

LEMMA InsertIInv ==
  ASSUME IInv, NEW k \in Key, NEW e \in Entry, Insert(k, e)
  PROVE  IInv'
<1>1. /\ shard' = ShardInsert(shard, k, e)
      /\ used' = Promote(used, k)
      /\ written' = Put(written, k, e)
  BY DEF Insert
<1>2. /\ used' \in Seq(Key)
      /\ IsInjective(used')
      /\ written' \in PartialMap(Key, Entry)
      /\ DOMAIN written' = DOMAIN written \cup {k}
      /\ written'[k] = e
      /\ \A x \in DOMAIN written \ {k} : written'[x] = written[x]
  <2>1. used \in Seq(Key) /\ IsInjective(used) /\ written \in PartialMap(Key, Entry)
    BY DEF IInv
  <2>2. Promote(used, k) \in Seq(Key) /\ IsInjective(Promote(used, k))
    BY <2>1, PromoteQueue
  <2>3. /\ Put(written, k, e) \in PartialMap(Key, Entry)
        /\ DOMAIN Put(written, k, e) = DOMAIN written \cup {k}
        /\ Put(written, k, e)[k] = e
        /\ \A x \in DOMAIN written \ {k} : Put(written, k, e)[x] = written[x]
    <3>1. Put(written, k, e) \in PartialMap(Key, Entry)
      BY <2>1, PutType
    <3>2. QED
      BY <3>1 DEF Put
  <2>4. QED
    BY <2>2, <2>3, <1>1, Zenon
<1>3. Sound(shard, Key, Entry)
  BY DEF IInv
<1>4. \A x \in DOMAIN shard.map : x \in DOMAIN written /\ shard.map[x] = written[x]
  BY DEF IInv, Agrees
<1>4a. /\ DOMAIN Put(shard.map, k, e) = DOMAIN shard.map \cup {k}
      /\ Put(shard.map, k, e)[k] = e
      /\ \A x \in DOMAIN shard.map \ {k} : Put(shard.map, k, e)[x] = shard.map[x]
  BY DEF Put
<1>5. ASSUME Put(shard.map, k, e) = shard'.map
      PROVE  Agrees(shard'.map, written')
  <2>1. /\ DOMAIN shard'.map = DOMAIN shard.map \cup {k}
        /\ shard'.map[k] = e
        /\ \A x \in DOMAIN shard.map \ {k} : shard'.map[x] = shard.map[x]
    BY <1>5, <1>4a, Zenon
  <2>2. QED
    BY <2>1, <1>2, <1>4 DEF Agrees
<1>6. CASE k \in DOMAIN shard.map
  <2>1. /\ shard' \in [map : PartialMap(Key, Entry), lru : Seq(Key), cap : Nat \ {0}]
        /\ shard'.cap = shard.cap
        /\ shard'.lru = Promote(shard.lru, k)
        /\ shard'.map = Put(shard.map, k, e)
    BY <1>1, <1>3, <1>6, InsertResident
  <2>2. DOMAIN shard'.map = DOMAIN shard.map
    BY <2>1, <1>4a, <1>6
  <2>3. Sound(shard', Key, Entry)
    BY <2>1, <2>2, <1>6, PromoteBoth, IInvFacts DEF Sound
  <2>4. QED
    BY <2>1, <2>3, <1>1, <1>2, <1>5, <1>6, PromoteBoth DEF IInv
<1>7. CASE k \notin DOMAIN shard.map /\ Len(shard.lru) < shard.cap
  <2>1. /\ shard' \in [map : PartialMap(Key, Entry), lru : Seq(Key), cap : Nat \ {0}]
        /\ shard'.cap = shard.cap
        /\ shard'.lru = Append(shard.lru, k)
        /\ shard'.map = Put(shard.map, k, e)
    BY <1>1, <1>3, <1>7, InsertRoom
  <2>2. DOMAIN shard'.map = DOMAIN shard.map \cup {k}
    BY <2>1, <1>4a
  <2>3. shard.lru = used /\ TailOf(Append(shard.lru, k), Append(used, k), shard.cap)
    BY <1>7, IInvFacts, TailAppend DEF IInv
  <2>4. used' = Append(used, k)
    BY <2>3, <1>1, <1>7, IInvFacts, PromoteAbsent
  <2>5. /\ IsInjective(Append(shard.lru, k))
        /\ Range(Append(shard.lru, k)) = DOMAIN shard.map \cup {k}
    BY <1>7, IInvFacts, AppendNew
  <2>6. Len(Append(shard.lru, k)) <= shard.cap
    BY <1>7, IInvFacts, AppendProperties
  <2>7. Sound(shard', Key, Entry)
    BY <2>1, <2>2, <2>5, <2>6 DEF Sound
  <2>8. QED
    BY <2>1, <2>3, <2>4, <2>7, <1>2, <1>5 DEF IInv
<1>8. CASE k \notin DOMAIN shard.map /\ Len(shard.lru) = shard.cap
  <2>1. /\ shard' \in [map : PartialMap(Key, Entry), lru : Seq(Key), cap : Nat \ {0}]
        /\ shard'.cap = shard.cap
        /\ Len(shard'.lru) = shard.cap
        /\ \A j \in 1 .. shard.cap - 1 : shard'.lru[j] = shard.lru[j + 1]
        /\ shard'.lru[shard.cap] = k
        /\ DOMAIN shard'.map = (DOMAIN shard.map \ {shard.lru[1]}) \cup {k}
        /\ shard'.map[k] = e
        /\ \A x \in DOMAIN shard.map \ {shard.lru[1]} : shard'.map[x] = shard.map[x]
    BY <1>1, <1>3, <1>8, InsertFull
  <2>2. shard'.lru \in Seq(Key) /\ k \notin Range(shard.lru)
    BY <2>1, <1>8, IInvFacts
  <2>3. /\ IsInjective(shard'.lru)
        /\ Range(shard'.lru) = (Range(shard.lru) \ {shard.lru[1]}) \cup {k}
    BY <2>1, <2>2, <1>8, IInvFacts, ShiftQueue
  <2>4. TailOf(shard'.lru, Promote(used, k), shard.cap)
    BY <2>1, <2>2, <1>8, IInvFacts, TailShift DEF IInv
  <2>5. Agrees(shard'.map, written')
    BY <2>1, <1>2, <1>4, <1>8 DEF Agrees
  <2>6. Sound(shard', Key, Entry)
    BY <2>1, <2>2, <2>3, IInvFacts DEF Sound
  <2>7. QED
    BY <2>1, <2>4, <2>5, <2>6, <1>1, <1>2 DEF IInv
<1>9. QED
  BY <1>6, <1>7, <1>8, IInvFacts

LEMMA FlushIInv ==
  ASSUME IInv, Flush
  PROVE  IInv'
<1>1. shard \in [map : PartialMap(Key, Entry), lru : Seq(Key), cap : Nat \ {0}]
  BY DEF IInv, Sound
<1>2. shard' = [shard EXCEPT !.map = << >>, !.lru = << >>]
  BY DEF Flush, ShardFlush
<1>3. /\ shard'.map = << >> /\ shard'.lru = << >> /\ shard'.cap = shard.cap
      /\ shard' \in [map : PartialMap(Key, Entry), lru : Seq(Key), cap : Nat \ {0}]
  BY <1>1, <1>2, IInvFacts, EmptyQueue
<1>4. Sound(shard', Key, Entry)
  BY <1>3, IInvFacts, EmptyQueue DEF Sound
<1>5. used' = << >> /\ written' = << >>
  BY DEF Flush
<1>6. QED
  BY <1>3, <1>4, <1>5, IInvFacts, EmptyQueue DEF IInv

LEMMA StutterIInv ==
  ASSUME IInv, UNCHANGED vars
  PROVE  IInv'
  BY DEF IInv, vars

LEMMA NextIInv == IInv /\ [Next]_vars => IInv'
<1>1. SUFFICES ASSUME IInv, [Next]_vars PROVE IInv'
  OBVIOUS
<1>2. ASSUME NEW k \in Key, Get(k) PROVE IInv'
  BY <1>1, <1>2, GetIInv
<1>3. ASSUME NEW k \in Key, NEW e \in Entry, Insert(k, e) PROVE IInv'
  BY <1>1, <1>3, InsertIInv
<1>4. CASE Flush
  BY <1>1, <1>4, FlushIInv
<1>5. CASE UNCHANGED vars
  BY <1>1, <1>5, StutterIInv
<1>6. QED
  BY <1>1, <1>2, <1>3, <1>4, <1>5 DEF Next

LEMMA Invariance == Spec => []IInv
  BY InitIInv, NextIInv, PTL DEF Spec

(* The fields of a shard always have their types, whatever is stored in it *)
(* (cache.rs: struct Shard); the capacity is never zero.                   *)
THEOREM TypeCorrect == Spec => []TypeOK
<1>1. IInv => TypeOK
  BY DEF IInv, Sound, TypeOK
<1>2. QED
  BY Invariance, <1>1, PTL

(* The map and the queue name the same keys, each once, after every        *)
(* sequence of get, insert and flush (cache.rs: Shard::get, insert).       *)
THEOREM QueueCorrect == Spec => []QueueMatchesMap
<1>1. IInv => QueueMatchesMap
  BY DEF IInv, Sound, QueueMatchesMap
<1>2. QED
  BY Invariance, <1>1, PTL

(* No shard ever holds more keys than its capacity (cache.rs: the eviction *)
(* loop of Shard::insert).                                                 *)
THEOREM CapacityCorrect == Spec => []CapacityBound
<1>1. ASSUME IInv PROVE CapacityBound
  <2>1. Cardinality(Range(shard.lru)) = Len(shard.lru)
    BY <1>1, IInvFacts, QueueCardinality
  <2>2. QED
    BY <2>1, <1>1, IInvFacts DEF CapacityBound, ShardLen
<1>2. QED
  BY Invariance, <1>1, PTL

(* A bounded shard keeps exactly the keys used last, in the order of their *)
(* use, each with the entry written last (cache.rs: promotion in get and   *)
(* insert, pop_front in the eviction loop).                                *)
THEOREM RecencyCorrect == Spec => []KeepsMostRecent
<1>1. ASSUME IInv PROVE KeepsMostRecent
  <2>1. PICK q \in Seq(Key) : q = used
    BY <1>1 DEF IInv
  <2>2. PICK t \in Seq(Key) : t = shard.lru
    BY <1>1, IInvFacts
  <2>3. PICK m \in Nat : m = Len(q)
    BY LenProperties
  <2>4. PICK n \in Nat : n = Len(t)
    BY LenProperties
  <2>5. /\ n = IF m < shard.cap THEN m ELSE shard.cap
        /\ \A j \in 1 .. n : t[j] = q[(m - n) + j]
    BY <1>1, <2>1, <2>2, <2>3, <2>4 DEF IInv, TailOf
  <2>6. n <= m /\ m - n \in Nat
    BY <2>5, <1>1, IInvFacts
  <2> DEFINE w == SubSeq(q, (m - n) + 1, m)
  <2>7. /\ w \in Seq(Key)
        /\ Len(w) = n
        /\ \A j \in 1 .. n : w[j] = q[(m - n) + j]
    <3>1. \A j \in (m - n) + 1 .. m : q[j] \in Key
      BY <2>3, <2>6, LenProperties
    <3>2. /\ w \in Seq(Key)
          /\ Len(w) = IF (m - n) + 1 <= m THEN m - ((m - n) + 1) + 1 ELSE 0
          /\ \A j \in 1 .. m - ((m - n) + 1) + 1 : w[j] = q[((m - n) + 1) + j - 1]
      BY <3>1, <2>3, <2>6, SubSeqProperties
    <3>3. m - ((m - n) + 1) + 1 = n /\ Len(w) = n
      BY <3>2, <2>6
    <3>4. ASSUME NEW j \in 1 .. n
          PROVE  w[j] = q[(m - n) + j]
      <4>1. ((m - n) + 1) + j - 1 = (m - n) + j
        BY <2>6
      <4>2. QED
        BY <4>1, <3>2, <3>3
    <3>5. QED
      BY <3>2, <3>3, <3>4
  <2> HIDE DEF w
  <2>8. t = w
    BY <2>4, <2>5, <2>7, SeqEqual
  <2>9. shard.lru = SubSeq(used, Len(used) - n + 1, Len(used))
    BY <2>8, <2>1, <2>2, <2>3 DEF w
  <2>10. n = IF Len(used) < shard.cap THEN Len(used) ELSE shard.cap
    BY <2>5, <2>1, <2>3
  <2>11. \A k \in DOMAIN shard.map : k \in DOMAIN written /\ shard.map[k] = written[k]
    BY <1>1 DEF IInv, Agrees
  <2>12. QED
    BY <2>9, <2>10, <2>11 DEF KeepsMostRecent
<1>2. QED
  BY Invariance, <1>1, PTL

=============================================================================
