------------------------------- MODULE Shard -------------------------------
(***************************************************************************)
(* One shard of the response cache: struct Shard of src/plugin/cache.rs.   *)
(* A shard is a record                                                     *)
(*    map : a function from the resident cache keys to their entries       *)
(*    lru : the recency queue of the same keys, least recently used first  *)
(*    cap : how many keys it may hold                                      *)
(* Every method runs under the shard's mutex, so each one is a function    *)
(* from the shard before the call to the shard after it.  What an entry    *)
(* holds is of no concern here.                                            *)
(***************************************************************************)
EXTENDS Naturals, FiniteSets, Sequences, SequencesExt

(* The functions from some keys of K to entries of E. *)
PartialMap(K, E) == UNION {[D -> E] : D \in SUBSET K}

(* A constructor that takes the configured capacity as it stands. *)
ShardNewUnchecked(c) == [map |-> << >>, lru |-> << >>, cap |-> c]

(* Shard::new.  A capacity of zero becomes one. *)
ShardNew(c) ==
  [map |-> << >>, lru |-> << >>, cap |-> IF c > 1 THEN c ELSE 1]

(* Move k to the most recently used end of a recency queue. *)
Promote(q, k) == Append(RemoveFirst(q, k), k)

(* A get that forgets to promote: the queue degenerates to insertion order. *)
ShardGetNoPromote(s, k) == s

(* Shard::get: a present key becomes the most recently used one, whatever  *)
(* its entry is worth to the caller.  (The result is s.map[k].)            *)
ShardGet(s, k) ==
  IF k \in DOMAIN s.map /\ k \in Range(s.lru)
    THEN [s EXCEPT !.lru = Promote(s.lru, k)]
    ELSE s

(* insert's eviction loop stops after popping n keys from the front of the *)
(* queue: the map is below the capacity, or the queue is empty.            *)
StopsAfter(s, n) ==
  \/ n = Len(s.lru)
  \/ Cardinality(DOMAIN s.map \ Range(SubSeq(s.lru, 1, n))) < s.cap

(* The number of keys the loop pops. *)
EvictCount(s) ==
  CHOOSE n \in 0 .. Len(s.lru) :
    StopsAfter(s, n) /\ \A m \in 0 .. n - 1 : ~ StopsAfter(s, m)

(* An eviction loop that tests `len > cap`: one entry too many survives. *)
EvictTooLate(s) ==
  IF Cardinality(DOMAIN s.map) <= s.cap \/ s.lru = << >>
    THEN s
    ELSE [s EXCEPT !.map = Restrict(s.map, DOMAIN s.map \ {Head(s.lru)}),
                   !.lru = Tail(s.lru)]

(* The eviction loop of Shard::insert. *)
Evict(s) ==
  LET n       == EvictCount(s)
      victims == Range(SubSeq(s.lru, 1, n))
  IN  [s EXCEPT !.map = Restrict(s.map, DOMAIN s.map \ victims),
                !.lru = SubSeq(s.lru, n + 1, Len(s.lru))]

(* f with the value e at k, which may be new to f's domain. *)
Put(f, k, e) ==
  [x \in DOMAIN f \cup {k} |-> IF x = k THEN e ELSE f[x]]

(* An insert that queues a key it overwrites a second time. *)
ShardInsertTwice(s, k, e) ==
  LET t == IF k \in DOMAIN s.map THEN s ELSE Evict(s)
  IN  [t EXCEPT !.map = Put(t.map, k, e), !.lru = Append(t.lru, k)]

(* Shard::insert: overwriting a resident key never evicts. *)
ShardInsert(s, k, e) ==
  IF k \in DOMAIN s.map
    THEN [s EXCEPT !.map = Put(s.map, k, e), !.lru = Promote(s.lru, k)]
    ELSE LET t == Evict(s)
         IN  [t EXCEPT !.map = Put(t.map, k, e), !.lru = Append(t.lru, k)]

(* Shard::flush. *)
ShardFlush(s) == [s EXCEPT !.map = << >>, !.lru = << >>]

(* Shard::len. *)
ShardLen(s) == Cardinality(DOMAIN s.map)

=============================================================================
