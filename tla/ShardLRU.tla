------------------------------ MODULE ShardLRU ------------------------------
(***************************************************************************)
(* One shard under every sequence of the calls the cache makes of it: get  *)
(* on each lookup, insert on each store, flush from the admin API.  Two    *)
(* history variables remember what a shard of unbounded capacity would     *)
(* hold; the properties compare the bounded shard with them.               *)
(***************************************************************************)
EXTENDS Shard

CONSTANTS Key,      \* cache keys that fall into this shard
          Entry,    \* what is stored under a key
          Size      \* the capacities a configuration may ask for

ASSUME SizeAssumption == Size \subseteq Nat

VARIABLES shard,    \* the Shard
          used,     \* history: keys inserted or found since the last flush,
                    \*   most recently used last, none forgotten
          written   \* history: the entry last inserted under each such key

vars == << shard, used, written >>

(* The values the fields of a shard and the two histories may take; the    *)
(* capacity in force is never zero (Shard::new).                           *)
TypeOK ==
  /\ shard \in [map : PartialMap(Key, Entry), lru : Seq(Key), cap : Nat \ {0}]
  /\ used \in Seq(Key)
  /\ written \in PartialMap(Key, Entry)

Init ==
  /\ \E c \in Size : shard = ShardNew(c)
  /\ used = << >>
  /\ written = << >>

Get(k) ==
  /\ shard' = ShardGet(shard, k)
  /\ used' = IF k \in DOMAIN shard.map THEN Promote(used, k) ELSE used
  /\ UNCHANGED written

Insert(k, e) ==
  /\ shard' = ShardInsert(shard, k, e)
  /\ used' = Promote(used, k)
  /\ written' = Put(written, k, e)

Flush ==
  /\ shard' = ShardFlush(shard)
  /\ used' = << >>
  /\ written' = << >>

Next ==
  \/ \E k \in Key : Get(k)
  \/ \E k \in Key, e \in Entry : Insert(k, e)
  \/ Flush

Spec == Init /\ [][Next]_vars

-----------------------------------------------------------------------------

(* The map and the recency queue name the same keys, each key once.  A key *)
(* queued twice would be evicted while in use; a mapped key missing from   *)
(* the queue could never be evicted (cache.rs: get, insert).               *)
QueueMatchesMap ==
  /\ Range(shard.lru) = DOMAIN shard.map
  /\ IsInjective(shard.lru)

(* The shard never outgrows its capacity, which is at least one.  *)
CapacityBound == ShardLen(shard) <= shard.cap

(* LRU replacement: the queue is exactly the tail of the full recency      *)
(* order, as long as the capacity allows, so what insert evicts is always  *)
(* what was used least recently; and every resident key maps to the entry  *)
(* written last under it (cache.rs: the promotion in get and in insert,    *)
(* pop_front in the eviction loop).                                        *)
KeepsMostRecent ==
  LET n == IF Len(used) < shard.cap THEN Len(used) ELSE shard.cap
  IN  /\ shard.lru = SubSeq(used, Len(used) - n + 1, Len(used))
      /\ \A k \in DOMAIN shard.map : k \in DOMAIN written /\ shard.map[k] = written[k]

=============================================================================
