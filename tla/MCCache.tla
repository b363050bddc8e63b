------------------------------ MODULE MCCache ------------------------------
(* Instances of Cache for TLC. *)
EXTENDS Cache, TLC

(* Every key falls into the last shard, so that a flush in progress has    *)
(* passed the empty shards and not yet reached it.                         *)
LastShard == [k \in Key |-> NShards]

(* An answer that may be kept, with an additional record of TTL zero, and  *)
(* one that may not.                                                       *)
MCAnswers == {[ttl |-> 1, extra |-> 0, keep |-> TRUE],
              [ttl |-> 1, extra |-> 0, keep |-> FALSE]}

(* An answer whose additional record has a longer TTL than the rest. *)
LongExtra == {[ttl |-> 1, extra |-> 2, keep |-> TRUE]}

Symmetric == Permutations(Client) \cup Permutations(Refresher)

=============================================================================
