----------------------------- MODULE MCShardLRU -----------------------------
(* Four keys compete for at most three places; capacity 0 is the boundary  *)
(* that Shard::new raises to one.                                          *)
EXTENDS ShardLRU

MCSize == 0 .. 3

=============================================================================
