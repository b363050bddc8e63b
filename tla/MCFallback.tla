----------------------------- MODULE MCFallback -----------------------------
(* An instance of Fallback for TLC: two upstreams behind the primary, two  *)
(* behind the secondary.                                                   *)
EXTENDS Fallback

MCUpstreams == [primary |-> {"p1", "p2"}, secondary |-> {"s1", "s2"}]

=============================================================================
