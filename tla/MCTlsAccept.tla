---------------------------- MODULE MCTlsAccept -----------------------------
(* Two slots, as many stalled peers, which come as often as they like, and *)
(* two honest clients.                                                     *)
EXTENDS TlsAccept
=============================================================================
