------------------------------- MODULE MCLive -------------------------------
(* Good rules of two versions, a broken file, and one that would move the  *)
(* listeners.                                                              *)
EXTENDS Live

Make(b, s, r) == [broken |-> b, service |-> s, rules |-> r]

MCFirst == Make(FALSE, "s1", "r1")

MCConfigs == {MCFirst, Make(FALSE, "s1", "r2"), Make(TRUE, "s1", "r3"), Make(FALSE, "s2", "r2")}
=============================================================================
