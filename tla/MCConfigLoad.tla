---------------------------- MODULE MCConfigLoad ----------------------------
(* Four files, one of them with two spellings and one that may not parse;  *)
(* lists of up to two includes, a missing file among them: chains longer   *)
(* than allowed, diamonds, and cycles of every length.                     *)
EXTENDS ConfigLoad

MCFile == {"m", "b", "c", "d"}
MCName == MCFile \cup {"./c", "x"}
MCCanon == [n \in MCName |-> IF n = "./c" THEN "c" ELSE IF n = "x" THEN "gone" ELSE n]

MCTrees ==
  {[f \in MCFile |->
      [include |-> IF f = "m" THEN im ELSE IF f = "b" THEN ib ELSE IF f = "c" THEN ic ELSE id,
       valid |-> f = "d" => ok, api |-> f \in api]] :
     im \in SeqOf({"b", "c"}, 2), ib \in SeqOf({"c", "./c", "m", "d"}, 2),
     ic \in SeqOf({"d", "b", "./c"}, 1), id \in SeqOf({"m", "./c", "x"}, 1),
     ok \in BOOLEAN, api \in {{}, {"m"}, {"b", "d"}, {"c"}}}
=============================================================================
