--------------------------- MODULE MCPluginGraph ----------------------------
(* Every call graph of four plugins with up to five calls (chains of four, *)
(* diamonds, cycles of every length), and every one of up to three calls   *)
(* in which one of the plugins does not exist.                             *)
EXTENDS PluginGraph, FiniteSets, FiniteSetsExt

Make(S) == [ty |-> IF Cardinality(S) = 2 THEN "fallback" ELSE "sequence", targets |-> S]

WithCalls(D, n) ==
  {[x \in D |-> Make({y \in Tag : << x, y >> \in E})] :
     E \in UNION {kSubset(k, D \X Tag) : k \in 0 .. n}}

MCConfigs == WithCalls(Tag, 5) \cup UNION {WithCalls(Tag \ {x}, 3) : x \in Tag}
=============================================================================
