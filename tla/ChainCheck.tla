----------------------------- MODULE ChainCheck -----------------------------
(***************************************************************************)
(* What a check of references promises, for the calls between plugins and  *)
(* for the includes between files alike: one verdict, reached eventually,  *)
(* which is "ok" exactly when everything that can be reached exists and no *)
(* chain of references from a root has more than MaxDepth members.  A      *)
(* rejection names a reason that is there.                                 *)
(***************************************************************************)
EXTENDS Naturals, FiniteSets

CONSTANTS Node,     \* everything that can be named
          MaxDepth  \* members of the longest chain allowed

VARIABLES graph,   \* what each member refers to; its domain is what exists
          roots,   \* where chains start
          verdict

vars == << graph, roots, verdict >>

Refs(x) == IF x \in DOMAIN graph THEN graph[x] ELSE {}

Iterate(step, start, n) ==
  LET round[k \in 0 .. n] == IF k = 0 THEN start ELSE step[round[k - 1]]
  IN  round[n]

(* Those that start a chain of n + 1 members. *)
StartsChain(n) == Iterate([T \in SUBSET Node |-> {x \in Node : Refs(x) \cap T # {}}], Node, n)

Reached ==
  Iterate([T \in SUBSET Node |-> T \cup UNION {Refs(x) : x \in T}], roots, Cardinality(Node))

Unknown == ~(Reached \subseteq DOMAIN graph)
TooDeep == roots \cap StartsChain(MaxDepth) # {}
Cyclic == Reached \cap StartsChain(Cardinality(Node)) # {}

Verdicts ==
  IF ~Unknown /\ ~TooDeep /\ ~Cyclic THEN {"ok"}
  ELSE {v \in {"unknown", "deep", "cycle"} : /\ v = "unknown" => Unknown
                                             /\ v = "deep" => TooDeep
                                             /\ v = "cycle" => Cyclic}

Init == verdict = "none"

Decide == /\ verdict = "none" /\ verdict' # "none"
          /\ verdict' \in Verdicts
          /\ UNCHANGED << graph, roots >>

(* What can be said of every prefix of a behaviour. *)
Safety == Init /\ [][Decide]_vars

Spec == Safety /\ <>(verdict # "none")
=============================================================================
