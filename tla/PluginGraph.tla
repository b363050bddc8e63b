---------------------------- MODULE PluginGraph -----------------------------
(***************************************************************************)
(* validate_plugin_graph: before any request runs, the calls between       *)
(* plugins ($tag and goto steps of sequences, the branches of fallbacks)   *)
(* are followed depth first, with the depth of finished plugins memoised.  *)
(* A request then runs nested calls, each on the stack of the one before.  *)
(***************************************************************************)
EXTENDS Naturals, Sequences, FiniteSets

CONSTANTS Tag,      \* plugin tags
          Configs,  \* the configurations: functions from the executables'
                    \*   tags to their types and the tags they run
          MaxDepth  \* MAX_PIPELINE_DEPTH, 64

Plugin == [ty : {"sequence", "fallback"}, targets : SUBSET Tag]

ASSUME PluginGraphAssumption ==
  /\ MaxDepth \in Nat \ {0} /\ IsFiniteSet(Tag)
  /\ \A c \in Configs : /\ DOMAIN c \subseteq Tag
                        /\ \A x \in DOMAIN c : c[x] \in Plugin

VARIABLES plugins,  \* the executable plugins of the configuration
          roots,    \* edges.keys() not visited yet
          active,   \* the stack of visit_plugin, with what each frame has left
          depths,   \* the memo: the depth of the plugins that are finished
          verdict,  \* "none" while validating
          request   \* the plugins a running request is inside of

vars == << plugins, roots, active, depths, verdict, request >>

Done == DOMAIN depths

Frame == [tag : Tag, todo : SUBSET Tag, depth : Nat]

(* Every variable keeps its type; the recursion of visit_plugin never goes *)
(* deeper than MaxDepth frames, and what it finishes was called for.       *)
TypeOK ==
  /\ DOMAIN plugins \subseteq Tag /\ \A x \in DOMAIN plugins : plugins[x] \in Plugin
  /\ roots \subseteq DOMAIN plugins
  /\ active \in Seq(Frame) /\ Len(active) <= MaxDepth
  /\ Done \subseteq DOMAIN plugins /\ \A x \in Done : depths[x] \in Nat
  /\ verdict \in {"none", "ok", "unknown", "cycle", "deep"}
  /\ request \in Seq(Tag)

Init ==
  /\ plugins \in Configs
  /\ roots = DOMAIN plugins
  /\ active = << >>
  /\ depths = [x \in {} |-> 0]
  /\ verdict = "none"
  /\ request = << >>

-----------------------------------------------------------------------------

(* The calls of sequences only. *)
CallsOfSequences(x) == IF plugins[x].ty = "sequence" THEN plugins[x].targets ELSE {}

(* What validate_plugin_graph collects for edges: the $tag and goto steps  *)
(* of a sequence, primary and secondary of a fallback.                     *)
Calls(x) == IF plugins[x].ty \in {"sequence", "fallback"} THEN plugins[x].targets ELSE {}

(* validate_plugin_graph, before any visit: a call to a tag that is no     *)
(* executable.                                                             *)
AllKnown == \A x \in DOMAIN plugins : Calls(x) \subseteq DOMAIN plugins

RejectUnknown ==
  /\ verdict = "none" /\ ~AllKnown
  /\ verdict' = "unknown"
  /\ UNCHANGED << plugins, roots, active, depths, request >>

OnStack(tag) == \E i \in 1 .. Len(active) : active[i].tag = tag

(* The depth a finished callee of depth d gives its caller. *)
CalleeOnly(f, tag, d) ==
  [tag |-> f.tag, todo |-> f.todo \ {tag}, depth |-> IF d > f.depth THEN d ELSE f.depth]

Deepen(f, tag, d) ==
  [tag |-> f.tag, todo |-> f.todo \ {tag}, depth |-> IF 1 + d > f.depth THEN 1 + d ELSE f.depth]

(* The caller below the top of the stack takes note of the depth. *)
NoteDepth(st, tag, d) ==
  IF st = << >> THEN st ELSE [st EXCEPT ![Len(st)] = Deepen(@, tag, d)]

(* visit_plugin(tag): memoised, on the stack, too deep, or a new frame.    *)
Visit(tag) ==
  \/ /\ tag \in Done
     /\ active' = NoteDepth(active, tag, depths[tag])
     /\ UNCHANGED verdict
  \/ /\ tag \notin Done /\ OnStack(tag)
     /\ verdict' = "cycle"
     /\ UNCHANGED active
  \/ /\ tag \notin Done /\ ~OnStack(tag) /\ Len(active) >= MaxDepth
     /\ verdict' = "deep"
     /\ UNCHANGED active
  \/ /\ tag \notin Done /\ ~OnStack(tag) /\ Len(active) < MaxDepth
     /\ active' = Append(active, [tag |-> tag, todo |-> Calls(tag), depth |-> 1])
     /\ UNCHANGED verdict

(* The loop over edges.keys(), in whatever order the map has. *)
VisitRoot(tag) ==
  /\ verdict = "none" /\ AllKnown /\ active = << >> /\ tag \in roots
  /\ roots' = roots \ {tag}
  /\ Visit(tag)
  /\ UNCHANGED << plugins, depths, request >>

(* The loop over the calls of the plugin on top, in the order of its list. *)
VisitCallee(tag) ==
  /\ verdict = "none" /\ active # << >> /\ tag \in active[Len(active)].todo
  /\ Visit(tag)
  /\ UNCHANGED << plugins, roots, depths, request >>

(* Without the second check of the depth. *)
FinishUnchecked ==
  /\ verdict = "none" /\ active # << >> /\ active[Len(active)].todo = {}
  /\ \E f \in {active[Len(active)]} :
       /\ depths' = [x \in Done \cup {f.tag} |-> IF x = f.tag THEN f.depth ELSE depths[x]]
       /\ active' = NoteDepth(SubSeq(active, 1, Len(active) - 1), f.tag, f.depth)
  /\ UNCHANGED << plugins, roots, verdict, request >>

(* All calls of the top are visited: memoise its depth and return it. *)
FinishVisit ==
  /\ verdict = "none" /\ active # << >> /\ active[Len(active)].todo = {}
  /\ \E f \in {active[Len(active)]} :
       \/ /\ f.depth > MaxDepth
          /\ verdict' = "deep"
          /\ UNCHANGED << active, depths >>
       \/ /\ f.depth <= MaxDepth
          /\ depths' = [x \in Done \cup {f.tag} |-> IF x = f.tag THEN f.depth ELSE depths[x]]
          /\ active' = NoteDepth(SubSeq(active, 1, Len(active) - 1), f.tag, f.depth)
          /\ UNCHANGED verdict
  /\ UNCHANGED << plugins, roots, request >>

Accept ==
  /\ verdict = "none" /\ AllKnown /\ active = << >> /\ roots = {}
  /\ verdict' = "ok"
  /\ UNCHANGED << plugins, roots, active, depths, request >>

-----------------------------------------------------------------------------
(* A request of the runtime that was built (SlotSequence::exec,            *)
(* SlotFallback::exec): it enters at some plugin, calls nest and return.   *)

Enter(tag) ==
  /\ verdict = "ok" /\ request = << >> /\ tag \in DOMAIN plugins
  /\ request' = << tag >>
  /\ UNCHANGED << plugins, roots, active, depths, verdict >>

CallPlugin(tag) ==
  /\ request # << >> /\ tag \in plugins[request[Len(request)]].targets \cap DOMAIN plugins
  /\ request' = Append(request, tag)
  /\ UNCHANGED << plugins, roots, active, depths, verdict >>

Return ==
  /\ request # << >>
  /\ request' = SubSeq(request, 1, Len(request) - 1)
  /\ UNCHANGED << plugins, roots, active, depths, verdict >>

Validate ==
  \/ RejectUnknown
  \/ \E tag \in Tag : VisitRoot(tag) \/ VisitCallee(tag)
  \/ FinishVisit
  \/ Accept

Next ==
  \/ Validate
  \/ \E tag \in Tag : Enter(tag) \/ CallPlugin(tag)
  \/ Return

(* The validation is one synchronous function: it runs on. *)
Spec == Init /\ [][Next]_vars /\ WF_vars(Validate)

-----------------------------------------------------------------------------
(* Properties. *)

(* The stack a request's nested calls need is bounded by MAX_PIPELINE_     *)
(* DEPTH, whatever the accepted configuration: "a timeout cannot protect   *)
(* recursively polled futures from overflowing the thread stack".          *)
RequestDepthBounded == Len(request) <= MaxDepth

(* The memo is right whenever it is used: the depth of a finished plugin   *)
(* exceeds that of everything it calls, all of it finished too.            *)
MemoRanksCalls ==
  \A x \in Done : Calls(x) \subseteq Done /\ \A y \in Calls(x) : depths[y] < depths[x]

(* The memoised search implements the check of ChainCheck: it ends, with   *)
(* the verdict the graph deserves, in every order of the map's keys.       *)
Promise == INSTANCE ChainCheck WITH Node <- Tag, graph <- [x \in DOMAIN plugins |-> Calls(x)], roots <- DOMAIN plugins

ImplementsChainCheck == Promise!Spec
=============================================================================
