----------------------------- MODULE ConfigLoad -----------------------------
(***************************************************************************)
(* Config::load_file: a configuration file is read, then the files it      *)
(* includes, depth first and in order, each merged into the file that      *)
(* includes it.  Nothing is remembered of a file that is finished: one     *)
(* included twice is loaded twice.                                         *)
(***************************************************************************)
EXTENDS Naturals, Sequences, FiniteSets, SequencesExt

CONSTANTS File,     \* files, by canonical path
          Main,     \* the file given on the command line
          Name,     \* the spellings of paths in include lists, resolved
                    \*   against the including file's directory
          Canon,    \* Canon[n]: the file that n leads to, or "gone"
          Trees,    \* the contents: functions from File to the readable ones
          MaxIncludeDepth \* MAX_INCLUDE_DEPTH, 64

(* A file: its include list, whether it parses, what it declares (by the   *)
(* file's name), and whether it sets the API's address.                    *)
Content == [include : Seq(Name), valid : BOOLEAN, api : BOOLEAN]

Absent == "absent"

ASSUME ConfigLoadAssumption ==
  /\ MaxIncludeDepth \in Nat \ {0} /\ Main \in File /\ {Absent, "gone"} \cap File = {} /\ IsFiniteSet(File)
  /\ Canon \in [Name -> File \cup {"gone"}]
  /\ \A tree \in Trees : DOMAIN tree = File /\ \A f \in File : tree[f] \in Content

VARIABLES tree,     \* the files
          stack,    \* the files being loaded, with what is left to include
          loaded,   \* the configurations that load_with_stack has returned
          outcome

loadVars == << tree, stack, loaded, outcome >>

(* The configuration a file makes by itself (from_yaml, stamp_base): its   *)
(* plugins and servers stand for the file's, in order.                     *)
Own(f) == [plugins |-> << f >>, servers |-> << f >>,
           api |-> IF tree[f].api THEN f ELSE Absent, log |-> f]

(* The one loaded last has the last word. *)
MergeOver(cfg, extra) ==
  [cfg EXCEPT !.plugins = @ \o extra.plugins, !.servers = @ \o extra.servers,
              !.api = IF extra.api = Absent THEN @ ELSE extra.api]

(* Config::merge. *)
Merge(cfg, extra) ==
  [cfg EXCEPT !.plugins = @ \o extra.plugins, !.servers = @ \o extra.servers,
              !.api = IF @ = Absent THEN extra.api ELSE @]

(* Files that are finished counted too, as if nothing were popped. *)
SeenBefore(name) == \E i \in 1 .. Len(stack) : Canon[name] \in Range(stack[i].cfg.plugins)

Including(name) == \E i \in 1 .. Len(stack) : stack[i].file = Canon[name]

(* load_with_stack(name): the limit, the path, the cycle, then read and    *)
(* parse; st is the stack of the caller.                                   *)
Load(name, st) ==
  \/ /\ Len(st) >= MaxIncludeDepth
     /\ outcome' = "deep"
     /\ UNCHANGED stack
  \/ /\ Len(st) < MaxIncludeDepth /\ Canon[name] = "gone"
     /\ outcome' = "unknown"
     /\ UNCHANGED stack
  \/ /\ Len(st) < MaxIncludeDepth /\ Canon[name] # "gone" /\ Including(name)
     /\ outcome' = "cycle"
     /\ UNCHANGED stack
  \/ /\ Len(st) < MaxIncludeDepth /\ Canon[name] # "gone" /\ ~Including(name)
     /\ \/ ~tree[Canon[name]].valid /\ outcome' = "unknown" /\ UNCHANGED stack
        \/ /\ tree[Canon[name]].valid
           /\ stack' = Append(st, [file |-> Canon[name], todo |-> tree[Canon[name]].include,
                                   cfg |-> Own(Canon[name])])
           /\ UNCHANGED outcome

LoadInit ==
  /\ tree \in Trees
  /\ stack = << >>
  /\ loaded = << >>
  /\ outcome = "none"

LoadFile ==
  /\ outcome = "none" /\ stack = << >> /\ loaded = << >>
  /\ \E name \in Name : Canon[name] = Main /\ Load(name, stack)
  /\ UNCHANGED << tree, loaded >>

(* load_contents: the next file of the include list. *)
Include ==
  /\ outcome = "none" /\ loaded = << >> /\ stack # << >> /\ Last(stack).todo # << >>
  /\ Load(Head(Last(stack).todo), [stack EXCEPT ![Len(stack)].todo = Tail(@)])
  /\ UNCHANGED << tree, loaded >>

(* load_contents returns: the path leaves the stack, the caller merges. *)
Finish ==
  /\ outcome = "none" /\ stack # << >> /\ Last(stack).todo = << >>
  /\ \/ /\ Len(stack) = 1
        /\ loaded' = << Last(stack).cfg >>
        /\ stack' = << >>
        /\ outcome' = "ok"
     \/ /\ Len(stack) > 1
        /\ stack' = [Front(stack) EXCEPT ![Len(stack) - 1].cfg = Merge(@, Last(stack).cfg)]
        /\ UNCHANGED << loaded, outcome >>
  /\ UNCHANGED tree

LoadNext == LoadFile \/ Include \/ Finish

(* Loading is one synchronous function: it runs on. *)
LoadSpec == LoadInit /\ [][LoadNext]_loadVars /\ WF_loadVars(LoadNext)

-----------------------------------------------------------------------------
(* Properties. *)

(* The text of file x with its first n includes replaced by what they      *)
(* stand for, which `below` says; n goes up to the whole list.             *)
Lines(tr, x, below) ==
  LET text[n \in 0 .. Len(tr[x].include)] ==
        IF n = 0 THEN << x >> ELSE text[n - 1] \o below[Canon[tr[x].include[n]]]
  IN  text

(* The texts of all files, includes replaced d levels deep. *)
Texts(tr) ==
  LET level[d \in 0 .. MaxIncludeDepth] ==
        IF d = 0 THEN [x \in File |-> << x >>]
        ELSE LET below == level[d - 1]
             IN [x \in File |-> Lines(tr, x, below)[Len(tr[x].include)]]
  IN  level

(* An API address is that of the first file that sets one. *)
FirstApi(tr, text, api) ==
  \/ api = Absent /\ \A i \in 1 .. Len(text) : ~tr[text[i]].api
  \/ \E i \in 1 .. Len(text) : /\ tr[text[i]].api /\ api = text[i]
                               /\ \A j \in 1 .. i - 1 : ~tr[text[j]].api

(* An accepted configuration holds every plugin and server of the tree, as *)
(* often as it is included and in the order of the text, and the first API *)
(* address of that order (Config::merge).                                  *)
MergedInOrder ==
  outcome = "ok" =>
    LET cfg == loaded[1]
        text == Texts(tree)[MaxIncludeDepth][Main]
    IN  /\ cfg.plugins = text /\ cfg.servers = text
        /\ FirstApi(tree, text, cfg.api)
        /\ cfg.log = Main

(* Loading implements the check of ChainCheck over the include graph: it   *)
(* ends for every graph, cyclic ones and cycles through other spellings    *)
(* included, and rejects exactly those it must (load_with_stack).          *)
IncludeCheck == INSTANCE ChainCheck WITH
  Node <- File \cup {"gone"},
  graph <- [f \in {x \in File : tree[x].valid} |-> {Canon[n] : n \in Range(tree[f].include)}],
  roots <- {Main}, verdict <- outcome, MaxDepth <- MaxIncludeDepth

LoadImplementsChainCheck == IncludeCheck!Spec
=============================================================================
