----------------------------- MODULE MCPipeline -----------------------------
(* Instances of Pipeline for TLC. *)
EXTENDS Pipeline, TLC

MCRule == "a" :> "b" @@ "b" :> "c"

C(n, edns, ecs, private, public) ==
  [query |-> [name |-> n, edns |-> edns, ecs |-> ecs, private |-> private], public |-> public]

(* Two names, with and without EDNS, the client's own subnet (which the    *)
(* ecs plugin would attach, too), a private option, and an address that is *)
(* not public.                                                             *)
MCClients ==
  {C("a", FALSE, "none", FALSE, TRUE), C("a", TRUE, "none", FALSE, FALSE),
   C("b", TRUE, "net", FALSE, TRUE), C("a", TRUE, "none", TRUE, TRUE)}

S(when, do) == [when |-> when, do |-> do]

(* Pipelines of five steps.  `ecs` comes before the caches, and a redirect *)
(* that runs in any case comes before the steps that answer by themselves. *)
MCMain ==
  {<< s1, s2, s3, s4, s5 >> :
     s1 \in {S("any", "ecs"), S("ecs", "mark"), S("any", "redirect")},
     s2 \in {S("any", "A"), S("mark", "A"), S("any", "redirect")},
     s3 \in {S("any", "redirect"), S("has_resp", "accept"), S("!has_resp", "B")},
     s4 \in {S("!has_resp", "forward"), S("!has_resp", "call"), S("any", "goto")},
     s5 \in {S("any", "no_ecs"), S("!has_resp", "reject"), S("any", "drop_resp")}}

MCSub ==
  {<< S("!has_resp", "redirect"), S("any", "B"), S("!has_resp", "forward"), S("any", "accept") >>,
   << S("any", "hosts"), S("has_resp", "return"), S("mark", "black_hole"), S("!has_resp", "forward") >>}

(* The order of the README and the examples: reject, hosts, what they have *)
(* answered, ecs, cache, upstream.  In some, a redirect comes first, or    *)
(* what hosts has answered goes on with another rcode.                     *)
MCShipped ==
  {<< s1, S("any", "hosts"), s3, S("any", "ecs"), S("any", "A"), S("has_resp", "accept"),
      S("any", "forward") >> :
     s1 \in {S("ecs", "reject"), S("any", "redirect")},
     s3 \in {S("has_resp", "accept"), S("has_resp", "black_hole")}}

MCPrograms ==
  {[main |-> m, sub |-> s] : m \in MCMain, s \in MCSub} \cup
  {[main |-> m, sub |-> << >>] : m \in MCShipped}

ASSUME MCSettled == \A P \in MCPrograms : RedirectsSettle(P) /\ EcsFirst(P) /\ ForwardsLast(P)

(* The order in which the README lists the local plugins: hosts answers,   *)
(* and redirect runs whether it did or not.                                *)
MCAnswerFirst ==
  {[main |-> << S("any", "hosts"), S("any", "redirect"), S("!has_resp", "forward") >>,
    sub  |-> << >>]}

=============================================================================
