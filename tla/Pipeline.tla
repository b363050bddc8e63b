------------------------------ MODULE Pipeline ------------------------------
(***************************************************************************)
(* A query's way through the plugin pipeline: server::handle, the steps of *)
(* a Sequence and of one it calls or jumps to, the QueryContext the steps  *)
(* share, and the caches that outlive it.  Client queries and background   *)
(* refreshes run one at a time; what they do to each other's caches while  *)
(* they interleave, and the clock, are the business of module Cache.  Here *)
(* a resident entry may turn out fresh, lazy or expired.                   *)
(*                                                                         *)
(* Of a message the model keeps the question's name, the EDNS facts the    *)
(* code looks at (present, the client subnet, an option private to the     *)
(* client), the class of the rcode, and for a reply the alias records in   *)
(* front of the answer and the name that owns the answer.                  *)
(***************************************************************************)
EXTENDS Naturals, FiniteSets, Sequences, SequencesExt

CONSTANTS Name,       \* domain names
          Subnet,     \* client subnets; "none" is none of them
          OurSubnet,  \* what the ecs plugin attaches
          Rule,       \* the redirect plugin: a function from some names to names
          Host,       \* names the hosts plugin knows
          Cache,      \* tags of the caches
          Clients,    \* the queries clients send, from which addresses
          Programs,   \* configurations: the steps of "main" and of "sub"
          MaxRuns     \* bound on the number of pipeline runs

Tag == {"main", "sub"}

(* What a step can be.  A cache is executed by its tag. *)
Plugin == {"redirect", "ecs", "no_ecs", "forward", "hosts", "accept", "return",
           "drop_resp", "reject", "black_hole", "mark", "call", "goto"}
Exec == Cache \cup Plugin

Matcher == {"any", "has_resp", "!has_resp", "mark", "ecs"}

Query == [name : Name, edns : BOOLEAN, ecs : Subnet \cup {"none"}, private : BOOLEAN]

(* A client subnet and a private option are EDNS options. *)
WellFormed(q) == ~ q.edns => q.ecs = "none" /\ ~ q.private

(* A query, and whether the ecs plugin can attach an address for it: with  *)
(* `auto` the client's has to be public.                                   *)
Client == [query : {q \in Query : WellFormed(q)}, public : BOOLEAN]

ASSUME PipelineAssumption ==
  /\ Name # {} /\ "none" \notin Subnet
  /\ Cache \cap Plugin = {}
  /\ OurSubnet \in Subnet
  /\ DOMAIN Rule \subseteq Name /\ \A n \in DOMAIN Rule : Rule[n] \in Name
  /\ Host \subseteq Name
  /\ Clients \subseteq Client
  /\ Programs \subseteq [Tag -> Seq([when : Matcher, do : Exec])]
  /\ MaxRuns \in Nat

Alias == Name \X Name

(* `own` owns the answer, `chain` are the alias records before it, `run`   *)
(* is the pipeline run that obtained it.                                   *)
Resp == [rcode : {"absent", "ok", "nx", "fail"}, name : Name, own : Name,
         chain : Seq(Alias), edns : BOOLEAN, ecs : Subnet \cup {"none"},
         private : BOOLEAN, run : Nat]

VARIABLES prog,     \* the configuration in force
          store,    \* store[c]: the entries of cache c, by key
          pc,       \* "idle", "run" a step, "ret"urn from a sequence
          ret,      \* the Action a finished sequence returned
          frames,   \* the sequences being executed, the innermost last
          ctx,      \* the QueryContext; once idle, its resp has been sent
          pending,  \* refreshes spawned and not yet run
          run,      \* number of the current run
          visited,  \* history: caches and keys this run has executed
          touched,  \* history: this run has had a response
          aim       \* history: the cache and key this refresh was spawned for

vars == << prog, store, pc, ret, frames, ctx, pending, run, visited, touched, aim >>

-----------------------------------------------------------------------------
(* Messages. *)

(* dnsutil::reply_skeleton, EDNS options included.                         *)
Skeleton(q, rcode, n) ==
  [rcode |-> rcode, name |-> q.name, own |-> q.name, chain |-> << >>,
   edns |-> q.edns, ecs |-> q.ecs, private |-> q.private, run |-> n]

(* No response at all. *)
Absent(q) == Skeleton(q, "absent", 0)

HasResp == ctx.resp.rcode # "absent"

(* QueryContext::rebind_response. *)
Rebind(r, q) ==
  [r EXCEPT !.name = q.name,
            !.edns = @ /\ q.edns,
            !.ecs = IF q.edns THEN @ ELSE "none",
            !.private = @ /\ q.edns]

(* The aliases, in order, that are not among the records present. *)
Missing(aliases, present) ==
  LET m[i \in 0 .. Len(aliases)] ==
        IF i = 0 THEN << >>
        ELSE IF aliases[i] \in present THEN m[i - 1] ELSE Append(m[i - 1], aliases[i])
  IN  m[Len(aliases)]

(* A response_for_query that puts every alias in front again. *)
ResponseDoubled(r, rewrites, q, start) ==
  LET b == Rebind(r, q)
  IN  IF r.rcode \in {"ok", "nx"}
        THEN [b EXCEPT !.chain = SubSeq(rewrites, start + 1, Len(rewrites)) \o @]
        ELSE b

(* QueryContext::response_for_query: rebound to q, with the aliases from   *)
(* the start-th rewrite on that the answer does not have yet.              *)
ResponseForQuery(r, rewrites, q, start) ==
  LET b       == Rebind(r, q)
      aliases == SubSeq(rewrites, start + 1, Len(rewrites))
  IN  IF r.rcode \in {"ok", "nx"}
        THEN [b EXCEPT !.chain = Missing(aliases, Range(b.chain)) \o @]
        ELSE b

(* dnsutil::remove_ecs. *)
RemoveEcs(m) == [m EXCEPT !.ecs = "none"]

(* QueryContext::set_response and drop_response.                           *)
SetResponse(c, r) == [c EXCEPT !.resp = r, !.served = FALSE]
DropResponse(c) == SetResponse(c, Absent(c.query))

(* QueryContext::reject. *)
Reject(c, rcode) == SetResponse(c, Skeleton(c.query, rcode, run))

(* QueryContext::new, then begin_pipeline, which keeps the query, the      *)
(* marks and the ECS flag as they are before the first step.               *)
NewContext(q, public) ==
  [query |-> q, original |-> q, resp |-> Absent(q), mark |-> FALSE, public |-> public,
   rewrites |-> << >>, skip |-> FALSE, strip |-> FALSE, served |-> FALSE]

(* A refresh that starts from the query as rewritten so far. *)
CloneCurrent(c) == [NewContext(c.query, c.public) EXCEPT !.skip = TRUE]

(* QueryContext::clone_for_lazy: the state at the entry of the pipeline,   *)
(* for the same client.                                                    *)
CloneForLazy(c) == [NewContext(c.original, c.public) EXCEPT !.skip = TRUE]

-----------------------------------------------------------------------------
(* Caches. *)

(* Cache::key_of is None: the query carries options private to its client. *)
Keyless(q) == q.private

(* A store_lookup that keeps what other caches answered. *)
StoreServedToo(entries, c, w) ==
  IF c.resp.rcode # "ok" \/ c.resp.private
    THEN entries
    ELSE [k \in DOMAIN entries \cup {w.key} |->
            IF k = w.key THEN ResponseForQuery(c.resp, c.rewrites, w.key, w.start)
                         ELSE entries[k]]

(* Cache::store_lookup, then store, of the response in context c under the *)
(* lookup w.                                                               *)
StoreLookup(entries, c, w) ==
  IF c.served \/ c.resp.rcode # "ok" \/ c.resp.private
    THEN entries
    ELSE [k \in DOMAIN entries \cup {w.key} |->
            IF k = w.key THEN ResponseForQuery(c.resp, c.rewrites, w.key, w.start)
                         ELSE entries[k]]

(* The entries of cache t after the lookups of one sequence run, in order. *)
StoreInto(t, entries, c, writes) ==
  LET e[i \in 0 .. Len(writes)] ==
        IF i = 0 THEN entries
        ELSE IF writes[i].cache = t THEN StoreLookup(e[i - 1], c, writes[i]) ELSE e[i - 1]
  IN  e[Len(writes)]

(* Sequence::store. *)
StoreWrites(writes) == [t \in Cache |-> StoreInto(t, store[t], ctx, writes)]

-----------------------------------------------------------------------------

NoAim == [cache |-> "none", key |-> ctx.query]

Frame(s) == [seq |-> s, i |-> 1, writes |-> << >>, goto |-> FALSE]

Top == frames[Len(frames)]
Steps == prog[Top.seq]
Current == Steps[Top.i]

(* Matcher::matches. *)
Matches(m) ==
  CASE m = "any"       -> TRUE
    [] m = "has_resp"  -> HasResp
    [] m = "!has_resp" -> ~ HasResp
    [] m = "mark"      -> ctx.mark
    [] m = "ecs"       -> ctx.query.ecs # "none"

(* The innermost sequence is at a step that does x and whose matchers hold. *)
At(x) ==
  /\ pc = "run"
  /\ Top.i <= Len(Steps)
  /\ Current.do = x
  /\ Matches(Current.when)

SetTop(f) == frames' = [frames EXCEPT ![Len(frames)] = f]
Advance == SetTop([Top EXCEPT !.i = @ + 1])

(* The step changed the context to c and says Continue. *)
Continue(c) ==
  /\ Advance
  /\ ctx' = c
  /\ UNCHANGED << store, pc, ret, pending, visited >>

(* The end of server::handle: finalize_response, then the ECS strip. *)
Finalize(c) ==
  LET r == ResponseForQuery(c.resp, c.rewrites, c.original, 0)
  IN  [c EXCEPT !.resp = IF c.strip THEN RemoveEcs(r) ELSE r]

(* The innermost sequence stores and returns action a to its caller.  An   *)
(* answer that is truncated or has no time to live is kept by no cache.    *)
Finish(a) ==
  /\ store' \in {StoreWrites(Top.writes), store}
  /\ frames' = Front(frames)
  /\ ret' = a
  /\ pc' = IF Len(frames) = 1 THEN "idle" ELSE "ret"
  /\ ctx' = IF Len(frames) = 1 THEN Finalize(ctx) ELSE ctx
  /\ UNCHANGED << pending, visited >>

(* The timeout drops the pipeline where it waits: no sequence stores. *)
Abort(c) ==
  /\ frames' = << >>
  /\ pc' = "idle"
  /\ ctx' = Finalize(c)
  /\ UNCHANGED << store, ret, pending, visited >>

-----------------------------------------------------------------------------
(* Runs. *)

NoQuery ==
  [name |-> CHOOSE n \in Name : TRUE, edns |-> FALSE, ecs |-> "none", private |-> FALSE]

Init ==
  /\ prog \in Programs
  /\ store = [c \in Cache |-> << >>]
  /\ pc = "idle" /\ ret = "continue"
  /\ frames = << >>
  /\ ctx = NewContext(NoQuery, FALSE)
  /\ pending = {}
  /\ run = 0
  /\ visited = {}
  /\ touched = FALSE
  /\ aim = NoAim

Enter(c) ==
  /\ pc = "idle" /\ run < MaxRuns
  /\ run' = run + 1
  /\ visited' = {}
  /\ touched' = FALSE
  /\ ctx' = c
  /\ UNCHANGED << prog, store, ret >>

(* A client's query enters the pipeline. *)
Arrive(c) ==
  /\ Enter(NewContext(c.query, c.public))
  /\ pc' = "run" /\ frames' = << Frame("main") >>
  /\ aim' = [cache |-> "none", key |-> c.query]
  /\ UNCHANGED pending

(* A spawned refresh is run. *)
Refresh(p) ==
  /\ Enter(p.ctx)
  /\ pc' = "run" /\ frames' = << Frame("main") >>
  /\ aim' = [cache |-> IF p.first THEN p.cache ELSE "none", key |-> p.key]
  /\ pending' = pending \ {p}

(* A message that is no standard query is answered NOTIMP. *)
ArriveNotImp(c) ==
  /\ Enter(Finalize(Reject(NewContext(c.query, c.public), "fail")))
  /\ aim' = [cache |-> "none", key |-> c.query]
  /\ UNCHANGED << pc, frames, pending >>

-----------------------------------------------------------------------------
(* Steps. *)

(* A step whose matchers do not all hold is passed over. *)
Skip ==
  /\ pc = "run" /\ Top.i <= Len(Steps)
  /\ ~ Matches(Current.when)
  /\ Continue(ctx)

(* The steps are used up. *)
EndOfSteps == pc = "run" /\ Top.i > Len(Steps) /\ Finish("continue")

(* A snapshot that does not say how many rewrites came before it. *)
SnapshotFromStart(t) ==
  IF Keyless(ctx.query)
    THEN << >>
    ELSE << [cache |-> t, key |-> ctx.query, start |-> 0] >>

(* The lookup the sequence remembers for a cache step (Cache::snapshot). *)
Snapshot(t) ==
  IF Keyless(ctx.query)
    THEN << >>
    ELSE << [cache |-> t, key |-> ctx.query, start |-> Len(ctx.rewrites)] >>

(* The context after a hit. *)
Hit(t) ==
  [SetResponse(ctx, Rebind(store[t][ctx.query], ctx.query)) EXCEPT !.served = TRUE]

(* kick_refresh: a refresh from the start of the pipeline, unless one for  *)
(* this key of this cache is under way.                                    *)
Kicked(t) ==
  IF \E p \in pending : p.cache = t /\ p.key = ctx.query
    THEN {}
    ELSE {[ctx |-> CloneForLazy(ctx), cache |-> t, key |-> ctx.query, first |-> ~ touched]}

(* Cache::exec as a step, the snapshot before it, and kick_refresh. *)
CacheStep(t) ==
  /\ At(t)
  /\ SetTop([Top EXCEPT !.i = @ + 1, !.writes = @ \o Snapshot(t)])
  /\ visited' = IF Keyless(ctx.query) THEN visited ELSE visited \cup {<< t, ctx.query >>}
  /\ \/ \* no key, refreshing, absent or expired
        ctx' = ctx /\ UNCHANGED pending
     \/ /\ ~ Keyless(ctx.query) /\ ~ ctx.skip /\ ctx.query \in DOMAIN store[t]
        /\ ctx' = Hit(t)
        /\ \/ UNCHANGED pending   \* fresh
           \/ pending' = pending \cup Kicked(t)   \* lazy
  /\ UNCHANGED << store, pc, ret >>

(* QueryContext::rewrite_name. *)
RewriteName(c, n) ==
  IF c.query.name = n THEN c
  ELSE [c EXCEPT !.query.name = n, !.rewrites = Append(@, << c.query.name, n >>)]

(* Redirect::exec. *)
Redirect ==
  /\ At("redirect")
  /\ Continue(IF ctx.query.name \in DOMAIN Rule THEN RewriteName(ctx, Rule[ctx.query.name])
              ELSE ctx)

(* An ecs step that does not mark the reply for stripping. *)
EcsNoStrip ==
  /\ At("ecs")
  /\ Continue(IF ctx.query.ecs # "none" \/ ~ ctx.public THEN ctx
              ELSE [ctx EXCEPT !.query.edns = TRUE, !.query.ecs = OurSubnet])

(* Ecs::exec: a subnet the client sent is kept (force_overwrite off), and  *)
(* with `auto` there is none to attach for an address that is not public.  *)
Ecs ==
  /\ At("ecs")
  /\ Continue(IF ctx.query.ecs # "none" \/ ~ ctx.public THEN ctx
              ELSE [ctx EXCEPT !.query.edns = TRUE, !.query.ecs = OurSubnet,
                               !.strip = TRUE])

(* NoEcs::exec, and the builtin of that name. *)
NoEcs ==
  /\ At("no_ecs")
  /\ Continue([ctx EXCEPT !.query.ecs = "none", !.strip = TRUE])

Mark == At("mark") /\ Continue([ctx EXCEPT !.mark = TRUE])

DropResp == At("drop_resp") /\ Continue(DropResponse(ctx))

(* Hosts::exec. *)
Hosts ==
  /\ At("hosts")
  /\ Continue(IF ctx.query.name \in Host
                THEN SetResponse(ctx, Skeleton(ctx.query, "ok", run))
                ELSE ctx)

(* The upstream echoes the EDNS of the question, and may add an option of  *)
(* its own.                                                                *)
Upstream(rcode, private) ==
  [Skeleton(ctx.query, rcode, run) EXCEPT !.private = private /\ ctx.query.edns]

(* Forward::exec with a reply. *)
Forward(rcode, private) ==
  /\ At("forward")
  /\ Continue(SetResponse(ctx, Upstream(rcode, private)))

(* No upstream has an answer: the response, if any, stays what it was.     *)
ForwardFails == At("forward") /\ Continue(ctx)

(* The pipeline's time is up while it waits for the upstream. *)
TimesOut == At("forward") /\ Abort(Reject(ctx, "fail"))

(* Builtin accept. *)
Accept == At("accept") /\ Finish("accept")

(* A return that the calling sequence gets to see. *)
ReturnAsIs == At("return") /\ Finish("return")

(* Builtin return: it ends this sequence, and its caller goes on. *)
Return == At("return") /\ Finish("continue")

(* Builtin reject. *)
RejectStep(rcode) ==
  /\ At("reject")
  /\ ctx' = Reject(ctx, rcode)
  /\ pc' = "ret" /\ ret' = "accept"
  /\ UNCHANGED << store, frames, pending, visited >>

(* Blackhole::exec. *)
Blackhole(rcode) == At("black_hole") /\ Continue(Reject(ctx, rcode))

(* A step that runs the other sequence as a plugin, or jumps to it. *)
Call(goto) ==
  /\ At(IF goto THEN "goto" ELSE "call")
  /\ frames' = Append([frames EXCEPT ![Len(frames)].goto = goto], Frame("sub"))
  /\ UNCHANGED << store, pc, ret, ctx, pending, visited >>

(* The called sequence has returned: Continue goes on to the next step,    *)
(* Accept and the end of a jump finish the caller as well.                 *)
Resume ==
  /\ pc = "ret"
  /\ IF Top.goto \/ ret = "accept"
       THEN Finish(ret)
       ELSE /\ Advance
            /\ pc' = "run"
            /\ UNCHANGED << store, ret, ctx, pending, visited >>

Step ==
  /\ \/ Skip \/ EndOfSteps
     \/ \E t \in Cache : CacheStep(t)
     \/ Redirect \/ Ecs \/ NoEcs \/ Mark \/ DropResp \/ Hosts
     \/ \E rcode \in {"ok", "nx", "fail"} :
          Forward(rcode, FALSE) \/ RejectStep(rcode) \/ Blackhole(rcode)
     \/ Forward("ok", TRUE)
     \/ ForwardFails \/ TimesOut
     \/ Accept \/ Return
     \/ \E goto \in BOOLEAN : Call(goto)
     \/ Resume
  /\ touched' = (touched \/ ctx'.resp.rcode # "absent")
  /\ UNCHANGED << prog, run, aim >>

(* No more runs under the bound. *)
Done == pc = "idle" /\ run = MaxRuns /\ UNCHANGED vars

Next ==
  \/ \E c \in Clients : Arrive(c) \/ ArriveNotImp(c)
  \/ \E p \in pending : Refresh(p)
  \/ Step
  \/ Done

Spec == Init /\ [][Next]_vars

-----------------------------------------------------------------------------

(* Every variable keeps its type. *)
TypeOK ==
  /\ prog \in Programs
  /\ DOMAIN store = Cache
  /\ \A c \in Cache : \A k \in DOMAIN store[c] : k \in Query /\ store[c][k] \in Resp
  /\ pc \in {"idle", "run", "ret"} /\ ret \in {"accept", "continue"}
  /\ \A i \in DOMAIN frames : frames[i].seq \in Tag /\ frames[i].i \in Nat
  /\ ctx.query \in Query /\ ctx.original \in Query /\ ctx.resp \in Resp
  /\ ctx.rewrites \in Seq(Alias)
  /\ run \in 0 .. MaxRuns

(* The alias records lead from name n to the owner of the answer. *)
Leads(n, r) ==
  IF r.chain = << >>
    THEN r.own = n
    ELSE /\ r.chain[1][1] = n
         /\ \A i \in 1 .. Len(r.chain) - 1 : r.chain[i][2] = r.chain[i + 1][1]
         /\ r.chain[Len(r.chain)][2] = r.own

(* Configurations whose redirects cannot turn a question away from its     *)
(* answer.  Up to step n, "main" answers from caches at most, redirects    *)
(* whether it has or not, and uses no cache a second time; all other       *)
(* redirects wait for a question that has no answer.                       *)
SettledAfter(P, n) ==
  LET main == P["main"]
      sub  == P["sub"]
  IN  /\ \A i \in 1 .. n :
           /\ main[i].do \notin {"forward", "hosts", "black_hole", "reject", "call", "goto"}
           /\ main[i].do = "redirect" => main[i].when = "any"
           /\ main[i].do \in Cache => /\ \A j \in 1 .. Len(main) : main[j].do = main[i].do => j = i
                                      /\ \A j \in 1 .. Len(sub) : sub[j].do # main[i].do
      /\ \A i \in n + 1 .. Len(main) : main[i].do = "redirect" => main[i].when = "!has_resp"
      /\ \A i \in 1 .. Len(sub) : sub[i].do = "redirect" => sub[i].when = "!has_resp"

RedirectsSettle(P) == \E n \in 0 .. Len(P["main"]) : SettledAfter(P, n)

(* Steps that may answer, or run others that do. *)
Answering == Cache \cup {"forward", "hosts", "reject", "black_hole", "call", "goto"}

(* Configurations that settle the client subnet in time.  Only "main"      *)
(* deals with it: `ecs` comes before its caches, `no_ecs` before anything  *)
(* that answers, or else no cache comes after it.                          *)
EcsFirst(P) ==
  LET main == P["main"]
      sub  == P["sub"]
  IN  /\ \A i \in 1 .. Len(sub) : sub[i].do \notin {"ecs", "no_ecs"}
      /\ \A i \in 1 .. Len(main) : main[i].do = "ecs" =>
           \A j \in 1 .. i - 1 : main[j].do \notin Cache
      /\ \A i \in 1 .. Len(main) : main[i].do = "no_ecs" =>
           \/ \A j \in 1 .. i - 1 : main[j].do \notin Answering
           \/ \A j \in i + 1 .. Len(main) : main[j].do \notin Cache \cup {"call", "goto"}

(* From step i on, sequence s looks nothing up and runs no other. *)
Barren(P, s, i) == \A j \in i .. Len(P[s]) : P[s][j].do \notin Cache \cup {"call", "goto"}

(* Configurations that ask an upstream only when no cache is left to ask,  *)
(* in the sequence itself and in those that call it.                       *)
ForwardsLast(P) ==
  /\ \A s \in Tag : \A i \in 1 .. Len(P[s]) : P[s][i].do = "forward" => Barren(P, s, i + 1)
  /\ (\E i \in 1 .. Len(P["sub"]) : P["sub"][i].do = "forward") =>
       \A s \in Tag : \A i \in 1 .. Len(P[s]) : P[s][i].do = "call" => Barren(P, s, i + 1)

(* What a cache holds under a key answers that key's question, whichever   *)
(* redirects came before or after the cache step and whichever other caches *)
(* and sequences the query went through (context.rs: response_for_query;   *)
(* sequence.rs: the snapshot of each executed cache step).  Holds where    *)
(* the redirects settle and lead nowhere twice.                            *)
CachedAnswersKey ==
  \A c \in Cache : \A k \in DOMAIN store[c] :
    LET r == store[c][k]
    IN  /\ r.name = k.name /\ Leads(k.name, r)
        /\ r.edns => k.edns
        /\ ~ r.private

(* What is sent answers the question the client asked, with the aliases    *)
(* that lead from it to the answer, each once (context.rs: rewrite_name,   *)
(* finalize_response).  Whether it holds of a pipeline that redirects a    *)
(* question hosts or black_hole has answered is a question of its own:     *)
(* there the redirects do not settle.                                      *)
ReplyAnswersClient ==
  pc = "idle" /\ ctx.resp.rcode \in {"ok", "nx"} =>
    /\ ctx.resp.name = ctx.original.name
    /\ Leads(ctx.original.name, ctx.resp)

(* A client that sent no subnet never sees one in the reply, be it the     *)
(* upstream's, a cache's or an error made up on the spot (ecs.rs: exec;    *)
(* server.rs: handle).  Holds where the subnet is settled in time.         *)
EcsPrivacy ==
  pc = "idle" /\ ctx.original.ecs = "none" => ctx.resp.ecs = "none"

(* A background refresh executes the cache step it was spawned for with    *)
(* the key that was found stale, redirects, marks and ECS on the way       *)
(* notwithstanding (context.rs: clone_for_lazy; cache.rs: exec).  A hit    *)
(* that came after another answer in the same run is left out: whether the *)
(* refresh gets there depends on the matchers.  Holds where the upstreams  *)
(* are asked last.                                                         *)
RefreshFindsKey ==
  pc = "idle" /\ ctx.skip /\ aim.cache # "none" => << aim.cache, aim.key >> \in visited

(* Whatever a run writes to a cache it obtained itself: an answer found in *)
(* one cache is never written to another or back, which would give it a    *)
(* new lease of life (cache.rs: store_lookup, served_from_cache).          *)
NeverRestored ==
  [][\A c \in Cache : \A k \in DOMAIN store'[c] :
       \/ k \in DOMAIN store[c] /\ store'[c][k] = store[c][k]
       \/ store'[c][k].run = run]_vars

=============================================================================
