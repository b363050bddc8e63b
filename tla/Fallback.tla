------------------------------ MODULE Fallback ------------------------------
(***************************************************************************)
(* One request in a sequence <outer cache; fallback>.  The primary and the *)
(* secondary of the fallback are sequences <mark; cache; accept if there   *)
(* is a response; forward>, each with a cache, a mark and upstreams of its *)
(* own.  All of it runs in the request's task: BoundFallback::exec polls   *)
(* the branches, a branch's Forward polls its exchanges, and dropping a    *)
(* future drops what is below it.  What happens outside the task is that   *)
(* exchanges complete and time passes.                                     *)
(***************************************************************************)
EXTENDS Naturals

CONSTANTS Upstreams,  \* Upstreams[b]: the upstreams branch b asks, the
                      \*   first `concurrent` ones of its Forward
          Modes,      \* the values of always_standby
          Threshold,  \* ticks the primary has before the secondary is preferred
          Limit,      \* ticks an exchange has (the Forward's timeout)
          Timeout     \* ticks the listener gives the request

Branch == {"primary", "secondary"}

ASSUME FallbackAssumption ==
  /\ DOMAIN Upstreams = Branch
  /\ \A b \in Branch : Upstreams[b] # {}
  /\ Upstreams["primary"] \cap Upstreams["secondary"] = {}
  /\ Modes \subseteq BOOLEAN
  /\ Threshold \in Nat /\ Limit \in Nat /\ Timeout \in Nat

(* An answer of the type asked for; NOERROR without one; NXDOMAIN; an      *)
(* unusable rcode; for an exchange also an error, for a request none.      *)
Kind == {"wanted", "nodata", "nx", "fail", "error"}

Usable(kind) == kind \in {"wanted", "nodata", "nx"}

(* A response, and where it came from: an upstream, a branch's cache, the  *)
(* steps before the fallback, the request's own timeout.                   *)
Origin == Upstreams["primary"] \cup Upstreams["secondary"] \cup Branch \cup {"before", "none"}
Resp == [kind : (Kind \ {"error"}) \cup {"none"}, from : Origin]
None == [kind |-> "none", from |-> "none"]

Context == [resp : Resp, marks : SUBSET (Branch \cup {"before"}), served : BOOLEAN]

VARIABLES standby,  \* always_standby
          now,      \* the clock, from the start of the request
          over,     \* "race", or how the request ended
          ctx,      \* the request's context
          branch,   \* the two branches
          got,      \* history: what each upstream's exchange came to
          stored    \* what this request wrote to each cache

vars == << standby, now, over, ctx, branch, got, stored >>

(* A branch is "new" until first polled, then runs to its end or is        *)
(* "dropped".  Its Forward awaits the exchanges `waiting` and those that   *)
(* have completed, `ready`; `last` is the last unusable answer.            *)
BranchRec(U) ==
  [pc : {"off", "new", "run", "done", "dropped"}, ctx : Context, waiting : SUBSET U,
   ready : SUBSET U, last : Resp, asked : Nat, end : Nat]

(* Every variable keeps its type: in particular an exchange's error is     *)
(* never taken for a response.                                             *)
TypeOK ==
  /\ standby \in Modes
  /\ now \in 0 .. Timeout
  /\ over \in Branch \cup {"race", "timeout"}
  /\ ctx \in Context
  /\ DOMAIN branch = Branch
  /\ \A b \in Branch : branch[b] \in BranchRec(Upstreams[b])
  /\ \A b \in Branch : DOMAIN got[b] = Upstreams[b]
  /\ \A b \in Branch : \A u \in Upstreams[b] : got[b][u] \in Kind \cup {"none"}
  /\ stored \in [Branch \cup {"outer"} -> Resp]

-----------------------------------------------------------------------------
(* Contexts. *)

(* A fork that keeps what the steps so far left in the response. *)
ForkAll(c) == c

(* QueryContext::fork. *)
Fork(c) == [c EXCEPT !.resp = None, !.served = FALSE]

(* An absorb that forgets where the response came from. *)
AbsorbUnserved(c) == [c EXCEPT !.served = FALSE]

(* QueryContext::absorb of context c; nothing of the old context remains. *)
Absorb(c) == c

(* QueryContext::has_wanted_ans. *)
HasWantedAns(c) == c.resp.kind = "wanted"

(* Cache::store_lookup at the end of a sequence, of the response in c.     *)
StoreLookup(old, c) ==
  IF c.resp.kind \in {"wanted", "nodata"} /\ ~ c.served THEN c.resp ELSE old

-----------------------------------------------------------------------------

(* A branch with context c and nothing in progress. *)
Quiet(pc, c) ==
  [pc |-> pc, ctx |-> c, waiting |-> {}, ready |-> {}, last |-> None,
   asked |-> now, end |-> 0]

(* The steps before the fallback may have left a response, from a cache or *)
(* not, and a mark.                                                        *)
Init ==
  /\ standby \in Modes
  /\ now = 0
  /\ over = "race"
  /\ \E r \in {None, [kind |-> "wanted", from |-> "before"]} :
     \E s \in BOOLEAN :
       ctx = [resp |-> r, marks |-> {"before"}, served |-> s /\ r # None]
  /\ branch = [b \in Branch |-> 
       Quiet(IF b = "primary" \/ standby THEN "new" ELSE "off", Fork(ctx))]
  /\ got = [b \in Branch |-> [u \in Upstreams[b] |-> "none"]]
  /\ stored = [t \in Branch \cup {"outer"} |-> None]

(* A branch whose exchanges run on in tasks of their own. *)
DroppedDetached(r) ==
  IF r.pc \in {"done", "dropped"} THEN r ELSE [r EXCEPT !.pc = "dropped", !.end = now]

(* A branch's future is dropped, and its exchanges with it. *)
Dropped(r) ==
  IF r.pc \in {"done", "dropped"} THEN r
  ELSE [r EXCEPT !.pc = "dropped", !.waiting = {}, !.ready = {}, !.end = now]

Running(r) == r.pc \in {"new", "run"}

(* Branch b is the one to use: absorb it, drop the other, and end the      *)
(* outer sequence, which stores.                                           *)
Choose(brs, sto, b) ==
  /\ over' = b
  /\ ctx' = Absorb(brs[b].ctx)
  /\ branch' = [x \in Branch |-> Dropped(brs[x])]
  /\ stored' = [sto EXCEPT !["outer"] = StoreLookup(@, ctx')]

(* No winner yet: the branches go on as brs. *)
GoOn(brs, sto) ==
  /\ branch' = brs
  /\ stored' = sto
  /\ UNCHANGED << over, ctx >>

(* The primary is out of the race with nothing wanted: the secondary's     *)
(* result is taken if there, awaited if not, and the secondary is started  *)
(* if it is not on standby.                                                *)
FallBack(brs, sto) ==
  CASE brs["secondary"].pc = "done" -> Choose(brs, sto, "secondary")
    [] brs["secondary"].pc = "off"  ->
         GoOn([brs EXCEPT !["secondary"] = Quiet("new", Fork(ctx))], sto)
    [] OTHER -> GoOn(brs, sto)

(* A standby that is taken as soon as it has answered. *)
EndsEager(b, c) ==
  LET brs == [branch EXCEPT ![b] = [Quiet("done", c) EXCEPT !.end = now]]
      sto == [stored EXCEPT ![b] = StoreLookup(@, c)]
  IN  IF b = "secondary" \/ HasWantedAns(c) THEN Choose(brs, sto, b) ELSE FallBack(brs, sto)

(* Branch b's sequence ends with context c: it stores, and exec decides.   *)
Ends(b, c) ==
  LET brs == [branch EXCEPT ![b] = [Quiet("done", c) EXCEPT !.end = now]]
      sto == [stored EXCEPT ![b] = StoreLookup(@, c)]
  IN  CASE b = "primary" /\ HasWantedAns(c) -> Choose(brs, sto, b)
        [] b = "primary" /\ ~ HasWantedAns(c) -> FallBack(brs, sto)
        [] b = "secondary" /\ Running(branch["primary"]) -> GoOn(brs, sto)
        [] OTHER -> Choose(brs, sto, b)

(* Branch b is first polled, the primary before the secondary: it marks    *)
(* the query, then its cache answers, or its upstreams are asked.          *)
FirstPoll(b) ==
  LET c == [branch[b].ctx EXCEPT !.marks = @ \cup {b}]
  IN  /\ over = "race" /\ branch[b].pc = "new"
      /\ b = "secondary" => branch["primary"].pc # "new"
      /\ \/ \E k \in {"wanted", "nodata"} :
              Ends(b, [c EXCEPT !.resp = [kind |-> k, from |-> b], !.served = TRUE])
         \/ GoOn([branch EXCEPT ![b] = [@ EXCEPT !.pc = "run", !.ctx = c, !.asked = now,
                                                 !.waiting = Upstreams[b]]],
                 stored)
      /\ UNCHANGED << standby, now, got >>

(* An exchange of branch b completes. *)
Complete(b, u, k) ==
  /\ u \in branch[b].waiting
  /\ branch' = [branch EXCEPT ![b].waiting = @ \ {u}, ![b].ready = @ \cup {u}]
  /\ got' = [got EXCEPT ![b][u] = k]
  /\ UNCHANGED << standby, now, over, ctx, stored >>

(* A race that any answer wins. *)
WinsAny(k) == k # "error"

(* The first answer that wins the race of a Forward (is_usable_response). *)
Wins(k) == Usable(k)

(* A race that remembers errors as answers. *)
LastAny(last, resp) == resp

(* The answer to fall back on after one more unusable one, or an error. *)
LastOf(last, resp) == IF resp.kind = "error" THEN last ELSE resp

(* Forward::exec takes a completed exchange.  A usable answer ends the     *)
(* race and drops the other exchanges; when all have come to nothing the   *)
(* last unusable answer is the response, if there was one.                 *)
Take(b, u) ==
  LET r    == branch[b]
      k    == got[b][u]
      resp == [kind |-> k, from |-> u]
      last == LastOf(r.last, resp)
      left == (r.waiting \cup r.ready) \ {u}
  IN  /\ u \in r.ready
      /\ CASE Wins(k)                -> Ends(b, [r.ctx EXCEPT !.resp = resp])
           [] ~ Wins(k) /\ left = {} -> Ends(b, IF last = None THEN r.ctx
                                                ELSE [r.ctx EXCEPT !.resp = last])
           [] OTHER -> GoOn([branch EXCEPT ![b].ready = @ \ {u}, ![b].last = last], stored)
      /\ UNCHANGED << standby, now, got >>

(* A primary given all the time the request has. *)
PrimaryDueLate == Timeout

(* The primary's preference window. *)
PrimaryDue == Threshold

(* The timeout around the primary. *)
ThresholdPassed ==
  /\ Running(branch["primary"]) /\ now >= PrimaryDue
  /\ FallBack([branch EXCEPT !["primary"] = Dropped(@)], stored)
  /\ UNCHANGED << standby, now, got >>

(* The timeout around the request: SERVFAIL, nothing of it is stored.      *)
TimesOut ==
  /\ over = "race" /\ now >= Timeout
  /\ over' = "timeout"
  /\ ctx' = [ctx EXCEPT !.resp = [kind |-> "fail", from |-> "none"], !.served = FALSE]
  /\ branch' = [x \in Branch |-> Dropped(branch[x])]
  /\ UNCHANGED << standby, now, got, stored >>

(* The clock.  The task is polled when there is something to do, timers    *)
(* are punctual.                                                           *)
Tick ==
  /\ over = "race" /\ now < Timeout
  /\ Running(branch["primary"]) => now < PrimaryDue
  /\ \A b \in Branch :
       /\ branch[b].pc # "new" /\ branch[b].ready = {}
       /\ branch[b].waiting # {} => now < branch[b].asked + Limit
  /\ now' = now + 1
  /\ UNCHANGED << standby, over, ctx, branch, got, stored >>

(* The reply is on its way. *)
Replied == over # "race" /\ UNCHANGED vars

Next ==
  \/ \E b \in Branch : FirstPoll(b)
  \/ \E b \in Branch : \E u \in Upstreams[b] : (\E k \in Kind : Complete(b, u, k)) \/ Take(b, u)
  \/ ThresholdPassed \/ TimesOut \/ Tick \/ Replied

Spec == Init /\ [][Next]_vars

-----------------------------------------------------------------------------

(* The secondary's answer is used only when the primary has ended without  *)
(* a wanted answer, or its window has passed: a backup that is ready       *)
(* sooner does not preempt it (fallback.rs: the second arm of select).     *)
BackupIsLastResort ==
  over = "secondary" =>
    \/ branch["primary"].pc = "done" /\ ~ HasWantedAns(branch["primary"].ctx)
    \/ branch["primary"].pc = "dropped" /\ branch["primary"].end >= Threshold

(* With a backup that has answered, the reply is out when the primary's    *)
(* window closes (fallback.rs: the timeout is inside both arms).           *)
StandbyInTime ==
  branch["secondary"].pc = "done" /\ now > Threshold => over # "race"

(* The request goes on with the marks and the response of the branch used, *)
(* and with nothing of the other one or of a response from before          *)
(* (context.rs: fork, absorb).                                             *)
OnlyWinnerShows ==
  over \in Branch =>
    /\ ctx.marks = {"before", over}
    /\ ctx.resp.from \in Upstreams[over] \cup {over, "none"}

(* A branch is left with an unusable answer, or none, only when each of    *)
(* the upstreams it asked came to that: no SERVFAIL or REFUSED beats a     *)
(* slower answer (forward.rs: exec).                                       *)
UsableBeatsFailure ==
  \A b \in Branch :
    branch[b].pc = "done" /\ ~ Usable(branch[b].ctx.resp.kind) =>
      \A u \in Upstreams[b] : got[b][u] \in {"fail", "error"}

(* What a branch found in its cache is not written to the cache in front   *)
(* of the fallback, and a branch that was dropped writes nothing           *)
(* (context.rs: absorb of served_from_cache; sequence.rs: run).            *)
StoresOwnWork ==
  /\ stored["outer"] # None => stored["outer"].from \in Upstreams["primary"] \cup Upstreams["secondary"]
  /\ \A b \in Branch : stored[b] # None => branch[b].pc = "done" /\ ~ branch[b].ctx.served

(* Exchanges go on only for a branch that can still be used: none for a    *)
(* loser, a primary past its window or a request that is over.             *)
NoOrphans ==
  \A b \in Branch :
    branch[b].waiting \cup branch[b].ready # {} => over = "race" /\ branch[b].pc = "run"

=============================================================================
