--------------------------- MODULE FallbackProofs ---------------------------
(***************************************************************************)
(* Proofs about a request's fallback, for any upstreams, modes and times.  *)
(* The inductive invariant says of each branch what its context, its       *)
(* exchanges and its cache may be at each of its program counters, and of  *)
(* the two together who may still be running and why the one that is used  *)
(* is used.                                                                *)
(***************************************************************************)
EXTENDS Fallback, TLAPS

(* What a branch may end with: an answer of one of its upstreams, its      *)
(* cache's, or none.                                                       *)
OwnResp(b, c) ==
  /\ c.served => c.resp.from = b
  /\ ~ c.served => c.resp = None \/ c.resp.from \in Upstreams[b]

(* Every upstream outside W came to nothing. *)
Failed(b, W, g) == \A u \in Upstreams[b] \ W : g[u] \in {"fail", "error"}

(* A branch that has ended with context c. *)
EndedWith(b, c, g) ==
  /\ c \in Context /\ c.marks = {"before", b} /\ OwnResp(b, c)
  /\ ~ Usable(c.resp.kind) => Failed(b, {}, g)

(* Branch b as r, its exchanges' results g, what it has stored w. *)
BranchInv(b, r, g, w) ==
  /\ r \in BranchRec(Upstreams[b])
  /\ r.pc \in {"off", "new"} => r.ctx.marks = {"before"} /\ r.last = None
  /\ r.pc = "run" => /\ r.ctx.marks = {"before", b}
                     /\ r.last = None \/ (r.last.kind = "fail" /\ r.last.from \in Upstreams[b])
                     /\ Failed(b, r.waiting \cup r.ready, g)
                     /\ \A u \in r.ready : g[u] \in Kind
  /\ r.pc \in {"off", "new", "run"} => r.ctx.resp = None /\ ~ r.ctx.served
  /\ r.pc # "run" => r.waiting = {} /\ r.ready = {}
  /\ r.pc = "done" => EndedWith(b, r.ctx, g) /\ (w # None => ~ r.ctx.served)
  /\ r.pc # "done" => w = None

(* The race of p and s, at time n. *)
RaceInv(o, p, s, n) ==
  /\ p.pc # "off"
  /\ Running(p) => n <= Threshold
  /\ o = "race" => /\ p.pc = "done" => ~ HasWantedAns(p.ctx)
                   /\ p.pc = "dropped" => p.end >= Threshold
                   /\ s.pc = "done" => Running(p)
  /\ o # "race" => p.pc \in {"done", "dropped"} /\ s.pc \in {"done", "dropped"}
  /\ o = "secondary" => \/ p.pc = "done" /\ ~ HasWantedAns(p.ctx)
                        \/ p.pc = "dropped" /\ p.end >= Threshold

(* The request's context and the cache in front of the fallback. *)
CtxInv(o, c, brs, w) ==
  /\ o = "race" => c.marks = {"before"} /\ w = None
  /\ o \in Branch => brs[o].pc = "done" /\ c = brs[o].ctx
  /\ w # None => w.from \in Upstreams["primary"] \cup Upstreams["secondary"]

IInv ==
  /\ TypeOK /\ DOMAIN got = Branch
  /\ \A b \in Branch : BranchInv(b, branch[b], got[b], stored[b])
  /\ RaceInv(over, branch["primary"], branch["secondary"], now)
  /\ CtxInv(over, ctx, branch, stored["outer"])

(* The branches as brs and the caches as sto, in the middle of a step. *)
Sound(brs, sto) ==
  /\ DOMAIN brs = Branch
  /\ sto \in [Branch \cup {"outer"} -> Resp] /\ sto["outer"] = None
  /\ \A b \in Branch : BranchInv(b, brs[b], got[b], sto[b])

(* The primary is out of the race, for a reason. *)
GivenUp(p) ==
  \/ p.pc = "done" /\ ~ HasWantedAns(p.ctx)
  \/ p.pc = "dropped" /\ p.end >= Threshold

-----------------------------------------------------------------------------
(* Contexts and branches. *)

LEMMA Names ==
  /\ Branch = {"primary", "secondary"}
  /\ "outer" \notin Branch /\ "race" \notin Branch /\ "timeout" \notin Branch
  /\ None \in Resp
  BY DEF Branch, None, Resp, Origin

LEMMA ForkInv ==
  ASSUME NEW c \in Context
  PROVE  /\ Fork(c) \in Context
         /\ Fork(c).resp = None /\ ~ Fork(c).served /\ Fork(c).marks = c.marks
<1>1. PICK f : f = Fork(c)
  OBVIOUS
<1>2. PICK n \in Resp : n = None
  BY Names
<1>3. f = [c EXCEPT !.resp = n, !.served = FALSE]
  BY <1>1, <1>2 DEF Fork
<1>4. f \in Context /\ f.resp = n /\ f.served = FALSE /\ f.marks = c.marks
  BY <1>3 DEF Context
<1>5. QED
  BY <1>1, <1>2, <1>4

LEMMA StoreType ==
  ASSUME NEW w \in Resp, NEW c \in Context
  PROVE  StoreLookup(w, c) \in Resp
  BY DEF StoreLookup, Context

(* A branch that has not been polled, or has ended. *)
LEMMA QuietInv ==
  ASSUME NEW b \in Branch, NEW c \in Context, NEW pc \in {"off", "new", "done"}, NEW e \in Nat,
         now \in Nat
  PROVE  /\ [Quiet(pc, c) EXCEPT !.end = e] \in BranchRec(Upstreams[b])
         /\ [Quiet(pc, c) EXCEPT !.end = e].pc = pc
         /\ [Quiet(pc, c) EXCEPT !.end = e].ctx = c
         /\ [Quiet(pc, c) EXCEPT !.end = e].waiting = {}
         /\ [Quiet(pc, c) EXCEPT !.end = e].ready = {}
         /\ [Quiet(pc, c) EXCEPT !.end = e].last = None
         /\ Quiet(pc, c) = [Quiet(pc, c) EXCEPT !.end = 0]
<1>1. \A n \in Nat : [Quiet(pc, c) EXCEPT !.end = n] =
        [pc |-> pc, ctx |-> c, waiting |-> {}, ready |-> {}, last |-> None,
         asked |-> now, end |-> n]
  BY DEF Quiet
<1>2. Quiet(pc, c) = [Quiet(pc, c) EXCEPT !.end = 0]
  BY DEF Quiet
<1>3. PICK q : q = [Quiet(pc, c) EXCEPT !.end = e]
  OBVIOUS
<1>4. PICK n \in Resp : n = None
  BY Names
<1>5. q = [pc |-> pc, ctx |-> c, waiting |-> {}, ready |-> {}, last |-> n,
           asked |-> now, end |-> e]
  BY <1>1, <1>3, <1>4
<1>6. /\ q \in BranchRec(Upstreams[b]) /\ q.pc = pc /\ q.ctx = c
      /\ q.waiting = {} /\ q.ready = {} /\ q.last = n
  BY <1>5 DEF BranchRec
<1>7. QED
  BY <1>2, <1>3, <1>4, <1>6

LEMMA DroppedInv ==
  ASSUME NEW b \in Branch, NEW r, NEW g, NEW w, BranchInv(b, r, g, w), now \in Nat
  PROVE  /\ BranchInv(b, Dropped(r), g, w)
         /\ Dropped(r).pc \in {"done", "dropped"}
         /\ r.pc \in {"done", "dropped"} => Dropped(r) = r
         /\ r.pc \notin {"done", "dropped"} => Dropped(r).pc = "dropped" /\ Dropped(r).end = now
<1>1. CASE r.pc \in {"done", "dropped"}
  <2>1. Dropped(r) = r
    BY <1>1 DEF Dropped
  <2>2. QED
    BY <1>1, <2>1
<1>2. CASE r.pc \notin {"done", "dropped"}
  <2>1. r \in BranchRec(Upstreams[b])
    BY DEF BranchInv
  <2>2. PICK d : d = Dropped(r)
    OBVIOUS
  <2>3. d = [r EXCEPT !.pc = "dropped", !.waiting = {}, !.ready = {}, !.end = now]
    BY <1>2, <2>2 DEF Dropped
  <2>4. /\ d \in BranchRec(Upstreams[b])
        /\ d.pc = "dropped" /\ d.waiting = {} /\ d.ready = {} /\ d.end = now
    BY <2>1, <2>3 DEF BranchRec
  <2>5. w = None
    BY <1>2 DEF BranchInv
  <2>6. BranchInv(b, d, g, w)
    BY <2>4, <2>5 DEF BranchInv
  <2>7. QED
    BY <1>2, <2>2, <2>4, <2>6
<1>3. QED
  BY <1>1, <1>2

-----------------------------------------------------------------------------
(* How a step of BoundFallback::exec ends. *)

LEMMA ChooseInv ==
  ASSUME IInv, over = "race", NEW brs, NEW sto, Sound(brs, sto), NEW b \in Branch,
         brs[b].pc = "done", brs["primary"].pc # "off",
         b = "secondary" => GivenUp(brs["primary"]),
         Choose(brs, sto, b), UNCHANGED << standby, now, got >>
  PROVE  IInv'
<1>1. now \in Nat /\ TypeOK /\ "primary" \in Branch /\ "secondary" \in Branch
  BY FallbackAssumption DEF IInv, TypeOK, Branch
<1>2. PICK d : d = [x \in Branch |-> Dropped(brs[x])]
  OBVIOUS
<1>3. /\ branch' = d /\ over' = b /\ ctx' = brs[b].ctx
      /\ stored' = [sto EXCEPT !["outer"] = StoreLookup(None, brs[b].ctx)]
  BY <1>2 DEF Choose, Absorb, Sound
<1>4. \A x \in Branch : /\ BranchInv(x, d[x], got[x], sto[x])
                        /\ d[x].pc \in {"done", "dropped"}
                        /\ brs[x].pc \in {"done", "dropped"} => d[x] = brs[x]
  BY <1>1, <1>2, DroppedInv DEF Sound
<1>5. d[b] = brs[b]
  BY <1>4
<1>6. EndedWith(b, brs[b].ctx, got[b]) /\ brs[b].ctx \in Context
  BY DEF Sound, BranchInv, EndedWith
<1>7. PICK w \in Resp : w = StoreLookup(None, brs[b].ctx)
  BY <1>6, StoreType, Names
<1>8. w # None => w.from \in Upstreams["primary"] \cup Upstreams["secondary"]
  <2>1. SUFFICES ASSUME w # None PROVE w.from \in Upstreams["primary"] \cup Upstreams["secondary"]
    OBVIOUS
  <2>2. w = brs[b].ctx.resp /\ ~ brs[b].ctx.served
    BY <2>1, <1>7 DEF StoreLookup
  <2>3. w.from \in Upstreams[b]
    BY <2>1, <2>2, <1>6 DEF EndedWith, OwnResp
  <2>4. QED
    BY <2>3, Names
<1>9. /\ stored' \in [Branch \cup {"outer"} -> Resp] /\ stored'["outer"] = w
      /\ \A x \in Branch : stored'[x] = sto[x]
  BY <1>3, <1>7, Names DEF Sound
<1>10. \A x \in Branch : BranchInv(x, branch'[x], got'[x], stored'[x])
  BY <1>3, <1>4, <1>9
<1>11. RaceInv(over', branch'["primary"], branch'["secondary"], now')
  <2>1. d["primary"].pc \in {"done", "dropped"} /\ d["secondary"].pc \in {"done", "dropped"}
    BY <1>1, <1>4
  <2>2. b = "secondary" => GivenUp(d["primary"])
    BY <1>1, <1>4 DEF GivenUp
  <2>3. b # "race"
    BY Names
  <2>4. QED
    BY <1>3, <2>1, <2>2, <2>3 DEF RaceInv, GivenUp, Running
<1>12. CtxInv(over', ctx', branch', stored'["outer"])
  BY <1>3, <1>5, <1>8, <1>9, Names DEF CtxInv
<1>13. TypeOK' /\ DOMAIN got' = Branch
  <2>1. DOMAIN branch' = Branch /\ \A x \in Branch : branch'[x] \in BranchRec(Upstreams[x])
    BY <1>2, <1>3, <1>10 DEF BranchInv
  <2>2. over' \in Branch /\ ctx' \in Context
    BY <1>3, <1>6
  <2>3. QED
    BY <1>1, <1>9, <2>1, <2>2 DEF TypeOK, IInv
<1>14. QED
  BY <1>10, <1>11, <1>12, <1>13 DEF IInv

LEMMA GoOnInv ==
  ASSUME IInv, over = "race", NEW brs, NEW sto, Sound(brs, sto),
         RaceInv("race", brs["primary"], brs["secondary"], now),
         GoOn(brs, sto), UNCHANGED << standby, now, got >>
  PROVE  IInv'
<1>1. branch' = brs /\ stored' = sto /\ over' = over /\ ctx' = ctx
  BY DEF GoOn
<1>2. \A x \in Branch : BranchInv(x, branch'[x], got'[x], stored'[x])
  BY <1>1 DEF Sound
<1>3. RaceInv(over', branch'["primary"], branch'["secondary"], now')
  BY <1>1
<1>4. CtxInv(over', ctx', branch', stored'["outer"])
  BY <1>1, Names DEF CtxInv, IInv, Sound
<1>5. TypeOK' /\ DOMAIN got' = Branch
  BY <1>1, <1>2 DEF TypeOK, IInv, Sound, BranchInv
<1>6. QED
  BY <1>2, <1>3, <1>4, <1>5 DEF IInv

LEMMA FallBackInv ==
  ASSUME IInv, over = "race", NEW brs, NEW sto, Sound(brs, sto), GivenUp(brs["primary"]),
         FallBack(brs, sto), UNCHANGED << standby, now, got >>
  PROVE  IInv'
<1>1. brs["primary"].pc \in {"done", "dropped"} /\ ~ Running(brs["primary"])
  BY DEF GivenUp, Running
<1>2. now \in Nat /\ ctx \in Context /\ ctx.marks = {"before"} /\ "secondary" \in Branch
  BY FallbackAssumption DEF IInv, TypeOK, CtxInv, Branch
<1>3. CASE brs["secondary"].pc = "done"
  <2>1. Choose(brs, sto, "secondary")
    BY <1>3 DEF FallBack
  <2>2. QED
    BY <2>1, <1>1, <1>2, <1>3, ChooseInv
<1>4. CASE brs["secondary"].pc = "off"
  <2>1. PICK f \in Context : f = Fork(ctx) /\ f.resp = None /\ ~ f.served /\ f.marks = {"before"}
    BY <1>2, ForkInv
  <2>2. PICK r : r = Quiet("new", f)
    OBVIOUS
  <2>3. /\ r \in BranchRec(Upstreams["secondary"]) /\ r.pc = "new" /\ r.ctx = f
        /\ r.waiting = {} /\ r.ready = {} /\ r.last = None
    <3>1. PICK q : q = [Quiet("new", f) EXCEPT !.end = 0]
      OBVIOUS
    <3>2. /\ q \in BranchRec(Upstreams["secondary"]) /\ q.pc = "new" /\ q.ctx = f
          /\ q.waiting = {} /\ q.ready = {} /\ q.last = None /\ Quiet("new", f) = q
      BY <3>1, <1>2, QuietInv
    <3>3. QED
      BY <2>2, <3>2
  <2>4. PICK brs2 : brs2 = [brs EXCEPT !["secondary"] = r]
    OBVIOUS
  <2>5. GoOn(brs2, sto)
    BY <1>4, <2>1, <2>2, <2>4 DEF FallBack
  <2>6. /\ DOMAIN brs2 = Branch /\ brs2["secondary"] = r
        /\ brs2["primary"] = brs["primary"]
    BY <2>4, Names DEF Sound
  <2>7. BranchInv("secondary", r, got["secondary"], sto["secondary"])
    <3>1. sto["secondary"] = None
      BY <1>2, <1>4 DEF Sound, BranchInv
    <3>2. QED
      BY <3>1, <2>1, <2>3 DEF BranchInv
  <2>8. Sound(brs2, sto)
    BY <2>6, <2>7, Names DEF Sound
  <2>9. RaceInv("race", brs2["primary"], brs2["secondary"], now)
    BY <2>3, <2>6, <1>1 DEF RaceInv, GivenUp
  <2>10. QED
    BY <2>5, <2>8, <2>9, GoOnInv
<1>5. CASE brs["secondary"].pc \notin {"done", "off"}
  <2>1. GoOn(brs, sto)
    BY <1>5 DEF FallBack
  <2>2. RaceInv("race", brs["primary"], brs["secondary"], now)
    BY <1>1, <1>5 DEF RaceInv, GivenUp
  <2>3. QED
    BY <2>1, <2>2, GoOnInv
<1>6. QED
  BY <1>3, <1>4, <1>5

LEMMA EndsInv ==
  ASSUME IInv, over = "race", NEW b \in Branch, NEW c, Running(branch[b]),
         EndedWith(b, c, got[b]), Ends(b, c), UNCHANGED << standby, now, got >>
  PROVE  IInv'
<1>1. PICK q, v : q = [Quiet("done", c) EXCEPT !.end = now] /\ v = StoreLookup(stored[b], c)
  OBVIOUS
<1>2. PICK brs, sto : brs = [branch EXCEPT ![b] = q] /\ sto = [stored EXCEPT ![b] = v]
  OBVIOUS
<1>3. brs = [branch EXCEPT ![b] = [Quiet("done", c) EXCEPT !.end = now]]
  BY <1>1, <1>2
<1>4. sto = [stored EXCEPT ![b] = StoreLookup(@, c)]
  BY <1>1, <1>2
<1>5. /\ Sound(brs, sto)
      /\ brs[b].pc = "done" /\ brs[b].ctx = c
      /\ \A x \in Branch : x # b => brs[x] = branch[x]
  <2>1. now \in Nat /\ c \in Context /\ TypeOK
    BY FallbackAssumption DEF IInv, TypeOK, EndedWith
  <2>3. q \in BranchRec(Upstreams[b]) /\ q.pc = "done" /\ q.ctx = c /\ q.waiting = {} /\ q.ready = {}
    BY <2>1, <1>1, QuietInv
  <2>4. stored[b] = None /\ stored["outer"] = None
    BY DEF IInv, BranchInv, Running, CtxInv
  <2>5. v \in Resp /\ v = StoreLookup(None, c)
    BY <1>1, <2>1, <2>4, StoreType, Names
  <2>6. v # None => ~ c.served
    BY <2>5 DEF StoreLookup
  <2>7. BranchInv(b, q, got[b], v)
    BY <2>3, <2>6 DEF BranchInv
  <2>8. /\ DOMAIN brs = Branch /\ brs[b] = q
        /\ \A x \in Branch : x # b => brs[x] = branch[x]
    BY <1>2, <2>1 DEF TypeOK
  <2>9. /\ sto \in [Branch \cup {"outer"} -> Resp] /\ sto[b] = v /\ sto["outer"] = None
        /\ \A x \in Branch : x # b => sto[x] = stored[x]
    BY <1>2, <2>1, <2>4, <2>5, Names DEF TypeOK
  <2>10. \A x \in Branch : BranchInv(x, brs[x], got[x], sto[x])
    BY <2>7, <2>8, <2>9 DEF IInv
  <2>11. QED
    BY <2>3, <2>8, <2>9, <2>10 DEF Sound
<1>6. RaceInv("race", branch["primary"], branch["secondary"], now)
  BY DEF IInv
<1>7. "primary" \in Branch /\ "secondary" \in Branch /\ (b = "primary" \/ b = "secondary")
  BY Names
<1>8. CASE b = "primary" /\ HasWantedAns(c)
  <2>1. Choose(brs, sto, b)
    BY <1>3, <1>4, <1>8 DEF Ends
  <2>2. QED
    BY <2>1, <1>5, <1>8, ChooseInv
<1>9. CASE b = "primary" /\ ~ HasWantedAns(c)
  <2>1. FallBack(brs, sto)
    BY <1>3, <1>4, <1>9 DEF Ends
  <2>2. GivenUp(brs["primary"])
    BY <1>5, <1>9 DEF GivenUp
  <2>3. QED
    BY <2>1, <2>2, <1>5, FallBackInv
<1>10. CASE b = "secondary" /\ Running(branch["primary"])
  <2>1. GoOn(brs, sto)
    BY <1>3, <1>4, <1>10 DEF Ends
  <2>2. RaceInv("race", brs["primary"], brs["secondary"], now)
    BY <1>5, <1>6, <1>7, <1>10 DEF RaceInv, Running
  <2>3. QED
    BY <2>1, <2>2, <1>5, GoOnInv
<1>11. CASE b = "secondary" /\ ~ Running(branch["primary"])
  <2>1. Choose(brs, sto, b)
    BY <1>3, <1>4, <1>11 DEF Ends
  <2>2. branch["primary"].pc \in {"off", "new", "run", "done", "dropped"}
    BY <1>7 DEF IInv, TypeOK, BranchRec
  <2>3. GivenUp(branch["primary"]) /\ branch["primary"].pc # "off"
    BY <2>2, <1>6, <1>11 DEF GivenUp, RaceInv, Running
  <2>4. brs["primary"] = branch["primary"]
    BY <1>5, <1>7, <1>11
  <2>5. QED
    BY <2>1, <2>3, <2>4, <1>5, ChooseInv
<1>12. QED
  BY <1>7, <1>8, <1>9, <1>10, <1>11

-----------------------------------------------------------------------------
(* The actions. *)

LEMMA FirstPollInv ==
  ASSUME IInv, NEW b \in Branch, FirstPoll(b)
  PROVE  IInv'
<1>1. /\ TypeOK /\ over = "race" /\ branch[b].pc = "new" /\ UNCHANGED << standby, now, got >>
      /\ Running(branch[b]) /\ now \in Nat
  BY FallbackAssumption DEF FirstPoll, Running, IInv, TypeOK
<1>2. PICK r \in BranchRec(Upstreams[b]) : r = branch[b]
  BY <1>1 DEF TypeOK
<1>3. BranchInv(b, r, got[b], stored[b]) /\ r.pc = "new"
  BY <1>1, <1>2 DEF IInv
<1>4. r.ctx \in Context /\ r.ctx.marks = {"before"} /\ r.ctx.resp = None /\ ~ r.ctx.served
      /\ r.last = None /\ r.waiting = {} /\ r.ready = {} /\ stored[b] = None
  BY <1>2, <1>3 DEF BranchInv, BranchRec
<1>5. PICK c : c = [r.ctx EXCEPT !.marks = @ \cup {b}]
  OBVIOUS
<1>6. c \in Context /\ c.marks = {"before", b} /\ c.resp = None /\ ~ c.served
  BY <1>4, <1>5 DEF Context
<1>7. ASSUME NEW k \in {"wanted", "nodata"},
             Ends(b, [c EXCEPT !.resp = [kind |-> k, from |-> b], !.served = TRUE])
      PROVE  IInv'
  <2>1. PICK p : p = [kind |-> k, from |-> b]
    OBVIOUS
  <2>2. p \in Resp /\ p.kind = k /\ p.from = b
    BY <2>1 DEF Resp, Kind, Origin
  <2>3. PICK e : e = [c EXCEPT !.resp = p, !.served = TRUE]
    OBVIOUS
  <2>4. e \in Context /\ e.marks = {"before", b} /\ e.resp = p /\ e.served
    BY <2>2, <2>3, <1>6 DEF Context
  <2>5. EndedWith(b, e, got[b])
    BY <2>2, <2>4 DEF EndedWith, OwnResp, Usable
  <2>6. QED
    BY <1>1, <1>7, <2>1, <2>3, <2>5, EndsInv
<1>8. ASSUME NEW brs,
             brs = [branch EXCEPT ![b] = [@ EXCEPT !.pc = "run", !.ctx = c, !.asked = now,
                                                   !.waiting = Upstreams[b]]],
             GoOn(brs, stored)
      PROVE  IInv'
  <2>1. PICK q : q = [r EXCEPT !.pc = "run", !.ctx = c, !.asked = now, !.waiting = Upstreams[b]]
    OBVIOUS
  <2>2. /\ q \in BranchRec(Upstreams[b]) /\ q.pc = "run" /\ q.ctx = c /\ q.last = None
        /\ q.waiting = Upstreams[b] /\ q.ready = {}
    BY <2>1, <1>1, <1>4, <1>6 DEF BranchRec
  <2>3. BranchInv(b, q, got[b], stored[b])
    BY <2>2, <1>4, <1>6 DEF BranchInv, Failed
  <2>4. DOMAIN brs = Branch /\ brs[b] = q /\ \A x \in Branch : x # b => brs[x] = branch[x]
    BY <1>1, <1>2, <1>8, <2>1 DEF TypeOK
  <2>5. Sound(brs, stored)
    BY <1>1, <2>3, <2>4 DEF Sound, IInv, TypeOK, CtxInv
  <2>6. RaceInv("race", branch["primary"], branch["secondary"], now)
    BY <1>1 DEF IInv
  <2>7. RaceInv("race", brs["primary"], brs["secondary"], now)
    <3>1. CASE b = "primary"
      BY <3>1, <2>2, <2>4, <2>6, <1>1, Names DEF RaceInv, Running
    <3>2. CASE b = "secondary"
      BY <3>2, <2>2, <2>4, <2>6, <1>1, Names DEF RaceInv, Running
    <3>3. QED
      BY <3>1, <3>2, Names
  <2>8. QED
    BY <1>1, <1>8, <2>5, <2>7, GoOnInv
<1>9. QED
  BY <1>2, <1>5, <1>7, <1>8 DEF FirstPoll

LEMMA CompleteInv ==
  ASSUME IInv, NEW b \in Branch, NEW u \in Upstreams[b], NEW k \in Kind, Complete(b, u, k)
  PROVE  IInv'
<1>1. TypeOK /\ DOMAIN got = Branch /\ u \in branch[b].waiting
      /\ UNCHANGED << standby, now, over, ctx, stored >>
  BY DEF Complete, IInv
<1>2. PICK r \in BranchRec(Upstreams[b]) : r = branch[b]
  BY <1>1 DEF TypeOK
<1>3. BranchInv(b, r, got[b], stored[b]) /\ r.pc = "run"
  BY <1>1, <1>2 DEF IInv, BranchInv
<1>4. PICK q : q = [r EXCEPT !.waiting = @ \ {u}, !.ready = @ \cup {u}]
  OBVIOUS
<1>5. /\ q \in BranchRec(Upstreams[b]) /\ q.pc = "run" /\ q.ctx = r.ctx /\ q.last = r.last
      /\ q.waiting = r.waiting \ {u} /\ q.ready = r.ready \cup {u} /\ q.end = r.end
  BY <1>3, <1>4 DEF BranchRec
<1>6. /\ DOMAIN branch' = Branch /\ branch'[b] = q
      /\ \A x \in Branch : x # b => branch'[x] = branch[x]
  BY <1>1, <1>2, <1>4 DEF Complete, TypeOK
<1>7. PICK g : g = [got[b] EXCEPT ![u] = k]
  OBVIOUS
<1>8. got' = [got EXCEPT ![b] = g]
  BY <1>7 DEF Complete
<1>9. DOMAIN got' = Branch /\ got'[b] = g /\ \A x \in Branch : x # b => got'[x] = got[x]
  BY <1>1, <1>8
<1>10. DOMAIN g = Upstreams[b] /\ \A v \in Upstreams[b] : g[v] = IF v = u THEN k ELSE got[b][v]
  BY <1>1, <1>7 DEF TypeOK
<1>11. BranchInv(b, q, g, stored[b])
  <2>1. /\ r.ctx.marks = {"before", b} /\ r.ctx.resp = None /\ ~ r.ctx.served /\ stored[b] = None
        /\ r.last = None \/ (r.last.kind = "fail" /\ r.last.from \in Upstreams[b])
        /\ Failed(b, r.waiting \cup r.ready, got[b]) /\ \A v \in r.ready : got[b][v] \in Kind
    BY <1>3 DEF BranchInv
  <2>2. Failed(b, q.waiting \cup q.ready, g)
    BY <1>1, <1>2, <1>5, <1>10, <2>1 DEF Failed
  <2>3. \A v \in q.ready : g[v] \in Kind
    BY <1>2, <1>5, <1>10, <2>1 DEF BranchRec
  <2>4. QED
    BY <1>5, <2>1, <2>2, <2>3 DEF BranchInv
<1>12. \A x \in Branch : BranchInv(x, branch'[x], got'[x], stored'[x])
  BY <1>1, <1>6, <1>9, <1>11 DEF IInv
<1>13. RaceInv(over', branch'["primary"], branch'["secondary"], now')
  <2>1. RaceInv(over, branch["primary"], branch["secondary"], now)
    BY DEF IInv
  <2>2. CASE b = "primary"
    BY <2>1, <2>2, <1>1, <1>2, <1>3, <1>5, <1>6, Names DEF RaceInv, Running
  <2>3. CASE b = "secondary"
    BY <2>1, <2>3, <1>1, <1>2, <1>3, <1>5, <1>6, Names DEF RaceInv, Running
  <2>4. QED
    BY <2>2, <2>3, Names
<1>14. CtxInv(over', ctx', branch', stored'["outer"])
  <2>1. CtxInv(over, ctx, branch, stored["outer"])
    BY DEF IInv
  <2>2. over \in Branch => branch'[over] = branch[over]
    BY <2>1, <1>2, <1>3, <1>6 DEF CtxInv
  <2>3. QED
    BY <2>1, <2>2, <1>1 DEF CtxInv
<1>15. TypeOK'
  <2>1. \A x \in Branch : branch'[x] \in BranchRec(Upstreams[x])
    BY <1>12 DEF BranchInv
  <2>2. /\ \A x \in Branch : DOMAIN got'[x] = Upstreams[x]
        /\ \A x \in Branch : \A v \in Upstreams[x] : got'[x][v] \in Kind \cup {"none"}
    BY <1>1, <1>9, <1>10 DEF TypeOK
  <2>3. QED
    BY <1>1, <1>6, <2>1, <2>2 DEF TypeOK
<1>16. QED
  BY <1>9, <1>12, <1>13, <1>14, <1>15 DEF IInv

LEMMA TakeInv ==
  ASSUME IInv, NEW b \in Branch, NEW u \in Upstreams[b], Take(b, u)
  PROVE  IInv'
<1>1. TypeOK /\ u \in branch[b].ready /\ UNCHANGED << standby, now, got >>
  BY DEF Take, IInv
<1>2. PICK r \in BranchRec(Upstreams[b]) : r = branch[b]
  BY <1>1 DEF TypeOK
<1>3. BranchInv(b, r, got[b], stored[b]) /\ r.pc = "run" /\ Running(branch[b])
  BY <1>1, <1>2 DEF IInv, BranchInv, Running
<1>4. RaceInv(over, branch["primary"], branch["secondary"], now)
  BY DEF IInv
<1>5. over = "race"
  BY <1>2, <1>3, <1>4, Names DEF RaceInv
<1>6. /\ r.ctx \in Context /\ r.ctx.marks = {"before", b} /\ r.ctx.resp = None /\ ~ r.ctx.served
      /\ stored[b] = None /\ r.last \in Resp
      /\ r.last = None \/ (r.last.kind = "fail" /\ r.last.from \in Upstreams[b])
      /\ Failed(b, r.waiting \cup r.ready, got[b]) /\ \A v \in r.ready : got[b][v] \in Kind
  BY <1>2, <1>3 DEF BranchInv, BranchRec
<1>7. PICK k \in Kind : k = got[b][u]
  BY <1>1, <1>2, <1>6
<1>8. PICK p : p = [kind |-> k, from |-> u]
  OBVIOUS
<1>9. p.kind = k /\ p.from = u /\ (k # "error" => p \in Resp)
  BY <1>8, Names DEF Resp, Origin
<1>10. PICK l : l = LastOf(r.last, p)
  OBVIOUS
<1>11. PICK left : left = (r.waiting \cup r.ready) \ {u}
  OBVIOUS
<1>12. ASSUME ~ Wins(k)
       PROVE  /\ k \in {"fail", "error"} /\ Failed(b, left, got[b]) /\ l \in Resp
              /\ l = None \/ (l.kind = "fail" /\ l.from \in Upstreams[b])
  <2>1. k \in {"fail", "error"}
    BY <1>12 DEF Wins, Usable, Kind
  <2>2. Failed(b, left, got[b])
    BY <2>1, <1>6, <1>7, <1>11 DEF Failed
  <2>3. l \in Resp /\ (l = None \/ (l.kind = "fail" /\ l.from \in Upstreams[b]))
    BY <2>1, <1>6, <1>9, <1>10 DEF LastOf
  <2>4. QED
    BY <2>1, <2>2, <2>3
<1>13. CASE Wins(k)
  <2>1. PICK c : c = [r.ctx EXCEPT !.resp = p]
    OBVIOUS
  <2>2. k # "error" /\ Usable(k)
    BY <1>13 DEF Wins, Usable
  <2>3. c \in Context /\ c.marks = {"before", b} /\ c.resp = p /\ ~ c.served
    BY <2>1, <2>2, <1>6, <1>9 DEF Context
  <2>4. EndedWith(b, c, got[b])
    BY <2>2, <2>3, <1>9 DEF EndedWith, OwnResp
  <2>5. Ends(b, c)
    BY <2>1, <1>2, <1>7, <1>8, <1>13 DEF Take
  <2>6. QED
    BY <2>4, <2>5, <1>1, <1>3, <1>5, EndsInv
<1>14. CASE ~ Wins(k) /\ left = {}
  <2>1. PICK c : c = IF l = None THEN r.ctx ELSE [r.ctx EXCEPT !.resp = l]
    OBVIOUS
  <2>2. c \in Context /\ c.marks = {"before", b} /\ c.resp = l /\ ~ c.served
    <3>1. CASE l = None
      BY <3>1, <2>1, <1>6
    <3>2. CASE l # None
      BY <3>2, <2>1, <1>6, <1>12, <1>14 DEF Context
    <3>3. QED
      BY <3>1, <3>2
  <2>3. Failed(b, {}, got[b])
    BY <1>12, <1>14
  <2>4. EndedWith(b, c, got[b])
    BY <2>2, <2>3, <1>12, <1>14 DEF EndedWith, OwnResp
  <2>5. Ends(b, c)
    BY <2>1, <1>2, <1>7, <1>8, <1>10, <1>11, <1>14 DEF Take
  <2>6. QED
    BY <2>4, <2>5, <1>1, <1>3, <1>5, EndsInv
<1>15. CASE ~ Wins(k) /\ left # {}
  <2>1. PICK brs : brs = [branch EXCEPT ![b].ready = @ \ {u}, ![b].last = l]
    OBVIOUS
  <2>2. GoOn(brs, stored)
    BY <2>1, <1>2, <1>7, <1>8, <1>10, <1>11, <1>15 DEF Take
  <2>3. PICK q : q = [r EXCEPT !.ready = @ \ {u}, !.last = l]
    OBVIOUS
  <2>4. /\ q \in BranchRec(Upstreams[b]) /\ q.pc = "run" /\ q.ctx = r.ctx /\ q.last = l
        /\ q.waiting = r.waiting /\ q.ready = r.ready \ {u} /\ q.end = r.end
    BY <2>3, <1>3, <1>12, <1>15 DEF BranchRec
  <2>5. DOMAIN brs = Branch /\ brs[b] = q /\ \A x \in Branch : x # b => brs[x] = branch[x]
    BY <2>1, <2>3, <1>1, <1>2 DEF TypeOK
  <2>6. Failed(b, q.waiting \cup q.ready, got[b])
    BY <2>4, <1>6, <1>7, <1>12, <1>15 DEF Failed
  <2>7. BranchInv(b, q, got[b], stored[b])
    BY <2>4, <2>6, <1>6, <1>12, <1>15 DEF BranchInv
  <2>8. Sound(brs, stored)
    BY <1>1, <1>5, <2>5, <2>7 DEF Sound, IInv, TypeOK, CtxInv
  <2>9. RaceInv("race", brs["primary"], brs["secondary"], now)
    <3>1. CASE b = "primary"
      BY <3>1, <2>4, <2>5, <1>2, <1>3, <1>4, <1>5, Names DEF RaceInv, Running
    <3>2. CASE b = "secondary"
      BY <3>2, <2>4, <2>5, <1>2, <1>3, <1>4, <1>5, Names DEF RaceInv, Running
    <3>3. QED
      BY <3>1, <3>2, Names
  <2>10. QED
    BY <1>1, <1>5, <2>2, <2>8, <2>9, GoOnInv
<1>16. QED
  BY <1>13, <1>14, <1>15

LEMMA ThresholdPassedInv ==
  ASSUME IInv, ThresholdPassed
  PROVE  IInv'
<1>1. /\ TypeOK /\ Running(branch["primary"]) /\ now >= Threshold
      /\ UNCHANGED << standby, now, got >> /\ now \in Nat /\ "primary" \in Branch
  BY FallbackAssumption DEF ThresholdPassed, PrimaryDue, IInv, TypeOK, Branch
<1>2. over = "race"
  BY <1>1 DEF IInv, RaceInv, Running
<1>3. PICK d : d = Dropped(branch["primary"])
  OBVIOUS
<1>4. /\ BranchInv("primary", d, got["primary"], stored["primary"])
      /\ d.pc = "dropped" /\ d.end = now
  <2>1. branch["primary"].pc \notin {"done", "dropped"}
    BY <1>1 DEF Running
  <2>2. QED
    BY <2>1, <1>1, <1>3, DroppedInv DEF IInv
<1>5. PICK brs : brs = [branch EXCEPT !["primary"] = d]
  OBVIOUS
<1>6. FallBack(brs, stored)
  BY <1>3, <1>5 DEF ThresholdPassed
<1>7. /\ DOMAIN brs = Branch /\ brs["primary"] = d
      /\ \A x \in Branch : x # "primary" => brs[x] = branch[x]
  BY <1>1, <1>5 DEF TypeOK
<1>8. Sound(brs, stored)
  BY <1>1, <1>2, <1>4, <1>7 DEF Sound, IInv, TypeOK, CtxInv
<1>9. GivenUp(brs["primary"])
  BY <1>1, <1>4, <1>7 DEF GivenUp
<1>10. QED
  BY <1>1, <1>2, <1>6, <1>8, <1>9, FallBackInv

LEMMA TimesOutInv ==
  ASSUME IInv, TimesOut
  PROVE  IInv'
<1>1. /\ TypeOK /\ over = "race" /\ over' = "timeout" /\ UNCHANGED << standby, now, got, stored >>
      /\ now \in Nat /\ "primary" \in Branch /\ "secondary" \in Branch
  BY FallbackAssumption DEF TimesOut, IInv, TypeOK, Branch
<1>2. PICK d : d = [x \in Branch |-> Dropped(branch[x])]
  OBVIOUS
<1>3. branch' = d
  BY <1>2 DEF TimesOut
<1>4. \A x \in Branch : /\ BranchInv(x, d[x], got[x], stored[x])
                        /\ d[x].pc \in {"done", "dropped"}
  BY <1>1, <1>2, DroppedInv DEF IInv
<1>5. \A x \in Branch : BranchInv(x, branch'[x], got'[x], stored'[x])
  BY <1>1, <1>3, <1>4
<1>6. RaceInv(over', branch'["primary"], branch'["secondary"], now')
  <2>1. d["primary"].pc \in {"done", "dropped"} /\ d["secondary"].pc \in {"done", "dropped"}
    BY <1>1, <1>4
  <2>2. QED
    BY <2>1, <1>1, <1>3 DEF RaceInv, Running
<1>7. CtxInv(over', ctx', branch', stored'["outer"])
  BY <1>1, Names DEF CtxInv, IInv
<1>8. ctx' \in Context
  <2>1. PICK p : p = [kind |-> "fail", from |-> "none"]
    OBVIOUS
  <2>2. p \in Resp
    BY <2>1 DEF Resp, Kind, Origin
  <2>3. ctx' = [ctx EXCEPT !.resp = p, !.served = FALSE] /\ ctx \in Context
    BY <2>1, <1>1 DEF TimesOut, TypeOK
  <2>4. QED
    BY <2>2, <2>3 DEF Context
<1>9. TypeOK'
  <2>1. DOMAIN branch' = Branch /\ \A x \in Branch : branch'[x] \in BranchRec(Upstreams[x])
    BY <1>2, <1>3, <1>5 DEF BranchInv
  <2>2. QED
    BY <2>1, <1>1, <1>8 DEF TypeOK
<1>10. QED
  BY <1>1, <1>5, <1>6, <1>7, <1>9 DEF IInv

LEMMA TickInv ==
  ASSUME IInv, Tick
  PROVE  IInv'
<1>1. /\ TypeOK /\ now \in 0 .. Timeout /\ now < Timeout /\ now' = now + 1
      /\ UNCHANGED << standby, over, ctx, branch, got, stored >>
      /\ Running(branch["primary"]) => now < Threshold
  BY DEF Tick, PrimaryDue, IInv, TypeOK
<1>2. now' \in 0 .. Timeout /\ (Running(branch["primary"]) => now' <= Threshold)
  BY <1>1, FallbackAssumption
<1>3. TypeOK'
  BY <1>1, <1>2 DEF TypeOK
<1>4. RaceInv(over', branch'["primary"], branch'["secondary"], now')
  BY <1>1, <1>2 DEF IInv, RaceInv
<1>5. QED
  BY <1>1, <1>3, <1>4 DEF IInv

LEMMA InitIInv == Init => IInv
<1>1. SUFFICES ASSUME Init PROVE IInv
  OBVIOUS
<1>2. PICK r \in {None, [kind |-> "wanted", from |-> "before"]}, v \in BOOLEAN :
        ctx = [resp |-> r, marks |-> {"before"}, served |-> v /\ r # None]
  BY <1>1 DEF Init
<1>3. r \in Resp
  BY Names DEF Resp, Kind, Origin
<1>4. ctx \in Context /\ ctx.marks = {"before"}
  <2>1. PICK z \in BOOLEAN : z = (v /\ r # None)
    BY Zenon
  <2>2. ctx = [resp |-> r, marks |-> {"before"}, served |-> z]
    BY <1>2, <2>1
  <2>3. QED
    BY <1>3, <2>2 DEF Context
<1>5. /\ now = 0 /\ now \in Nat /\ now \in 0 .. Timeout /\ over = "race" /\ standby \in Modes
      /\ "primary" \in Branch /\ "secondary" \in Branch /\ 0 <= Threshold
  BY <1>1, FallbackAssumption DEF Init, Branch
<1>6. PICK f \in Context : f = Fork(ctx) /\ f.resp = None /\ ~ f.served /\ f.marks = {"before"}
  BY <1>4, ForkInv
<1>7. PICK h : h = [b \in Branch |-> IF b = "primary" \/ standby THEN "new" ELSE "off"]
  OBVIOUS
<1>8. h["primary"] = "new" /\ \A b \in Branch : h[b] \in {"off", "new"}
  BY <1>5, <1>7
<1>9. DOMAIN branch = Branch /\ \A b \in Branch : branch[b] = Quiet(h[b], f)
  BY <1>1, <1>6, <1>7 DEF Init
<1>10. ASSUME NEW b \in Branch
       PROVE  /\ branch[b] \in BranchRec(Upstreams[b]) /\ branch[b].pc = h[b] /\ branch[b].ctx = f
              /\ branch[b].waiting = {} /\ branch[b].ready = {} /\ branch[b].last = None
  <2>1. PICK pc \in {"off", "new", "done"} : pc = h[b]
    BY <1>8
  <2>2. PICK q : q = [Quiet(pc, f) EXCEPT !.end = 0]
    OBVIOUS
  <2>3. /\ q \in BranchRec(Upstreams[b]) /\ q.pc = pc /\ q.ctx = f
        /\ q.waiting = {} /\ q.ready = {} /\ q.last = None /\ Quiet(pc, f) = q
    BY <2>2, <1>5, QuietInv
  <2>4. QED
    BY <1>9, <2>1, <2>3
<1>11. /\ stored \in [Branch \cup {"outer"} -> Resp] /\ stored["outer"] = None
       /\ \A b \in Branch : stored[b] = None
  BY <1>1, Names DEF Init
<1>12. \A b \in Branch : BranchInv(b, branch[b], got[b], stored[b])
  BY <1>6, <1>8, <1>10, <1>11 DEF BranchInv
<1>13. RaceInv(over, branch["primary"], branch["secondary"], now)
  BY <1>5, <1>8, <1>10 DEF RaceInv, Running
<1>14. CtxInv(over, ctx, branch, stored["outer"])
  BY <1>4, <1>5, <1>11, Names DEF CtxInv
<1>15. /\ DOMAIN got = Branch /\ \A b \in Branch : DOMAIN got[b] = Upstreams[b]
       /\ \A b \in Branch : \A u \in Upstreams[b] : got[b][u] = "none"
  BY <1>1 DEF Init
<1>16. TypeOK
  BY <1>4, <1>5, <1>9, <1>10, <1>11, <1>15 DEF TypeOK
<1>17. QED
  BY <1>12, <1>13, <1>14, <1>15, <1>16 DEF IInv

LEMMA NextIInv == IInv /\ [Next]_vars => IInv'
<1>1. SUFFICES ASSUME IInv, [Next]_vars PROVE IInv'
  OBVIOUS
<1>2. CASE \E b \in Branch : FirstPoll(b)
  BY <1>1, <1>2, FirstPollInv
<1>3. CASE \E b \in Branch : \E u \in Upstreams[b] : \E k \in Kind : Complete(b, u, k)
  BY <1>1, <1>3, CompleteInv
<1>4. CASE \E b \in Branch : \E u \in Upstreams[b] : Take(b, u)
  BY <1>1, <1>4, TakeInv
<1>5. CASE ThresholdPassed
  BY <1>1, <1>5, ThresholdPassedInv
<1>6. CASE TimesOut
  BY <1>1, <1>6, TimesOutInv
<1>7. CASE Tick
  BY <1>1, <1>7, TickInv
<1>8. CASE UNCHANGED vars
  BY <1>1, <1>8 DEF vars, IInv, TypeOK
<1>9. QED
  BY <1>1, <1>2, <1>3, <1>4, <1>5, <1>6, <1>7, <1>8 DEF Next, Replied

LEMMA Invariance == Spec => []IInv
  BY InitIInv, NextIInv, PTL DEF Spec

-----------------------------------------------------------------------------

(* Every variable keeps its type for any upstreams, modes and times: an    *)
(* exchange's error never becomes the response of a branch or the request  *)
(* (forward.rs: exec keeps errors apart from answers).                     *)
THEOREM TypeCorrect == Spec => []TypeOK
<1>1. IInv => TypeOK
  BY DEF IInv
<1>2. QED
  BY Invariance, <1>1, PTL

(* With always_standby or without, whatever the order in which exchanges   *)
(* complete and branches are polled, the secondary is used only once the   *)
(* primary has failed or has had its window (BoundFallback::exec).         *)
THEOREM BackupCorrect == Spec => []BackupIsLastResort
<1>1. IInv => BackupIsLastResort
  BY DEF IInv, RaceInv, BackupIsLastResort
<1>2. QED
  BY Invariance, <1>1, PTL

(* A standby's answer that is there when the primary's window closes is    *)
(* the reply at that moment (BoundFallback::exec: the timeout around the   *)
(* primary runs on in both arms of the select).                            *)
THEOREM StandbyCorrect == Spec => []StandbyInTime
<1>1. ASSUME IInv PROVE StandbyInTime
  <2>1. SUFFICES ASSUME branch["secondary"].pc = "done", now > Threshold, over = "race" PROVE FALSE
    BY DEF StandbyInTime
  <2>2. now \in Nat /\ Threshold \in Nat
    BY <1>1, FallbackAssumption DEF IInv, TypeOK
  <2>3. QED
    BY <1>1, <2>1, <2>2 DEF IInv, RaceInv
<1>2. QED
  BY Invariance, <1>1, PTL

(* The two branches run on forks: no mark and no response of the loser, or *)
(* of the steps before, is in the context that goes on                     *)
(* (QueryContext::fork and absorb).                                        *)
THEOREM WinnerCorrect == Spec => []OnlyWinnerShows
<1>1. ASSUME IInv PROVE OnlyWinnerShows
  <2>1. SUFFICES ASSUME over \in Branch
                 PROVE  /\ ctx.marks = {"before", over}
                        /\ ctx.resp.from \in Upstreams[over] \cup {over, "none"}
    BY DEF OnlyWinnerShows
  <2>2. EndedWith(over, ctx, got[over])
    BY <1>1, <2>1 DEF IInv, CtxInv, BranchInv
  <2>3. None.from = "none"
    BY DEF None
  <2>4. QED
    BY <2>2, <2>3 DEF EndedWith, OwnResp
<1>2. QED
  BY Invariance, <1>1, PTL

(* A Forward that asks any number of upstreams at once ends without a      *)
(* usable answer only when every one of them came to an unusable one or an *)
(* error (Forward::exec).                                                  *)
THEOREM UsableCorrect == Spec => []UsableBeatsFailure
<1>1. IInv => UsableBeatsFailure
  BY DEF IInv, BranchInv, EndedWith, Failed, UsableBeatsFailure
<1>2. QED
  BY Invariance, <1>1, PTL

(* The cache in front of the fallback and the caches in its branches       *)
(* receive only answers this request got from upstreams, each from a       *)
(* branch that ran to its end (Sequence::run, Cache::store_lookup).        *)
THEOREM StoresCorrect == Spec => []StoresOwnWork
<1>1. IInv => StoresOwnWork
  BY DEF IInv, CtxInv, BranchInv, StoresOwnWork
<1>2. QED
  BY Invariance, <1>1, PTL

(* Dropping a branch's future drops its exchanges: once a branch has lost, *)
(* or the request is over, nothing of it is awaited                        *)
(* (BoundFallback::exec, Forward::exec).                                   *)
THEOREM DropCorrect == Spec => []NoOrphans
<1>1. ASSUME IInv PROVE NoOrphans
  <2>1. SUFFICES ASSUME NEW b \in Branch, branch[b].waiting \cup branch[b].ready # {}
                 PROVE  over = "race" /\ branch[b].pc = "run"
    BY DEF NoOrphans
  <2>2. branch[b].pc = "run"
    BY <1>1, <2>1 DEF IInv, BranchInv
  <2>3. QED
    BY <1>1, <2>2, Names DEF IInv, RaceInv
<1>2. QED
  BY Invariance, <1>1, PTL

=============================================================================
