--------------------------- MODULE UpstreamProofs ---------------------------
(***************************************************************************)
(* Proofs about an upstream, for any calls, queries, addresses, capacity   *)
(* and times.                                                              *)
(***************************************************************************)
EXTENDS Upstream, FiniteSetTheorems, NaturalsInduction, WellFoundedInduction, TLAPS

(* The call that holds a session is in one of these. *)
Holding == {"handshake", "reuse", "fresh"}

(* A call whose address lists are drawn from D. *)
CallIn(D) ==
  [pc : {"idle"} \cup Running \cup Ended, due : Nat, ips : D, open : SUBSET Family, bdue : Nat,
   dest : D, sess : Session \cup {0}, took : Nat, seen : Nat, rx : SUBSET Msg, sent : Nat,
   reply : Msg, answered : BOOLEAN, famOk : SUBSET Family]

SessRec == [state : {"free", "open", "closed"}, owed : Seq(Tasks), inbuf : Seq(Msg)]

(* What the server may send to t. *)
From(t) == {Reply(t, tc) : tc \in BOOLEAN} \cup Stray(t)

(* A message to t, of transport k: if it is an answer the server has       *)
(* answered.                                                               *)
Heard(k, t, c, m) ==
  m \in From(t) /\ (m.to # None /\ (k = "udp" => ~ m.tc) => c.answered)

(* A call by itself, of transport k and with d the destination shared. *)
CallInv(k, d, t, c) ==
  /\ c.sess # 0 <=> c.pc \in Holding
  /\ c.pc = "reuse" => c.took < Idle
  /\ c.pc = "http" => k = "doh"
  /\ \A m \in c.rx : Heard(k, t, c, m)
  /\ k # "doh" /\ c.dest # << >> => c.dest = d

Clean(x) == x.owed = << >> /\ x.inbuf = << >>

(* Session x in the hands of c, the call of t: nobody else's query or      *)
(* answer is on it.                                                        *)
Holds(k, t, c, x) ==
  /\ x.state # "free"
  /\ c.pc = "handshake" => Clean(x)
  /\ c.pc \in {"reuse", "fresh"} =>
       \/ Clean(x)
       \/ x.owed = << t >> /\ x.inbuf = << >>
       \/ x.owed = << >> /\ \E m \in From(t) : x.inbuf = << m >> /\ Heard(k, t, c, m)

Pooled(p, s) == \E i \in 1 .. Len(p) : p[i].s = s

(* The calls cs, the pool p and the sessions ss of transport k at time n. *)
HolderInv(k, n, cs, p, ss) ==
  /\ ss \in [Session -> SessRec]
  /\ \A s \in Session : ss[s].state = "free" => ss[s] = Free
  /\ p \in Seq([s : Session, since : Nat]) /\ Len(p) <= Cap
  /\ \A i \in 1 .. Len(p) : p[i].since <= n /\ ss[p[i].s].state # "free" /\ Clean(ss[p[i].s])
  /\ \A i, j \in 1 .. Len(p) : p[i].s = p[j].s => i = j
  /\ \A t \in Tasks : cs[t].sess # 0 => Holds(k, t, cs[t], ss[cs[t].sess])
  /\ \A t \in Tasks : cs[t].sess # 0 => ~ Pooled(p, cs[t].sess)
  /\ \A t, u \in Tasks : cs[t].sess # 0 /\ cs[t].sess = cs[u].sess => t = u
  /\ \A s \in Session : ss[s].state # "free" => Pooled(p, s) \/ \E t \in Tasks : cs[t].sess = s

IInv ==
  /\ now \in Nat
  /\ \E D : << >> \in D /\ call \in [Tasks -> CallIn(D)]
  /\ \A t \in Tasks : CallInv(kind, dest, t, call[t])
  /\ HolderInv(kind, now, call, pool, sess)

(* What a step may do to a call, seen from the caller. *)
Outcome(c, d) ==
  \/ (d.pc = c.pc \/ (c.pc \in Running /\ d.pc \in Running)) /\ d.answered = c.answered
  \/ c.pc = "idle" /\ d.pc \in Running /\ d.answered = c.answered
  \/ c.pc \in Running /\ d.pc = "err" /\ d.answered = c.answered
  \/ c.pc \in Running /\ d.pc = "ok" /\ c.answered /\ d.answered = c.answered
  \/ c.pc \in Running /\ d.pc = c.pc /\ d.answered

(* What a step does to the calls: at most one of them sees anything. *)
Seen ==
  \/ call' = call
  \/ \E t \in Tasks : /\ Outcome(call[t], call'[t])
                      /\ \A u \in Tasks : u # t => call'[u] = call[u]

-----------------------------------------------------------------------------
(* Sets of numbers, sessions, messages. *)

LEMMA Sessions ==
  /\ Cardinality(Tasks) \in Nat /\ IsFiniteSet(Tasks) /\ Cap \in Nat
  /\ Session \subseteq Nat /\ 0 \notin Session
  /\ IsFiniteSet(Session) /\ Cardinality(Session) = Cap + Cardinality(Tasks)
<1>1. Cardinality(Tasks) \in Nat /\ IsFiniteSet(Tasks) /\ Cap \in Nat
  BY UpstreamAssumption, FS_CardinalityType
<1>2. PICK n \in Nat : n = Cap + Cardinality(Tasks)
  BY <1>1
<1>3. Session = 1 .. n
  BY <1>2 DEF Session
<1>4. IsFiniteSet(1 .. n) /\ Cardinality(1 .. n) = n
  BY FS_Interval
<1>5. QED
  BY <1>1, <1>2, <1>3, <1>4

LEMMA Least ==
  ASSUME NEW T, T \subseteq Nat, T # {}
  PROVE  \E x \in T : \A y \in T : x <= y
<1>1. PICK x \in T : \A y \in T : ~ (<< y, x >> \in OpToRel(<, Nat))
  BY NatLessThanWellFounded, WFMin
<1>2. \A y \in T : x <= y
  <2>1. SUFFICES ASSUME NEW y \in T, y < x PROVE FALSE
    OBVIOUS
  <2>2. << y, x >> \in OpToRel(<, Nat)
    BY <2>1 DEF OpToRel
  <2>3. QED
    BY <1>1, <2>2
<1>3. QED
  BY <1>2

(* A set that holds 0 and with every i - 1 the i after it, up to n. *)
LEMMA UpTo ==
  ASSUME NEW n \in Nat, NEW P, 0 \in P, \A i \in 1 .. n : i - 1 \in P => i \in P
  PROVE  n \in P
<1>1. SUFFICES ASSUME NEW T, T = {i \in 0 .. n : i \notin P}, T # {} PROVE FALSE
  <2>1. n \in 0 .. n
    OBVIOUS
  <2>2. QED
    BY <2>1
<1>2. PICK i \in T : \A m \in T : i <= m
  <2>1. T \subseteq Nat
    BY <1>1
  <2>2. QED
    BY <1>1, <2>1, Least
<1>3. i \in 1 .. n /\ i - 1 \in 0 .. n
  BY <1>1, <1>2
<1>4. i - 1 \in P
  BY <1>1, <1>2, <1>3
<1>5. QED
  BY <1>1, <1>3, <1>4

(* A bounded set of numbers has a largest element. *)
LEMMA MaxOf ==
  ASSUME NEW n \in Nat, NEW S, S \subseteq 0 .. n, S # {}
  PROVE  Max(S) \in S /\ \A y \in S : Max(S) >= y
<1>1. PICK T : T = {m \in 0 .. n : n - m \in S}
  OBVIOUS
<1>2. T \subseteq Nat /\ T # {}
  <2>1. PICK x \in 0 .. n : x \in S
    OBVIOUS
  <2>2. n - x \in 0 .. n /\ n - (n - x) = x
    OBVIOUS
  <2>3. QED
    BY <1>1, <2>1, <2>2
<1>3. PICK x \in T : \A y \in T : x <= y
  BY <1>2, Least
<1>4. \A y \in T : y >= x
  BY <1>2, <1>3
<1>5. n - x \in S /\ x \in 0 .. n
  BY <1>1
<1>6. \A y \in S : n - x >= y
  <2>1. SUFFICES ASSUME NEW y \in S PROVE n - x >= y
    OBVIOUS
  <2>2. y \in 0 .. n /\ n - y \in 0 .. n /\ n - (n - y) = y
    OBVIOUS
  <2>3. n - y \in T
    BY <1>1, <2>1, <2>2
  <2>4. QED
    BY <1>4, <1>5, <2>2, <2>3
<1>7. QED
  BY <1>5, <1>6 DEF Max

(* StreamPool::take finds a session that is good, or none. *)
LEMMA TakenIndex ==
  ASSUME Len(pool) \in Nat
  PROVE  Taken \in 0 .. Len(pool) /\ (Taken # 0 => Takeable(Taken))
<1>1. PICK S : S = {0} \cup {i \in 1 .. Len(pool) : Takeable(i)}
  OBVIOUS
<1>2. S \subseteq 0 .. Len(pool) /\ S # {}
  BY <1>1
<1>3. Max(S) \in S
  BY <1>2, MaxOf
<1>4. Taken = Max(S)
  BY <1>1 DEF Taken
<1>5. QED
  BY <1>1, <1>2, <1>3, <1>4

(* A message of the server to t; only a true answer passes take_response.  *)
LEMMA Messages ==
  ASSUME NEW t \in Tasks, NEW m \in From(t)
  PROVE  m \in Msg /\ m.to \in {t, None} /\ (TakeResponse(t, m) => m.to # None)
<1>1. None \notin Tasks /\ Query[t].id # None /\ Query[t].question # None
  BY UpstreamAssumption
<1>2. CASE \E tc \in BOOLEAN : m = Reply(t, tc)
  <2>1. PICK tc \in BOOLEAN : m = [to |-> t, id |-> Query[t].id, question |-> Query[t].question, tc |-> tc]
    BY <1>2 DEF Reply
  <2>2. m.to = t
    BY <2>1
  <2>3. m \in Msg
    BY <2>1 DEF Msg
  <2>4. QED
    BY <1>1, <2>2, <2>3
<1>3. CASE m = [to |-> None, id |-> Query[t].id, question |-> None, tc |-> FALSE]
  <2>1. m \in Msg /\ m.question = None /\ m.to = None
    BY <1>3 DEF Msg
  <2>2. QED
    BY <1>1, <2>1 DEF TakeResponse
<1>4. CASE m = [to |-> None, id |-> None, question |-> Query[t].question, tc |-> FALSE]
  <2>1. m \in Msg /\ m.id = None /\ m.to = None
    BY <1>4 DEF Msg
  <2>2. QED
    BY <1>1, <2>1 DEF TakeResponse
<1>5. QED
  BY <1>2, <1>3, <1>4 DEF From, Stray

LEMMA NothingSent == << >> \in Seq(Msg) /\ << >> \in Seq(Tasks) /\ \A m \in Msg : << m >> \in Seq(Msg)
  OBVIOUS

LEMMA NoMsgType == NoMsg \in Msg
  BY DEF NoMsg, Msg

-----------------------------------------------------------------------------
(* Calls. *)

LEMMA Phases ==
  /\ Holding \subseteq Running /\ "idle" \notin Running
  /\ "ok" \notin Running /\ "err" \notin Running
  BY DEF Holding, Running

LEMMA MoreCalls ==
  ASSUME NEW D, NEW x, << >> \in D, call \in [Tasks -> CallIn(D)]
  PROVE  << >> \in D \cup {x} /\ call \in [Tasks -> CallIn(D \cup {x})]
<1>1. CallIn(D) \subseteq CallIn(D \cup {x})
  BY DEF CallIn
<1>2. QED
  BY <1>1

LEMMA EndOf ==
  ASSUME NEW D, << >> \in D, NEW c \in CallIn(D), NEW how \in Ended
  PROVE  /\ End(c, how) \in CallIn(D)
         /\ End(c, how).pc = how /\ End(c, how).sess = 0 /\ End(c, how).rx = {}
         /\ End(c, how).dest = c.dest /\ End(c, how).answered = c.answered
<1>1. PICK e : e = End(c, how)
  OBVIOUS
<1>2. e = [c EXCEPT !.pc = how, !.sess = 0, !.took = 0, !.rx = {}, !.sent = 0, !.seen = 0,
                    !.due = 0, !.bdue = 0, !.ips = << >>]
  BY <1>1 DEF End
<1>3. e \in CallIn(D) /\ e.pc = how /\ e.sess = 0 /\ e.rx = {} /\ e.dest = c.dest /\ e.answered = c.answered
  BY <1>2 DEF CallIn
<1>4. QED
  BY <1>1, <1>3

(* A call that has ended is in order. *)
LEMMA EndInv ==
  ASSUME NEW k, NEW d, NEW t, NEW c, CallInv(k, d, t, c), NEW e,
         e.pc \in Ended, e.sess = 0, e.rx = {}, e.dest = c.dest
  PROVE  CallInv(k, d, t, e)
  BY DEF CallInv, Holding, Ended
-----------------------------------------------------------------------------
(* Steps of one call. *)

LEMMA OneCall ==
  ASSUME NEW t \in Tasks, NEW D, << >> \in D, call \in [Tasks -> CallIn(D)],
         NEW d \in CallIn(D), call' = [call EXCEPT ![t] = d], Outcome(call[t], d)
  PROVE  /\ call' \in [Tasks -> CallIn(D)] /\ call'[t] = d
         /\ \A u \in Tasks : u # t => call'[u] = call[u]
         /\ Seen
<1>1. /\ call' \in [Tasks -> CallIn(D)] /\ call'[t] = d
      /\ \A u \in Tasks : u # t => call'[u] = call[u]
  OBVIOUS
<1>2. QED
  BY <1>1 DEF Seen

(* The other calls do not notice a destination that is settled. *)
LEMMA OthersInv ==
  ASSUME IInv, NEW t \in Tasks, NEW d, kind' = kind,
         kind # "doh" /\ dest # << >> => dest' = dest,
         \A u \in Tasks : u # t => call'[u] = call[u],
         call'[t] = d, CallInv(kind, dest', t, d)
  PROVE  \A u \in Tasks : CallInv(kind', dest', u, call'[u])
<1>1. SUFFICES ASSUME NEW u \in Tasks, u # t PROVE CallInv(kind, dest', u, call[u])
  OBVIOUS
<1>2. CallInv(kind, dest, u, call[u])
  BY DEF IInv
<1>3. QED
  BY <1>2 DEF CallInv

(* A step of a call that holds no session, before and after. *)
LEMMA LocalStep ==
  ASSUME IInv, NEW t \in Tasks, NEW D, << >> \in D, call \in [Tasks -> CallIn(D)],
         NEW d \in CallIn(D), call' = [call EXCEPT ![t] = d], Outcome(call[t], d),
         call[t].sess = 0, d.sess = 0, UNCHANGED << kind, now, pool, sess >>,
         kind # "doh" /\ dest # << >> => dest' = dest, CallInv(kind, dest', t, d)
  PROVE  IInv' /\ Seen
<1>1. /\ call' \in [Tasks -> CallIn(D)] /\ call'[t] = d
      /\ \A u \in Tasks : u # t => call'[u] = call[u]
      /\ Seen
  BY OneCall
<1>2. \A u \in Tasks : CallInv(kind', dest', u, call'[u])
  BY <1>1, OthersInv
<1>3. HolderInv(kind, now, call, pool, sess) /\ now \in Nat
  BY DEF IInv
<1>4. \A u \in Tasks : /\ call'[u].sess = call[u].sess
                       /\ call'[u].sess # 0 => call'[u] = call[u]
  BY <1>1
<1>5. HolderInv(kind, now, call', pool, sess)
  BY <1>3, <1>4 DEF HolderInv
<1>6. HolderInv(kind', now', call', pool', sess')
  BY <1>5
<1>7. QED
  BY <1>1, <1>2, <1>3, <1>6 DEF IInv

LEMMA FreeType == Free \in SessRec /\ Free.state = "free" /\ Clean(Free)
  BY DEF Free, SessRec, Clean

LEMMA PoolEntry ==
  ASSUME NEW k, NEW n, NEW cs, NEW p, NEW ss, HolderInv(k, n, cs, p, ss)
  PROVE  /\ Len(p) \in Nat
         /\ \A i \in 1 .. Len(p) : p[i].s \in Session /\ p[i].since \in Nat
<1>1. PICK E : E = [s : Session, since : Nat]
  OBVIOUS
<1>2. p \in Seq(E)
  BY <1>1 DEF HolderInv
<1>3. Len(p) \in Nat /\ \A i \in 1 .. Len(p) : p[i] \in E
  BY <1>2
<1>4. \A e \in E : e.s \in Session /\ e.since \in Nat
  BY <1>1
<1>5. QED
  BY <1>3, <1>4

(* A step in which a call lets go of the session it may hold. *)
LEMMA DropStep ==
  ASSUME IInv, NEW t \in Tasks, NEW D, << >> \in D, call \in [Tasks -> CallIn(D)],
         NEW d \in CallIn(D), call' = [call EXCEPT ![t] = d], Outcome(call[t], d),
         d.sess = 0, sess' = Drop(sess, call[t].sess), UNCHANGED << kind, now, pool, dest >>,
         CallInv(kind, dest, t, d)
  PROVE  IInv' /\ Seen
<1>1. CASE call[t].sess = 0
  <2>1. sess' = sess
    BY <1>1 DEF Drop
  <2>2. QED
    BY <1>1, <2>1, LocalStep
<1>2. CASE call[t].sess # 0
  <2>1. /\ call' \in [Tasks -> CallIn(D)] /\ call'[t] = d
        /\ \A u \in Tasks : u # t => call'[u] = call[u]
        /\ Seen
    BY OneCall
  <2>2. \A u \in Tasks : CallInv(kind', dest', u, call'[u])
    BY <2>1, OthersInv
  <2>3. HolderInv(kind, now, call, pool, sess) /\ now \in Nat
    BY DEF IInv
  <2>4. PICK s \in Session : s = call[t].sess
    BY <1>2 DEF CallIn
  <2>5. sess' = [sess EXCEPT ![s] = Free]
    BY <1>2, <2>4 DEF Drop
  <2>6. /\ sess' \in [Session -> SessRec] /\ sess'[s] = Free
        /\ \A x \in Session : x # s => sess'[x] = sess[x]
    BY <2>3, <2>5, FreeType DEF HolderInv
  <2>7. \A u \in Tasks : call'[u].sess # 0 => u # t /\ call'[u] = call[u] /\ call[u].sess # s
    BY <2>1, <2>3, <2>4, <1>2 DEF HolderInv
  <2>8. ~ Pooled(pool, s)
    BY <2>3, <2>4, <1>2 DEF HolderInv
  <2>9. \A i \in 1 .. Len(pool) : pool[i].s \in Session /\ sess'[pool[i].s] = sess[pool[i].s]
    <3>1. SUFFICES ASSUME NEW i \in 1 .. Len(pool)
                   PROVE  pool[i].s \in Session /\ sess'[pool[i].s] = sess[pool[i].s]
      OBVIOUS
    <3>2. pool[i].s \in Session
      BY <2>3, PoolEntry
    <3>3. pool[i].s # s
      BY <2>8 DEF Pooled
    <3>4. QED
      BY <2>6, <3>2, <3>3
  <2>10. \A u \in Tasks : call'[u].sess # 0 => Holds(kind, u, call'[u], sess'[call'[u].sess])
    <3>1. SUFFICES ASSUME NEW u \in Tasks, call'[u].sess # 0
                   PROVE  Holds(kind, u, call'[u], sess'[call'[u].sess])
      OBVIOUS
    <3>2. call'[u].sess \in Session
      BY <2>1, <3>1 DEF CallIn
    <3>3. call'[u] = call[u] /\ sess'[call'[u].sess] = sess[call[u].sess]
      BY <2>6, <2>7, <3>1, <3>2
    <3>4. Holds(kind, u, call[u], sess[call[u].sess])
      BY <2>3, <3>1, <3>3 DEF HolderInv
    <3>5. QED
      BY <3>3, <3>4
  <2>11. \A x \in Session : sess'[x].state # "free" =>
           Pooled(pool, x) \/ \E u \in Tasks : call'[u].sess = x
    <3>1. SUFFICES ASSUME NEW x \in Session, sess'[x].state # "free"
                   PROVE  Pooled(pool, x) \/ \E u \in Tasks : call'[u].sess = x
      OBVIOUS
    <3>2. x # s /\ sess[x].state # "free"
      BY <2>6, <3>1, FreeType
    <3>3. Pooled(pool, x) \/ \E u \in Tasks : call[u].sess = x
      BY <2>3, <3>2 DEF HolderInv
    <3>4. \A u \in Tasks : call[u].sess = x => call'[u].sess = x
      BY <2>1, <2>4, <3>2
    <3>5. QED
      BY <3>3, <3>4
  <2>12. HolderInv(kind, now, call', pool, sess')
    BY <2>3, <2>6, <2>7, <2>9, <2>10, <2>11 DEF HolderInv
  <2>13. HolderInv(kind', now', call', pool', sess')
    BY <2>12
  <2>14. QED
    BY <2>1, <2>2, <2>3, <2>13 DEF IInv
<1>3. QED
  BY <1>1, <1>2
-----------------------------------------------------------------------------
(* The destination. *)

LEMMA LocalInv ==
  ASSUME NEW k, NEW d0, NEW d1, NEW t, NEW c, CallInv(k, d0, t, c), NEW e,
         e.rx \subseteq c.rx, e.answered = c.answered, e.sess = 0, e.pc \notin Holding,
         e.pc = "http" => k = "doh", k # "doh" /\ e.dest # << >> => e.dest = d1
  PROVE  CallInv(k, d1, t, e)
<1>1. \A m \in e.rx : Heard(k, t, e, m)
  BY DEF CallInv, Heard
<1>2. e.pc # "reuse"
  BY DEF Holding
<1>3. QED
  BY <1>1, <1>2 DEF CallInv

(* A call that holds no session may change without the holders noticing. *)
LEMMA SameHolders ==
  ASSUME NEW k, NEW n, NEW cs, NEW p, NEW ss, HolderInv(k, n, cs, p, ss), NEW cs2,
         \A u \in Tasks : cs2[u].sess = cs[u].sess /\ (cs2[u].sess # 0 => cs2[u] = cs[u])
  PROVE  HolderInv(k, n, cs2, p, ss)
<1>1. \A t \in Tasks : cs2[t].sess # 0 => Holds(k, t, cs2[t], ss[cs2[t].sess])
  BY DEF HolderInv
<1>2. \A t \in Tasks : cs2[t].sess # 0 => ~ Pooled(p, cs2[t].sess)
  BY DEF HolderInv
<1>3. \A t, u \in Tasks : cs2[t].sess # 0 /\ cs2[t].sess = cs2[u].sess => t = u
  BY DEF HolderInv
<1>4. \A s \in Session : ss[s].state # "free" => Pooled(p, s) \/ \E t \in Tasks : cs2[t].sess = s
  BY DEF HolderInv
<1>5. QED
  BY <1>1, <1>2, <1>3, <1>4 DEF HolderInv

LEMMA Unheld ==
  ASSUME IInv, NEW t \in Tasks, call[t].pc \notin Holding
  PROVE  call[t].sess = 0 /\ CallInv(kind, dest, t, call[t])
  BY DEF IInv, CallInv

LEMMA BeginInv ==
  ASSUME IInv, NEW t \in Tasks, Begin(t)
  PROVE  IInv' /\ Seen
<1>1. call[t].pc = "idle" /\ UNCHANGED << kind, now, pool, sess >>
  BY DEF Begin
<1>2. call[t].sess = 0 /\ CallInv(kind, dest, t, call[t])
  BY <1>1, Unheld, Phases
<1>3. PICK D : << >> \in D /\ call \in [Tasks -> CallIn(D)]
  BY DEF IInv
<1>4. now + Limit \in Nat /\ now + Budget \in Nat
  <2>1. Limit \div 2 \in Nat
    BY UpstreamAssumption
  <2>2. QED
    BY <2>1, UpstreamAssumption DEF IInv, Budget
<1>5. PICK c : c = [call[t] EXCEPT !.due = now + Limit]
  OBVIOUS
<1>6. /\ c \in CallIn(D) /\ c.pc = "idle" /\ c.sess = 0 /\ c.rx = call[t].rx
      /\ c.answered = call[t].answered /\ c.dest = call[t].dest
  BY <1>1, <1>2, <1>3, <1>4, <1>5 DEF CallIn
<1>7. ASSUME kind = "doh", call' = [call EXCEPT ![t] = [c EXCEPT !.pc = "http"]], dest' = dest
      PROVE  IInv' /\ Seen
  <2>1. PICK d : d = [c EXCEPT !.pc = "http"]
    OBVIOUS
  <2>2. /\ d \in CallIn(D) /\ d.pc = "http" /\ d.sess = 0 /\ d.rx = call[t].rx
        /\ d.answered = call[t].answered
    BY <1>6, <2>1 DEF CallIn, Running
  <2>3. CallInv(kind, dest', t, d)
    BY <1>2, <1>7, <2>2, LocalInv DEF Holding
  <2>4. Outcome(call[t], d)
    BY <1>1, <2>2 DEF Outcome, Running
  <2>5. QED
    BY <1>1, <1>2, <1>3, <1>7, <2>1, <2>2, <2>3, <2>4, LocalStep
<1>8. ASSUME NEW v, call' = [call EXCEPT ![t] = [c EXCEPT !.pc = "ready", !.dest = v]],
             kind # "doh" => dest' = v, kind # "doh" /\ dest # << >> => dest' = dest
      PROVE  IInv' /\ Seen
  <2>1. PICK d : d = [c EXCEPT !.pc = "ready", !.dest = v]
    OBVIOUS
  <2>2. PICK E : E = D \cup {v}
    OBVIOUS
  <2>3. << >> \in E /\ call \in [Tasks -> CallIn(E)]
    BY <1>3, <2>2, MoreCalls
  <2>4. c \in CallIn(E)
    BY <1>6, <2>2 DEF CallIn
  <2>5. /\ d \in CallIn(E) /\ d.pc = "ready" /\ d.sess = 0 /\ d.rx = call[t].rx
        /\ d.answered = call[t].answered /\ d.dest = v
    BY <1>6, <2>1, <2>2, <2>4 DEF CallIn, Running
  <2>6. CallInv(kind, dest', t, d)
    BY <1>2, <1>8, <2>5, LocalInv DEF Holding
  <2>7. Outcome(call[t], d)
    BY <1>1, <2>5 DEF Outcome, Running
  <2>8. QED
    BY <1>1, <1>2, <1>8, <2>1, <2>3, <2>5, <2>6, <2>7, LocalStep
<1>9. ASSUME call' = [call EXCEPT ![t] = [c EXCEPT !.pc = "boot", !.open = Family, !.bdue = now + Budget]],
             dest' = dest
      PROVE  IInv' /\ Seen
  <2>1. PICK d : d = [c EXCEPT !.pc = "boot", !.open = Family, !.bdue = now + Budget]
    OBVIOUS
  <2>2. /\ d \in CallIn(D) /\ d.pc = "boot" /\ d.sess = 0 /\ d.rx = call[t].rx
        /\ d.answered = call[t].answered /\ d.dest = call[t].dest
    BY <1>4, <1>6, <2>1 DEF CallIn, Running
  <2>3. kind # "doh" /\ d.dest # << >> => d.dest = dest
    BY <1>2, <2>2 DEF CallInv
  <2>4. CallInv(kind, dest', t, d)
    BY <1>2, <1>9, <2>2, <2>3, LocalInv DEF Holding
  <2>5. Outcome(call[t], d)
    BY <1>1, <2>2 DEF Outcome, Running
  <2>6. QED
    BY <1>1, <1>2, <1>3, <1>9, <2>1, <2>2, <2>4, <2>5, LocalStep
<1>10. ASSUME call' = [call EXCEPT ![t] = [c EXCEPT !.pc = "lookup"]], dest' = dest
       PROVE  IInv' /\ Seen
  <2>1. PICK d : d = [c EXCEPT !.pc = "lookup"]
    OBVIOUS
  <2>2. /\ d \in CallIn(D) /\ d.pc = "lookup" /\ d.sess = 0 /\ d.rx = call[t].rx
        /\ d.answered = call[t].answered /\ d.dest = call[t].dest
    BY <1>6, <2>1 DEF CallIn, Running
  <2>3. kind # "doh" /\ d.dest # << >> => d.dest = dest
    BY <1>2, <2>2 DEF CallInv
  <2>4. CallInv(kind, dest', t, d)
    BY <1>2, <1>10, <2>2, <2>3, LocalInv DEF Holding
  <2>5. Outcome(call[t], d)
    BY <1>1, <2>2 DEF Outcome, Running
  <2>6. QED
    BY <1>1, <1>2, <1>3, <1>10, <2>1, <2>2, <2>4, <2>5, LocalStep
<1>11. \/ kind = "doh" /\ call' = [call EXCEPT ![t] = [c EXCEPT !.pc = "http"]] /\ dest' = dest
       \/ call' = [call EXCEPT ![t] = [c EXCEPT !.pc = "ready", !.dest = dest]] /\ dest' = dest
       \/ /\ dest = << >> /\ dest' = IF kind = "doh" THEN dest ELSE StaticDest
          /\ call' = [call EXCEPT ![t] = [c EXCEPT !.pc = "ready", !.dest = StaticDest]]
       \/ /\ call' = [call EXCEPT ![t] = [c EXCEPT !.pc = "boot", !.open = Family,
                                                   !.bdue = now + Budget]]
          /\ dest' = dest
       \/ call' = [call EXCEPT ![t] = [c EXCEPT !.pc = "lookup"]] /\ dest' = dest
  BY <1>5, Zenon DEF Begin
<1>12. QED
  BY <1>7, <1>8, <1>9, <1>10, <1>11
LEMMA LookupEndsInv ==
  ASSUME IInv, NEW t \in Tasks, NEW fam, NEW list, fam \in Family, call[t].pc = "boot",
         LookupEnds(t, fam, list), UNCHANGED << kind, now, pool, sess >>
  PROVE  IInv' /\ Seen
<1>1. call[t].sess = 0 /\ CallInv(kind, dest, t, call[t])
  BY Unheld DEF Holding
<1>2. PICK D : << >> \in D /\ call \in [Tasks -> CallIn(D)]
  BY DEF IInv
<1>3. PICK ips, open : ips = call[t].ips \o list /\ open = call[t].open \ {fam}
  OBVIOUS
<1>4. PICK v : v = Settle(Dedup(SortByFamily(ips)))
  OBVIOUS
<1>5. PICK ok : ok = IF list = << >> THEN call[t].famOk ELSE call[t].famOk \cup {fam}
  OBVIOUS
<1>6. PICK c : c = [call[t] EXCEPT !.ips = ips, !.open = open, !.famOk = ok]
  OBVIOUS
<1>7. PICK E : E = (D \cup {ips}) \cup {v}
  OBVIOUS
<1>8. << >> \in E /\ call \in [Tasks -> CallIn(E)]
  BY <1>2, <1>7, MoreCalls
<1>9. call[t] \in CallIn(E) /\ open \subseteq Family /\ ok \subseteq Family /\ ips \in E /\ v \in E
  BY <1>3, <1>5, <1>7, <1>8 DEF CallIn
<1>10. /\ c \in CallIn(E) /\ c.pc = "boot" /\ c.sess = 0 /\ c.rx = call[t].rx
       /\ c.answered = call[t].answered /\ c.dest = call[t].dest
  BY <1>1, <1>6, <1>9 DEF CallIn
<1>11. ASSUME call' = [call EXCEPT ![t] = c], dest' = dest
       PROVE  IInv' /\ Seen
  <2>1. kind # "doh" /\ c.dest # << >> => c.dest = dest
    BY <1>1, <1>10 DEF CallInv
  <2>2. CallInv(kind, dest', t, c)
    BY <1>1, <1>10, <1>11, <2>1, LocalInv DEF Holding
  <2>3. Outcome(call[t], c)
    BY <1>10 DEF Outcome, Running
  <2>4. QED
    BY <1>1, <1>8, <1>10, <1>11, <2>2, <2>3, LocalStep
<1>12. ASSUME call' = [call EXCEPT ![t] = End(c, "err")], dest' = dest
       PROVE  IInv' /\ Seen
  <2>1. PICK d : d = End(c, "err")
    OBVIOUS
  <2>2. /\ d \in CallIn(E) /\ d.pc = "err" /\ d.sess = 0 /\ d.rx = {} /\ d.dest = call[t].dest
        /\ d.answered = call[t].answered
    BY <1>8, <1>10, <2>1, EndOf DEF Ended
  <2>3. CallInv(kind, dest', t, d)
    BY <1>1, <1>12, <2>2, EndInv DEF Ended
  <2>4. Outcome(call[t], d)
    BY <2>2 DEF Outcome, Running
  <2>5. QED
    BY <1>1, <1>8, <1>12, <2>1, <2>2, <2>3, <2>4, LocalStep
<1>13. ASSUME call' = [call EXCEPT ![t] = [c EXCEPT !.pc = "ready", !.ips = << >>, !.dest = v]],
              dest' = v
       PROVE  IInv' /\ Seen
  <2>1. PICK d : d = [c EXCEPT !.pc = "ready", !.ips = << >>, !.dest = v]
    OBVIOUS
  <2>2. /\ d \in CallIn(E) /\ d.pc = "ready" /\ d.sess = 0 /\ d.rx = call[t].rx /\ d.dest = v
        /\ d.answered = call[t].answered
    BY <1>8, <1>9, <1>10, <2>1 DEF CallIn, Running
  <2>3. kind # "doh" /\ dest # << >> => dest' = dest
    BY <1>4, <1>13 DEF Settle
  <2>4. CallInv(kind, dest', t, d)
    BY <1>1, <1>13, <2>2, LocalInv DEF Holding
  <2>5. Outcome(call[t], d)
    BY <2>2 DEF Outcome, Running
  <2>6. QED
    BY <1>1, <1>8, <1>13, <2>1, <2>2, <2>3, <2>4, <2>5, LocalStep
<1>14. \/ call' = [call EXCEPT ![t] = c] /\ dest' = dest
       \/ call' = [call EXCEPT ![t] = End(c, "err")] /\ dest' = dest
       \/ /\ call' = [call EXCEPT ![t] = [c EXCEPT !.pc = "ready", !.ips = << >>, !.dest = v]]
          /\ dest' = v
  BY <1>3, <1>4, <1>5, <1>6, Zenon DEF LookupEnds
<1>15. QED
  BY <1>11, <1>12, <1>13, <1>14

LEMMA SystemLookupInv ==
  ASSUME IInv, NEW t \in Tasks, NEW list, SystemLookup(t, list)
  PROVE  IInv' /\ Seen
<1>1. call[t].pc = "lookup" /\ UNCHANGED << kind, now, pool, sess >>
  BY DEF SystemLookup
<1>2. call[t].sess = 0 /\ CallInv(kind, dest, t, call[t])
  BY <1>1, Unheld DEF Holding
<1>3. PICK D : << >> \in D /\ call \in [Tasks -> CallIn(D)]
  BY DEF IInv
<1>4. PICK v : v = Settle(list)
  OBVIOUS
<1>5. PICK E : E = D \cup {v}
  OBVIOUS
<1>6. << >> \in E /\ call \in [Tasks -> CallIn(E)] /\ v \in E
  BY <1>3, <1>5, MoreCalls
<1>7. CASE list # << >>
  <2>1. PICK d : d = [call[t] EXCEPT !.pc = "ready", !.dest = v]
    OBVIOUS
  <2>2. /\ d \in CallIn(E) /\ d.pc = "ready" /\ d.sess = 0 /\ d.rx = call[t].rx /\ d.dest = v
        /\ d.answered = call[t].answered
    <3>1. PICK c \in CallIn(E) : c = call[t]
      BY <1>6
    <3>2. d = [c EXCEPT !.pc = "ready", !.dest = v] /\ c.sess = 0
      BY <1>2, <2>1, <3>1
    <3>3. QED
      BY <1>6, <3>1, <3>2 DEF CallIn, Running
  <2>3. call' = [call EXCEPT ![t] = d] /\ dest' = v
    BY <1>4, <1>6, <1>7, <2>1 DEF SystemLookup
  <2>4. kind # "doh" /\ dest # << >> => dest' = dest
    BY <1>4, <2>3 DEF Settle
  <2>5. CallInv(kind, dest', t, d)
    BY <1>2, <2>2, <2>3, LocalInv DEF Holding
  <2>6. Outcome(call[t], d)
    BY <1>1, <2>2 DEF Outcome, Running
  <2>7. QED
    BY <1>1, <1>2, <1>6, <2>2, <2>3, <2>4, <2>5, <2>6, LocalStep
<1>8. CASE list = << >>
  <2>1. PICK d : d = [call[t] EXCEPT !.pc = "err"]
    OBVIOUS
  <2>2. /\ d \in CallIn(D) /\ d.pc = "err" /\ d.sess = 0 /\ d.rx = call[t].rx /\ d.dest = call[t].dest
        /\ d.answered = call[t].answered
    <3>1. PICK c \in CallIn(D) : c = call[t]
      BY <1>3
    <3>2. d = [c EXCEPT !.pc = "err"] /\ c.sess = 0
      BY <1>2, <2>1, <3>1
    <3>3. QED
      BY <3>1, <3>2 DEF CallIn, Ended
  <2>3. call' = [call EXCEPT ![t] = d] /\ dest' = dest
    BY <1>3, <1>8, <2>1 DEF SystemLookup
  <2>4. kind # "doh" /\ d.dest # << >> => d.dest = dest
    BY <1>2, <2>2 DEF CallInv
  <2>5. CallInv(kind, dest', t, d)
    BY <1>2, <2>2, <2>3, <2>4, LocalInv DEF Holding
  <2>6. Outcome(call[t], d)
    BY <1>1, <2>2 DEF Outcome, Running
  <2>7. QED
    BY <1>1, <1>2, <1>3, <2>2, <2>3, <2>5, <2>6, LocalStep
<1>9. QED
  BY <1>7, <1>8

-----------------------------------------------------------------------------
(* Datagrams, HTTP. *)

LEMMA SendInv ==
  ASSUME IInv, NEW t \in Tasks, Send(t)
  PROVE  IInv' /\ Seen
<1>1. call[t].pc = "ready" /\ kind \in {"udp", "doh"} /\ UNCHANGED << kind, now, pool, sess, dest >>
  BY DEF Send
<1>2. call[t].sess = 0 /\ CallInv(kind, dest, t, call[t])
  BY <1>1, Unheld DEF Holding
<1>3. PICK D : << >> \in D /\ call \in [Tasks -> CallIn(D)]
  BY DEF IInv
<1>4. PICK pc : pc = IF kind = "udp" THEN "udp" ELSE "http"
  OBVIOUS
<1>5. pc \in {"udp", "http"} /\ (pc = "http" => kind = "doh")
  BY <1>1, <1>4
<1>6. PICK d : d = [call[t] EXCEPT !.pc = pc]
  OBVIOUS
<1>7. /\ d \in CallIn(D) /\ d.pc = pc /\ d.sess = 0 /\ d.rx = call[t].rx /\ d.dest = call[t].dest
      /\ d.answered = call[t].answered
  <2>1. PICK c \in CallIn(D) : c = call[t]
    BY <1>3
  <2>2. d = [c EXCEPT !.pc = pc] /\ c.sess = 0
    BY <1>2, <1>6, <2>1
  <2>3. QED
    BY <1>5, <2>1, <2>2 DEF CallIn, Running
<1>8. call' = [call EXCEPT ![t] = d]
  BY <1>3, <1>4, <1>6 DEF Send
<1>9. kind # "doh" /\ d.dest # << >> => d.dest = dest
  BY <1>2, <1>7 DEF CallInv
<1>10. CallInv(kind, dest', t, d)
  BY <1>1, <1>2, <1>5, <1>7, <1>9, LocalInv DEF Holding
<1>11. Outcome(call[t], d)
  BY <1>1, <1>5, <1>7 DEF Outcome, Running
<1>12. QED
  BY <1>1, <1>2, <1>3, <1>7, <1>8, <1>10, <1>11, LocalStep

LEMMA ServeInv ==
  ASSUME IInv, NEW t \in Tasks, NEW m, Serve(t, m)
  PROVE  IInv' /\ Seen
<1>1. call[t].pc \in {"udp", "http"} /\ m \in From(t) /\ UNCHANGED << kind, now, pool, sess, dest >>
  BY DEF Serve, From
<1>2. call[t].sess = 0 /\ CallInv(kind, dest, t, call[t])
  BY <1>1, Unheld DEF Holding
<1>3. PICK D : << >> \in D /\ call \in [Tasks -> CallIn(D)]
  BY DEF IInv
<1>4. m \in Msg
  BY <1>1, Messages
<1>5. PICK a \in BOOLEAN : a = (call[t].answered \/ Answers(m))
  BY Zenon
<1>6. PICK d : d = [call[t] EXCEPT !.rx = @ \cup {m}, !.sent = @ + 1, !.answered = a]
  OBVIOUS
<1>7. /\ d \in CallIn(D) /\ d.pc = call[t].pc /\ d.sess = 0 /\ d.rx = call[t].rx \cup {m}
      /\ d.dest = call[t].dest /\ d.answered = a
  <2>1. PICK c \in CallIn(D) : c = call[t]
    BY <1>3
  <2>2. PICK r, n : r = c.rx \cup {m} /\ n = c.sent + 1
    OBVIOUS
  <2>3. r \subseteq Msg /\ n \in Nat /\ c.sess = 0
    BY <1>2, <1>4, <2>1, <2>2 DEF CallIn
  <2>4. d = [c EXCEPT !.rx = r, !.sent = n, !.answered = a]
    BY <1>6, <2>1, <2>2
  <2>5. QED
    BY <2>1, <2>2, <2>3, <2>4 DEF CallIn
<1>8. call' = [call EXCEPT ![t] = d]
  BY <1>3, <1>5, <1>6 DEF Serve
<1>9. \A x \in d.rx : Heard(kind, t, d, x)
  <2>1. \A x \in call[t].rx : Heard(kind, t, call[t], x)
    BY <1>2 DEF CallInv
  <2>2. \A x \in call[t].rx : Heard(kind, t, d, x)
    BY <2>1, <1>5, <1>7 DEF Heard
  <2>3. Heard(kind, t, d, m)
    BY <1>1, <1>5, <1>7 DEF Heard, Answers
  <2>4. QED
    BY <1>7, <2>2, <2>3
<1>10. CallInv(kind, dest', t, d)
  BY <1>1, <1>2, <1>7, <1>9 DEF CallInv, Holding
<1>11. Outcome(call[t], d)
  <2>1. CASE a
    BY <1>1, <1>7, <2>1 DEF Outcome, Running
  <2>2. CASE ~ a
    <3>1. call[t].answered = FALSE
      BY <1>3, <1>5, <2>2 DEF CallIn
    <3>2. QED
      BY <1>7, <2>2, <3>1 DEF Outcome
  <2>3. QED
    BY <2>1, <2>2
<1>12. QED
  BY <1>1, <1>2, <1>3, <1>7, <1>8, <1>10, <1>11, LocalStep
-----------------------------------------------------------------------------
(* How calls end. *)

LEMMA OkOf ==
  ASSUME NEW D, << >> \in D, NEW c \in CallIn(D), NEW m \in Msg
  PROVE  LET e == [End(c, "ok") EXCEPT !.reply = m]
         IN  /\ e \in CallIn(D) /\ e.pc = "ok" /\ e.sess = 0 /\ e.rx = {}
             /\ e.dest = c.dest /\ e.answered = c.answered
<1>1. PICK f \in CallIn(D) : /\ f = End(c, "ok") /\ f.pc = "ok" /\ f.sess = 0 /\ f.rx = {}
                             /\ f.dest = c.dest /\ f.answered = c.answered
  BY EndOf DEF Ended
<1>2. PICK e : e = [f EXCEPT !.reply = m]
  OBVIOUS
<1>3. /\ e \in CallIn(D) /\ e.pc = "ok" /\ e.sess = 0 /\ e.rx = {}
      /\ e.dest = c.dest /\ e.answered = c.answered
  BY <1>1, <1>2 DEF CallIn
<1>4. QED
  BY <1>1, <1>2, <1>3

LEMMA EndStep ==
  ASSUME IInv, NEW t \in Tasks, NEW D, << >> \in D, call \in [Tasks -> CallIn(D)],
         NEW d \in CallIn(D), call' = [call EXCEPT ![t] = d], call[t].pc \in Running,
         d.pc \in Ended, d.sess = 0, d.rx = {}, d.dest = call[t].dest,
         d.answered = call[t].answered, d.pc = "ok" => call[t].answered,
         sess' = Drop(sess, call[t].sess), UNCHANGED << kind, now, pool, dest >>
  PROVE  IInv' /\ Seen
<1>1. CallInv(kind, dest, t, d)
  BY EndInv DEF IInv
<1>2. Outcome(call[t], d)
  BY DEF Outcome, Ended
<1>3. QED
  BY <1>1, <1>2, DropStep

(* A call that ends in an error, whatever it held. *)
LEMMA ErrStep ==
  ASSUME IInv, NEW t \in Tasks, call' = [call EXCEPT ![t] = End(call[t], "err")],
         call[t].pc \in Running, sess' = Drop(sess, call[t].sess),
         UNCHANGED << kind, now, pool, dest >>
  PROVE  IInv' /\ Seen
<1>1. PICK D : << >> \in D /\ call \in [Tasks -> CallIn(D)]
  BY DEF IInv
<1>2. PICK c \in CallIn(D) : c = call[t]
  BY <1>1
<1>3. PICK d \in CallIn(D) : /\ d = End(c, "err") /\ d.pc = "err" /\ d.sess = 0 /\ d.rx = {}
                             /\ d.dest = c.dest /\ d.answered = c.answered
  BY <1>1, <1>2, EndOf DEF Ended
<1>4. call' = [call EXCEPT ![t] = d]
  BY <1>2, <1>3
<1>5. QED
  BY <1>1, <1>2, <1>3, <1>4, EndStep DEF Ended

(* A call that ends with a message of the server that answers it, having   *)
(* dropped its session if it had one.                                      *)
LEMMA OkStep ==
  ASSUME IInv, NEW t \in Tasks, NEW m, Heard(kind, t, call[t], m), TakeResponse(t, m),
         kind = "udp" => ~ m.tc,
         call' = [call EXCEPT ![t] = [End(call[t], "ok") EXCEPT !.reply = m]],
         call[t].pc \in Running, sess' = Drop(sess, call[t].sess),
         UNCHANGED << kind, now, pool, dest >>
  PROVE  IInv' /\ Seen
<1>1. PICK D : << >> \in D /\ call \in [Tasks -> CallIn(D)]
  BY DEF IInv
<1>2. PICK c \in CallIn(D) : c = call[t]
  BY <1>1
<1>3. m \in From(t)
  BY DEF Heard
<1>4. m \in Msg /\ m.to # None
  BY <1>3, Messages
<1>5. PICK d : d = [End(c, "ok") EXCEPT !.reply = m]
  OBVIOUS
<1>6. /\ d \in CallIn(D) /\ d.pc = "ok" /\ d.sess = 0 /\ d.rx = {}
      /\ d.dest = c.dest /\ d.answered = c.answered
  BY <1>1, <1>4, <1>5, OkOf
<1>7. call[t].answered
  BY <1>4 DEF Heard
<1>8. call' = [call EXCEPT ![t] = d]
  BY <1>2, <1>5
<1>9. QED
  BY <1>1, <1>2, <1>6, <1>7, <1>8, EndStep DEF Ended

LEMMA GiveUpInv ==
  ASSUME IInv, NEW t \in Tasks, call[t].pc \in Running, GiveUp(t)
  PROVE  IInv' /\ Seen
<1>1. /\ call' = [call EXCEPT ![t] = End(call[t], "err")] /\ sess' = Drop(sess, call[t].sess)
      /\ UNCHANGED << kind, now, pool, dest >>
  BY DEF GiveUp
<1>2. QED
  BY <1>1, ErrStep

LEMMA ConnectFailsInv ==
  ASSUME IInv, NEW t \in Tasks, ConnectFails(t)
  PROVE  IInv' /\ Seen
<1>1. /\ call' = [call EXCEPT ![t] = End(call[t], "err")] /\ sess' = Drop(sess, call[t].sess)
      /\ UNCHANGED << kind, now, pool, dest >> /\ call[t].pc \in Running
  BY DEF ConnectFails, Running
<1>2. QED
  BY <1>1, ErrStep

LEMMA HttpBodyInv ==
  ASSUME IInv, NEW t \in Tasks, NEW m, HttpBody(t, m)
  PROVE  IInv' /\ Seen
<1>1. /\ call[t].pc = "http" /\ m \in call[t].rx /\ UNCHANGED << kind, now, pool, sess, dest >>
      /\ call[t].pc \in Running
  BY DEF HttpBody, Running
<1>2. call[t].sess = 0 /\ CallInv(kind, dest, t, call[t])
  BY <1>1, Unheld DEF Holding
<1>3. sess' = Drop(sess, call[t].sess)
  BY <1>1, <1>2 DEF Drop
<1>4. Heard(kind, t, call[t], m) /\ kind = "doh"
  BY <1>1, <1>2 DEF CallInv
<1>5. CASE TakeResponse(t, m)
  <2>1. call' = [call EXCEPT ![t] = [End(call[t], "ok") EXCEPT !.reply = m]]
    BY <1>5 DEF HttpBody
  <2>2. QED
    BY <1>1, <1>3, <1>4, <1>5, <2>1, OkStep
<1>6. CASE ~ TakeResponse(t, m)
  <2>1. call' = [call EXCEPT ![t] = End(call[t], "err")]
    BY <1>6 DEF HttpBody
  <2>2. QED
    BY <1>1, <1>3, <2>1, ErrStep
<1>7. QED
  BY <1>5, <1>6

LEMMA RecvInv ==
  ASSUME IInv, NEW t \in Tasks, NEW m, Recv(t, m)
  PROVE  IInv' /\ Seen
<1>1. /\ call[t].pc = "udp" /\ m \in call[t].rx /\ UNCHANGED << kind, now, pool, sess, dest >>
      /\ call[t].pc \in Running
  BY DEF Recv, Running
<1>2. call[t].sess = 0 /\ CallInv(kind, dest, t, call[t])
  BY <1>1, Unheld DEF Holding
<1>3. sess' = Drop(sess, call[t].sess)
  BY <1>1, <1>2 DEF Drop
<1>4. Heard(kind, t, call[t], m)
  BY <1>1, <1>2 DEF CallInv
<1>5. PICK D : << >> \in D /\ call \in [Tasks -> CallIn(D)]
  BY DEF IInv
<1>6. PICK c \in CallIn(D) : c = call[t]
  BY <1>5
<1>7. CASE TakeResponse(t, m) /\ ~ m.tc
  <2>1. call' = [call EXCEPT ![t] = [End(call[t], "ok") EXCEPT !.reply = m]]
    BY <1>7 DEF Recv
  <2>2. QED
    BY <1>1, <1>3, <1>4, <1>7, <2>1, OkStep
<1>8. CASE ~ TakeResponse(t, m) /\ c.seen + 1 = Datagrams
  <2>1. call' = [call EXCEPT ![t] = End(call[t], "err")]
    BY <1>6, <1>8 DEF Recv
  <2>2. QED
    BY <1>1, <1>3, <2>1, ErrStep
<1>9. ASSUME NEW d \in CallIn(D), call' = [call EXCEPT ![t] = d], d.pc \in {"udp", "dial"},
             d.sess = 0, d.rx \subseteq c.rx, d.answered = c.answered, d.dest = c.dest
      PROVE  IInv' /\ Seen
  <2>1. kind # "doh" /\ d.dest # << >> => d.dest = dest
    BY <1>2, <1>6, <1>9 DEF CallInv
  <2>2. CallInv(kind, dest', t, d)
    BY <1>1, <1>2, <1>6, <1>9, <2>1, LocalInv DEF Holding
  <2>3. Outcome(call[t], d)
    BY <1>1, <1>6, <1>9 DEF Outcome, Running
  <2>4. QED
    BY <1>1, <1>2, <1>5, <1>9, <2>2, <2>3, LocalStep
<1>10. CASE ~ TakeResponse(t, m) /\ c.seen + 1 # Datagrams
  <2>1. PICK n, r : n = c.seen + 1 /\ r = c.rx \ {m}
    OBVIOUS
  <2>2. n \in Nat /\ r \subseteq Msg /\ r \subseteq c.rx /\ c.sess = 0 /\ c.pc = "udp"
    BY <1>1, <1>2, <1>6, <2>1 DEF CallIn
  <2>3. PICK d : d = [c EXCEPT !.seen = n, !.rx = r]
    OBVIOUS
  <2>4. /\ d \in CallIn(D) /\ d.pc = "udp" /\ d.sess = 0 /\ d.rx = r
        /\ d.answered = c.answered /\ d.dest = c.dest
    BY <2>2, <2>3 DEF CallIn
  <2>5. call' = [call EXCEPT ![t] = d]
    BY <1>6, <1>10, <2>1, <2>3 DEF Recv
  <2>6. QED
    BY <1>9, <2>2, <2>4, <2>5
<1>11. CASE TakeResponse(t, m) /\ m.tc
  <2>1. PICK d : d = [c EXCEPT !.pc = "dial", !.rx = {}]
    OBVIOUS
  <2>2. /\ d \in CallIn(D) /\ d.pc = "dial" /\ d.sess = 0 /\ d.rx = {}
        /\ d.answered = c.answered /\ d.dest = c.dest
    BY <1>2, <1>6, <2>1 DEF CallIn, Running
  <2>3. call' = [call EXCEPT ![t] = d]
    BY <1>6, <1>11, <2>1 DEF Recv
  <2>4. QED
    BY <1>9, <2>2, <2>3
<1>12. QED
  BY <1>7, <1>8, <1>10, <1>11

(* A session that failed: tried again on a new one, or the end. *)
LEMMA FramedFailsInv ==
  ASSUME IInv, NEW t \in Tasks, call[t].pc \in {"reuse", "fresh"}, FramedFails(t),
         UNCHANGED << kind, now, dest >>
  PROVE  IInv' /\ Seen
<1>1. sess' = Drop(sess, call[t].sess) /\ pool' = pool /\ call[t].pc \in Running
  BY DEF FramedFails, Running
<1>2. CASE call[t].pc = "fresh"
  <2>1. call' = [call EXCEPT ![t] = End(call[t], "err")]
    BY <1>2 DEF FramedFails
  <2>2. QED
    BY <1>1, <2>1, ErrStep
<1>3. CASE call[t].pc = "reuse"
  <2>1. PICK D : << >> \in D /\ call \in [Tasks -> CallIn(D)]
    BY DEF IInv
  <2>2. PICK c \in CallIn(D) : c = call[t]
    BY <2>1
  <2>3. PICK d : d = [c EXCEPT !.pc = "dial", !.sess = 0]
    OBVIOUS
  <2>4. /\ d \in CallIn(D) /\ d.pc = "dial" /\ d.sess = 0 /\ d.rx = c.rx
        /\ d.answered = c.answered /\ d.dest = c.dest
    BY <2>3 DEF CallIn, Running
  <2>5. call' = [call EXCEPT ![t] = d]
    BY <1>3, <2>2, <2>3 DEF FramedFails
  <2>6. CallInv(kind, dest, t, c)
    BY <2>2 DEF IInv
  <2>7. kind # "doh" /\ d.dest # << >> => d.dest = dest
    BY <2>4, <2>6 DEF CallInv
  <2>8. CallInv(kind, dest, t, d)
    BY <2>4, <2>6, <2>7, LocalInv DEF Holding
  <2>9. Outcome(call[t], d)
    BY <1>3, <2>2, <2>4 DEF Outcome, Running
  <2>10. QED
    BY <1>1, <2>1, <2>4, <2>5, <2>8, <2>9, DropStep
<1>4. QED
  BY <1>2, <1>3
-----------------------------------------------------------------------------
(* Sessions and the pool. *)

LEMMA SessionStep ==
  ASSUME IInv, NEW t \in Tasks, NEW D, << >> \in D, call \in [Tasks -> CallIn(D)],
         NEW d \in CallIn(D), call' = [call EXCEPT ![t] = d], Outcome(call[t], d),
         UNCHANGED << kind, now, dest >>, CallInv(kind, dest, t, d),
         HolderInv(kind, now, call', pool', sess')
  PROVE  IInv' /\ Seen
<1>1. /\ call' \in [Tasks -> CallIn(D)] /\ call'[t] = d
      /\ \A u \in Tasks : u # t => call'[u] = call[u]
      /\ Seen
  BY OneCall
<1>2. \A u \in Tasks : CallInv(kind', dest', u, call'[u])
  BY <1>1, OthersInv
<1>3. HolderInv(kind', now', call', pool', sess')
  OBVIOUS
<1>4. QED
  BY <1>1, <1>2, <1>3 DEF IInv

LEMMA HeldInv ==
  ASSUME NEW k, NEW d, NEW t, NEW c, CallInv(k, d, t, c), NEW e,
         e.rx = c.rx, c.answered => e.answered, e.dest = c.dest, e.sess # 0, e.pc \in Holding,
         e.pc = "reuse" => e.took < Idle
  PROVE  CallInv(k, d, t, e)
<1>1. \A m \in e.rx : Heard(k, t, e, m)
  BY DEF CallInv, Heard
<1>2. e.pc # "http"
  BY DEF Holding
<1>3. QED
  BY <1>1, <1>2 DEF CallInv

(* A call takes session s, that was free. *)
LEMMA Grab ==
  ASSUME NEW k, NEW n, NEW cs, NEW p, NEW ss, HolderInv(k, n, cs, p, ss), DOMAIN cs = Tasks,
         NEW t \in Tasks, cs[t].sess = 0, NEW s \in Session, ss[s].state = "free",
         NEW y \in SessRec, NEW d, d.sess = s, Holds(k, t, d, y), NEW cs2, NEW ss2,
         cs2 = [cs EXCEPT ![t] = d], ss2 = [ss EXCEPT ![s] = y],
         \A u \in Tasks : cs[u].sess \in Session \cup {0}
  PROVE  HolderInv(k, n, cs2, p, ss2)
<1>1. cs2[t] = d /\ \A u \in Tasks : u # t => cs2[u] = cs[u]
  OBVIOUS
<1>2. ss \in [Session -> SessRec]
  BY DEF HolderInv
<1>3. ss2 \in [Session -> SessRec] /\ ss2[s] = y /\ \A x \in Session : x # s => ss2[x] = ss[x]
  BY <1>2
<1>4. s # 0
  BY Sessions
<1>5. ~ Pooled(p, s)
  BY DEF HolderInv, Pooled
<1>6. \A u \in Tasks : cs[u].sess # s
  BY <1>4 DEF HolderInv, Holds
<1>7. y.state # "free"
  BY DEF Holds
<1>8. \A i \in 1 .. Len(p) : ss2[p[i].s] = ss[p[i].s]
  <2>1. \A i \in 1 .. Len(p) : p[i].s \in Session /\ p[i].s # s
    BY <1>5, PoolEntry DEF Pooled
  <2>2. QED
    BY <2>1, <1>3
<1>9. \A u \in Tasks : cs2[u].sess # 0 => Holds(k, u, cs2[u], ss2[cs2[u].sess])
  <2>1. SUFFICES ASSUME NEW u \in Tasks, u # t, cs[u].sess # 0
                 PROVE  Holds(k, u, cs[u], ss2[cs[u].sess])
    BY <1>1, <1>3
  <2>2. ss2[cs[u].sess] = ss[cs[u].sess]
    BY <2>1, <1>3, <1>6
  <2>3. QED
    BY <2>1, <2>2 DEF HolderInv
<1>10. \A u \in Tasks : cs2[u].sess # 0 => ~ Pooled(p, cs2[u].sess)
  BY <1>1, <1>5 DEF HolderInv
<1>11. \A u, v \in Tasks : cs2[u].sess # 0 /\ cs2[u].sess = cs2[v].sess => u = v
  BY <1>1, <1>6 DEF HolderInv
<1>12. \A x \in Session : ss2[x].state # "free" => Pooled(p, x) \/ \E u \in Tasks : cs2[u].sess = x
  <2>1. SUFFICES ASSUME NEW x \in Session, x # s, ss2[x].state # "free"
                 PROVE  Pooled(p, x) \/ \E u \in Tasks : cs2[u].sess = x
    BY <1>1
  <2>2. Pooled(p, x) \/ \E u \in Tasks : cs[u].sess = x
    BY <2>1, <1>3 DEF HolderInv
  <2>3. \A u \in Tasks : cs[u].sess = x => cs2[u].sess = x
    <3>1. x # 0
      BY Sessions
    <3>2. QED
      BY <3>1, <1>1
  <2>4. QED
    BY <2>2, <2>3
<1>13. \A x \in Session : ss2[x].state = "free" => ss2[x] = Free
  BY <1>3, <1>7 DEF HolderInv
<1>14. QED
  BY <1>3, <1>8, <1>9, <1>10, <1>11, <1>12, <1>13 DEF HolderInv

(* A call goes on with the session it holds. *)
LEMMA Keep ==
  ASSUME NEW k, NEW n, NEW cs, NEW p, NEW ss, HolderInv(k, n, cs, p, ss), DOMAIN cs = Tasks,
         NEW t \in Tasks, NEW s \in Session, cs[t].sess = s,
         NEW y \in SessRec, NEW d, d.sess = s, Holds(k, t, d, y), NEW cs2, NEW ss2,
         cs2 = [cs EXCEPT ![t] = d], ss2 = [ss EXCEPT ![s] = y],
         \A u \in Tasks : cs[u].sess \in Session \cup {0}
  PROVE  HolderInv(k, n, cs2, p, ss2)
<1>1. cs2[t] = d /\ \A u \in Tasks : u # t => cs2[u] = cs[u]
  OBVIOUS
<1>2. ss \in [Session -> SessRec]
  BY DEF HolderInv
<1>3. ss2 \in [Session -> SessRec] /\ ss2[s] = y /\ \A x \in Session : x # s => ss2[x] = ss[x]
  BY <1>2
<1>4. s # 0
  BY Sessions
<1>5. ~ Pooled(p, s)
  BY <1>4 DEF HolderInv
<1>6. \A u \in Tasks : cs2[u].sess = cs[u].sess
  BY <1>1
<1>7. y.state # "free"
  BY DEF Holds
<1>8. \A i \in 1 .. Len(p) : ss2[p[i].s] = ss[p[i].s]
  <2>1. \A i \in 1 .. Len(p) : p[i].s \in Session /\ p[i].s # s
    BY <1>5, PoolEntry DEF Pooled
  <2>2. QED
    BY <2>1, <1>3
<1>9. \A u \in Tasks : cs2[u].sess # 0 => Holds(k, u, cs2[u], ss2[cs2[u].sess])
  <2>1. SUFFICES ASSUME NEW u \in Tasks, u # t, cs[u].sess # 0
                 PROVE  Holds(k, u, cs[u], ss2[cs[u].sess])
    BY <1>1, <1>3
  <2>2. cs[u].sess # s
    BY <2>1, <1>4 DEF HolderInv
  <2>3. ss2[cs[u].sess] = ss[cs[u].sess]
    BY <2>1, <2>2, <1>3
  <2>4. QED
    BY <2>1, <2>3 DEF HolderInv
<1>10. \A x \in Session : ss2[x].state # "free" => ss[x].state # "free"
  <2>1. ss[s].state # "free"
    BY <1>4 DEF HolderInv, Holds
  <2>2. QED
    BY <2>1, <1>3
<1>11. \A x \in Session : ss2[x].state = "free" => ss2[x] = Free
  BY <1>3, <1>7 DEF HolderInv
<1>12. QED
  BY <1>3, <1>6, <1>8, <1>9, <1>10, <1>11 DEF HolderInv
LEMMA ImageCard ==
  ASSUME NEW S, IsFiniteSet(S), NEW f, DOMAIN f = S, NEW T, T = {f[x] : x \in S}
  PROVE  IsFiniteSet(T) /\ Cardinality(T) <= Cardinality(S)
<1>1. PICK g : g = [x \in S |-> f[x]]
  OBVIOUS
<1>2. g \in [S -> T] /\ \A y \in T : \E x \in S : g[x] = y
  BY <1>1
<1>3. g \in Surjection(S, T)
  BY <1>2 DEF Surjection
<1>4. QED
  BY <1>3, FS_Surjection

(* The sessions in use are those in the pool and those of the calls in R,  *)
(* when no other call holds one.                                           *)
LEMMA InUse ==
  ASSUME IInv, NEW R, R \subseteq Tasks, \A u \in Tasks : u \notin R => call[u].sess = 0,
         NEW B, B = {s \in Session : sess[s] # Free}
  PROVE  IsFiniteSet(B) /\ Cardinality(B) <= Cap + Cardinality(R) /\ Cardinality(R) \in Nat
<1>1. HolderInv(kind, now, call, pool, sess)
  BY DEF IInv
<1>2. Len(pool) \in Nat /\ Len(pool) <= Cap
  BY <1>1, PoolEntry DEF HolderInv
<1>3. IsFiniteSet(1 .. Len(pool)) /\ Cardinality(1 .. Len(pool)) = Len(pool)
  <2>1. PICK l \in Nat : l = Len(pool)
    BY <1>2
  <2>2. IsFiniteSet(1 .. l) /\ Cardinality(1 .. l) = l
    BY FS_Interval
  <2>3. QED
    BY <2>1, <2>2
<1>4. PICK f : f = [i \in 1 .. Len(pool) |-> pool[i].s]
  OBVIOUS
<1>5. PICK P : P = {f[i] : i \in 1 .. Len(pool)}
  OBVIOUS
<1>6. IsFiniteSet(P) /\ Cardinality(P) <= Len(pool)
  BY <1>3, <1>4, <1>5, ImageCard
<1>7. IsFiniteSet(R) /\ Cardinality(R) \in Nat
  BY Sessions, FS_Subset, FS_CardinalityType
<1>8. PICK h : h = [u \in R |-> call[u].sess]
  OBVIOUS
<1>9. PICK H : H = {h[u] : u \in R}
  OBVIOUS
<1>10. IsFiniteSet(H) /\ Cardinality(H) <= Cardinality(R)
  BY <1>7, <1>8, <1>9, ImageCard
<1>11. B \subseteq P \cup H
  <2>1. SUFFICES ASSUME NEW s \in Session, sess[s] # Free PROVE s \in P \cup H
    OBVIOUS
  <2>2. sess[s].state # "free"
    BY <1>1, <2>1 DEF HolderInv
  <2>3. Pooled(pool, s) \/ \E u \in Tasks : call[u].sess = s
    BY <1>1, <2>2 DEF HolderInv
  <2>4. CASE Pooled(pool, s)
    BY <2>4, <1>4, <1>5 DEF Pooled
  <2>5. CASE \E u \in Tasks : call[u].sess = s
    <3>1. PICK u \in Tasks : call[u].sess = s
      BY <2>5
    <3>2. s # 0
      BY Sessions
    <3>3. u \in R
      BY <3>1, <3>2
    <3>4. QED
      BY <3>1, <3>3, <1>8, <1>9
  <2>6. QED
    BY <2>3, <2>4, <2>5
<1>12. /\ IsFiniteSet(P \cup H)
       /\ Cardinality(P \cup H) = Cardinality(P) + Cardinality(H) - Cardinality(P \cap H)
  BY <1>6, <1>10, FS_Union
<1>13. /\ Cardinality(P) \in Nat /\ Cardinality(H) \in Nat /\ Cardinality(P \cap H) \in Nat
  BY <1>6, <1>10, FS_Intersection, FS_CardinalityType
<1>14. IsFiniteSet(B) /\ Cardinality(B) <= Cardinality(P \cup H) /\ Cardinality(B) \in Nat
  BY <1>11, <1>12, FS_Subset, FS_CardinalityType
<1>15. QED
  BY <1>2, <1>6, <1>7, <1>10, <1>12, <1>13, <1>14, Sessions

(* A call that dials finds a session free: Session is as large as the pool *)
(* and the calls can need.                                                 *)
LEMMA FreeSession ==
  ASSUME IInv, NEW t \in Tasks, call[t].sess = 0
  PROVE  \E x \in Session : sess[x] = Free
<1>1. SUFFICES ASSUME \A x \in Session : sess[x] # Free PROVE FALSE
  OBVIOUS
<1>2. PICK R : R = Tasks \ {t}
  OBVIOUS
<1>3. Cardinality(R) = Cardinality(Tasks) - 1
  BY <1>2, Sessions, FS_RemoveElement
<1>4. PICK B : B = {s \in Session : sess[s] # Free}
  OBVIOUS
<1>5. Cardinality(B) <= Cap + Cardinality(R)
  BY <1>2, <1>4, InUse
<1>6. B = Session
  BY <1>1, <1>4
<1>7. QED
  BY <1>3, <1>5, <1>6, Sessions

LEMMA WriteOf ==
  ASSUME NEW ss \in [Session -> SessRec], NEW s \in Session, NEW t \in Tasks,
         Clean(ss[s]), ss[s].state # "free"
  PROVE  \E y \in SessRec : /\ Write(ss, s, t) = [ss EXCEPT ![s] = y] /\ y.state # "free"
                            /\ Clean(y) \/ (y.owed = << t >> /\ y.inbuf = << >>)
<1>1. PICK x \in SessRec : x = ss[s]
  OBVIOUS
<1>2. CASE x.state = "open"
  <2>1. PICK y : y = [x EXCEPT !.owed = << t >>]
    OBVIOUS
  <2>2. << t >> \in Seq(Tasks)
    OBVIOUS
  <2>3. y \in SessRec /\ y.state = "open" /\ y.owed = << t >> /\ y.inbuf = << >>
    BY <1>1, <1>2, <2>1, <2>2 DEF SessRec, Clean
  <2>4. Append(x.owed, t) = << t >>
    <3>1. x.owed = << >>
      BY <1>1 DEF Clean
    <3>2. Append(<< >>, t) = << t >>
      OBVIOUS
    <3>3. QED
      BY <3>1, <3>2
  <2>5. Write(ss, s, t) = [ss EXCEPT ![s] = y]
    BY <1>1, <1>2, <2>1, <2>4 DEF Write
  <2>6. QED
    BY <2>3, <2>5
<1>3. CASE x.state # "open"
  <2>1. Write(ss, s, t) = ss
    BY <1>1, <1>3 DEF Write
  <2>2. ss = [ss EXCEPT ![s] = x]
    BY <1>1
  <2>3. QED
    BY <1>1, <2>1, <2>2
<1>4. QED
  BY <1>2, <1>3

LEMMA HoldsWritten ==
  ASSUME NEW k, NEW t, NEW d, NEW y, d.pc \in {"reuse", "fresh"}, y.state # "free",
         Clean(y) \/ (y.owed = << t >> /\ y.inbuf = << >>)
  PROVE  Holds(k, t, d, y)
  BY DEF Holds

LEMMA DialInv ==
  ASSUME IInv, NEW t \in Tasks, Dial(t)
  PROVE  IInv' /\ Seen
<1>1. call[t].pc = "dial" /\ UNCHANGED << kind, now, dest, pool >>
  BY DEF Dial
<1>2. call[t].sess = 0 /\ CallInv(kind, dest, t, call[t])
  BY <1>1, Unheld DEF Holding
<1>3. PICK D : << >> \in D /\ call \in [Tasks -> CallIn(D)]
  BY DEF IInv
<1>4. PICK c \in CallIn(D) : c = call[t]
  BY <1>3
<1>5. HolderInv(kind, now, call, pool, sess)
  BY DEF IInv
<1>6. PICK s \in Session : s = CHOOSE x \in Session : sess[x] = Free
  BY <1>2, FreeSession
<1>7. sess[s] = Free
  BY <1>2, <1>6, FreeSession
<1>8. sess \in [Session -> SessRec] /\ DOMAIN call = Tasks
      /\ \A u \in Tasks : call[u].sess \in Session \cup {0}
  BY <1>3, <1>5 DEF HolderInv, CallIn
<1>9. PICK z : z = [Free EXCEPT !.state = "open"]
  OBVIOUS
<1>10. z \in SessRec /\ z.state = "open" /\ Clean(z)
  <2>1. z = [state |-> "open", owed |-> << >>, inbuf |-> << >>]
    BY <1>9 DEF Free
  <2>2. QED
    BY <2>1 DEF SessRec, Clean
<1>11. PICK ss : ss = [sess EXCEPT ![s] = z]
  OBVIOUS
<1>12. ss \in [Session -> SessRec] /\ ss[s] = z
  BY <1>8, <1>10, <1>11
<1>13. ss = [sess EXCEPT ![s].state = "open"]
  BY <1>7, <1>8, <1>9, <1>11
<1>14. PICK y \in SessRec : /\ sess' = [sess EXCEPT ![s] = y] /\ y.state # "free"
                            /\ kind = "tls" => Clean(y)
                            /\ Clean(y) \/ (y.owed = << t >> /\ y.inbuf = << >>)
  <2>1. CASE kind = "tls"
    <3>1. sess' = ss
      BY <1>6, <1>13, <2>1 DEF Dial
    <3>2. QED
      BY <3>1, <1>10, <1>11
  <2>2. CASE kind # "tls"
    <3>1. sess' = Write(ss, s, t)
      BY <1>6, <1>13, <2>2 DEF Dial
    <3>2. PICK y \in SessRec : /\ Write(ss, s, t) = [ss EXCEPT ![s] = y] /\ y.state # "free"
                               /\ Clean(y) \/ (y.owed = << t >> /\ y.inbuf = << >>)
      BY <1>10, <1>12, WriteOf
    <3>3. [ss EXCEPT ![s] = y] = [sess EXCEPT ![s] = y]
      BY <1>8, <1>11
    <3>4. QED
      BY <2>2, <3>1, <3>2, <3>3
  <2>3. QED
    BY <2>1, <2>2
<1>15. PICK pc : pc = IF kind = "tls" THEN "handshake" ELSE "fresh"
  OBVIOUS
<1>16. PICK d : d = [c EXCEPT !.pc = pc, !.sess = s]
  OBVIOUS
<1>17. pc \in {"handshake", "fresh"} /\ (pc = "handshake" => kind = "tls")
  BY <1>15
<1>18. /\ d \in CallIn(D) /\ d.pc = pc /\ d.sess = s /\ d.rx = c.rx /\ d.answered = c.answered
       /\ d.dest = c.dest
  BY <1>16, <1>17 DEF CallIn, Running
<1>19. call' = [call EXCEPT ![t] = d]
  BY <1>3, <1>4, <1>6, <1>15, <1>16 DEF Dial
<1>20. Holds(kind, t, d, y)
  BY <1>14, <1>17, <1>18 DEF Holds
<1>21. HolderInv(kind, now, call', pool, sess')
  <2>1. sess[s].state = "free"
    BY <1>7, FreeType
  <2>2. QED
    BY <2>1, <1>2, <1>5, <1>8, <1>14, <1>18, <1>19, <1>20, Grab
<1>22. HolderInv(kind, now, call', pool', sess')
  BY <1>1, <1>21
<1>23. CallInv(kind, dest, t, d)
  <2>1. s # 0
    BY Sessions
  <2>2. QED
    BY <2>1, <1>2, <1>4, <1>17, <1>18, HeldInv DEF Holding
<1>24. Outcome(call[t], d)
  BY <1>1, <1>4, <1>17, <1>18 DEF Outcome, Running
<1>25. QED
  BY <1>1, <1>3, <1>18, <1>19, <1>22, <1>23, <1>24, SessionStep

LEMMA HandshakeInv ==
  ASSUME IInv, NEW t \in Tasks, Handshake(t)
  PROVE  IInv' /\ Seen
<1>1. call[t].pc = "handshake" /\ UNCHANGED << kind, now, dest, pool >>
  BY DEF Handshake
<1>2. CallInv(kind, dest, t, call[t]) /\ HolderInv(kind, now, call, pool, sess)
  BY DEF IInv
<1>3. PICK D : << >> \in D /\ call \in [Tasks -> CallIn(D)]
  BY DEF IInv
<1>4. PICK c \in CallIn(D) : c = call[t]
  BY <1>3
<1>5. PICK s \in Session : s = call[t].sess /\ s # 0
  BY <1>1, <1>2, <1>4 DEF CallInv, Holding, CallIn
<1>6. sess \in [Session -> SessRec] /\ DOMAIN call = Tasks
      /\ \A u \in Tasks : call[u].sess \in Session \cup {0}
  BY <1>2, <1>3 DEF HolderInv, CallIn
<1>7. Clean(sess[s]) /\ sess[s].state # "free"
  BY <1>1, <1>2, <1>5 DEF HolderInv, Holds
<1>8. PICK y \in SessRec : /\ Write(sess, s, t) = [sess EXCEPT ![s] = y] /\ y.state # "free"
                           /\ Clean(y) \/ (y.owed = << t >> /\ y.inbuf = << >>)
  BY <1>6, <1>7, WriteOf
<1>9. sess' = [sess EXCEPT ![s] = y]
  BY <1>5, <1>8 DEF Handshake
<1>10. PICK d : d = [c EXCEPT !.pc = "fresh"]
  OBVIOUS
<1>11. /\ d \in CallIn(D) /\ d.pc = "fresh" /\ d.sess = s /\ d.rx = c.rx /\ d.answered = c.answered
       /\ d.dest = c.dest
  BY <1>4, <1>5, <1>10 DEF CallIn, Running
<1>12. call' = [call EXCEPT ![t] = d]
  BY <1>3, <1>4, <1>10 DEF Handshake
<1>13. Holds(kind, t, d, y)
  BY <1>8, <1>11, HoldsWritten
<1>14. HolderInv(kind, now, call', pool, sess')
  BY <1>2, <1>5, <1>6, <1>9, <1>11, <1>12, <1>13, Keep
<1>15. HolderInv(kind, now, call', pool', sess')
  BY <1>1, <1>14
<1>16. CallInv(kind, dest, t, d)
  BY <1>2, <1>4, <1>5, <1>11, HeldInv DEF Holding
<1>17. Outcome(call[t], d)
  BY <1>1, <1>4, <1>11 DEF Outcome, Running
<1>18. QED
  BY <1>1, <1>3, <1>11, <1>12, <1>15, <1>16, <1>17, SessionStep
(* What a call finds on the session it reads from. *)
LEMMA Reading ==
  ASSUME IInv, NEW t \in Tasks, call[t].pc \in {"reuse", "fresh"}
  PROVE  /\ call[t].sess \in Session /\ call[t].sess # 0 /\ sess[call[t].sess].state # "free"
         /\ sess[call[t].sess].inbuf # << >> =>
              /\ sess[call[t].sess].owed = << >>
              /\ \E m \in From(t) : /\ sess[call[t].sess].inbuf = << m >>
                                    /\ Heard(kind, t, call[t], m)
<1>1. PICK D : << >> \in D /\ call \in [Tasks -> CallIn(D)]
  BY DEF IInv
<1>2. PICK c \in CallIn(D) : c = call[t]
  BY <1>1
<1>3. CallInv(kind, dest, t, c) /\ HolderInv(kind, now, call, pool, sess)
  BY <1>2 DEF IInv
<1>4. c.sess \in Session /\ c.sess # 0
  BY <1>2, <1>3 DEF CallInv, CallIn, Holding
<1>5. Holds(kind, t, call[t], sess[call[t].sess])
  BY <1>2, <1>3, <1>4 DEF HolderInv
<1>6. QED
  BY <1>2, <1>4, <1>5 DEF Holds, Clean

(* StreamPool::put of the session of a call that has its answer. *)
LEMMA PutStep ==
  ASSUME IInv, NEW t \in Tasks, NEW D, << >> \in D, call \in [Tasks -> CallIn(D)],
         NEW d \in CallIn(D), call' = [call EXCEPT ![t] = d], d.sess = 0,
         NEW s \in Session, s = call[t].sess, sess[s].state # "free", sess[s].owed = << >>,
         NEW m, sess[s].inbuf = << m >>, Len(pool) < Cap,
         pool' = Append(pool, [s |-> s, since |-> now]),
         sess' = [sess EXCEPT ![s].inbuf = Tail(@)]
  PROVE  HolderInv(kind, now, call', pool', sess')
<1>1. HolderInv(kind, now, call, pool, sess) /\ now \in Nat
  BY DEF IInv
<1>2. call'[t] = d /\ \A u \in Tasks : u # t => call'[u] = call[u]
  OBVIOUS
<1>3. s # 0
  BY Sessions
<1>4. ~ Pooled(pool, s)
  BY <1>1, <1>3 DEF HolderInv
<1>5. PICK x \in SessRec : x = sess[s]
  BY <1>1 DEF HolderInv
<1>6. PICK y : y = [x EXCEPT !.inbuf = << >>]
  OBVIOUS
<1>7. y \in SessRec /\ y.state # "free" /\ Clean(y)
  <2>1. PICK q \in Seq(Msg) : q = << >>
    BY NothingSent
  <2>2. y = [x EXCEPT !.inbuf = q]
    BY <1>6, <2>1
  <2>3. y \in SessRec /\ y.state = x.state /\ y.owed = x.owed /\ y.inbuf = q
    BY <1>5, <2>2 DEF SessRec
  <2>4. QED
    BY <1>5, <2>1, <2>3 DEF Clean
<1>8. sess' = [sess EXCEPT ![s] = y]
  <2>1. Tail(<< m >>) = << >>
    OBVIOUS
  <2>2. QED
    BY <2>1, <1>1, <1>5, <1>6 DEF HolderInv
<1>9. sess' \in [Session -> SessRec] /\ sess'[s] = y /\ \A z \in Session : z # s => sess'[z] = sess[z]
  BY <1>1, <1>7, <1>8 DEF HolderInv
<1>10. PICK E : E = [s : Session, since : Nat]
  OBVIOUS
<1>11. PICK e \in E : e = [s |-> s, since |-> now] /\ e.s = s /\ e.since = now
  BY <1>1, <1>10
<1>12. pool \in Seq(E) /\ Len(pool) \in Nat /\ \A i \in 1 .. Len(pool) : pool[i].s \in Session
  <2>1. pool \in Seq(E)
    BY <1>1, <1>10 DEF HolderInv
  <2>2. QED
    BY <1>1, <2>1, PoolEntry
<1>13. /\ pool' \in Seq(E) /\ Len(pool') = Len(pool) + 1 /\ pool'[Len(pool) + 1] = e
       /\ \A i \in 1 .. Len(pool) : pool'[i] = pool[i]
  BY <1>11, <1>12
<1>14. Len(pool') <= Cap
  BY <1>12, <1>13, Sessions
<1>15. \A i \in 1 .. Len(pool) : pool[i].s # s /\ sess'[pool[i].s] = sess[pool[i].s]
  BY <1>4, <1>9, <1>12 DEF Pooled
<1>16. \A i \in 1 .. Len(pool') : i \in 1 .. Len(pool) \/ i = Len(pool) + 1
  BY <1>12, <1>13
<1>17. \A i \in 1 .. Len(pool') : /\ pool'[i].since <= now /\ sess'[pool'[i].s].state # "free"
                                  /\ Clean(sess'[pool'[i].s])
  <2>1. \A i \in 1 .. Len(pool) : /\ pool[i].since <= now /\ sess[pool[i].s].state # "free"
                                  /\ Clean(sess[pool[i].s])
    BY <1>1 DEF HolderInv
  <2>2. now <= now
    BY <1>1
  <2>3. QED
    BY <2>1, <2>2, <1>7, <1>9, <1>11, <1>13, <1>15, <1>16
<1>18. \A i, j \in 1 .. Len(pool') : pool'[i].s = pool'[j].s => i = j
  <2>1. \A i, j \in 1 .. Len(pool) : pool[i].s = pool[j].s => i = j
    BY <1>1 DEF HolderInv
  <2>2. QED
    BY <2>1, <1>11, <1>13, <1>15, <1>16
<1>19. \A z \in Session : Pooled(pool', z) <=> Pooled(pool, z) \/ z = s
  <2>1. SUFFICES ASSUME NEW z \in Session PROVE Pooled(pool', z) <=> Pooled(pool, z) \/ z = s
    OBVIOUS
  <2>2. ASSUME Pooled(pool', z) PROVE Pooled(pool, z) \/ z = s
    BY <2>2, <1>11, <1>13, <1>16 DEF Pooled
  <2>3. ASSUME Pooled(pool, z) PROVE Pooled(pool', z)
    <3>1. PICK i \in 1 .. Len(pool) : pool[i].s = z
      BY <2>3 DEF Pooled
    <3>2. i \in 1 .. Len(pool') /\ pool'[i].s = z
      BY <3>1, <1>12, <1>13
    <3>3. QED
      BY <3>2 DEF Pooled
  <2>4. Pooled(pool', s)
    <3>1. Len(pool) + 1 \in 1 .. Len(pool')
      BY <1>12, <1>13
    <3>2. QED
      BY <3>1, <1>11, <1>13 DEF Pooled
  <2>5. QED
    BY <2>2, <2>3, <2>4
<1>20. \A u \in Tasks : call'[u].sess # 0 =>
         /\ u # t /\ call'[u] = call[u] /\ call[u].sess # s /\ call[u].sess \in Session
  BY <1>1, <1>2, <1>3 DEF HolderInv, CallIn
<1>21. \A u \in Tasks : call'[u].sess # 0 => Holds(kind, u, call'[u], sess'[call'[u].sess])
  <2>1. SUFFICES ASSUME NEW u \in Tasks, call'[u].sess # 0
                 PROVE  Holds(kind, u, call'[u], sess'[call'[u].sess])
    OBVIOUS
  <2>2. call'[u] = call[u] /\ sess'[call'[u].sess] = sess[call[u].sess]
    BY <2>1, <1>9, <1>20
  <2>3. Holds(kind, u, call[u], sess[call[u].sess])
    BY <2>1, <2>2, <1>1 DEF HolderInv
  <2>4. QED
    BY <2>2, <2>3
<1>22. \A u \in Tasks : call'[u].sess # 0 => ~ Pooled(pool', call'[u].sess)
  <2>1. \A u \in Tasks : call[u].sess # 0 => ~ Pooled(pool, call[u].sess)
    BY <1>1 DEF HolderInv
  <2>2. QED
    BY <2>1, <1>19, <1>20
<1>23. \A u, v \in Tasks : call'[u].sess # 0 /\ call'[u].sess = call'[v].sess => u = v
  BY <1>1, <1>20 DEF HolderInv
<1>24. \A z \in Session : sess'[z].state # "free" => Pooled(pool', z) \/ \E u \in Tasks : call'[u].sess = z
  <2>1. SUFFICES ASSUME NEW z \in Session, z # s, sess'[z].state # "free"
                 PROVE  Pooled(pool', z) \/ \E u \in Tasks : call'[u].sess = z
    BY <1>19
  <2>2. Pooled(pool, z) \/ \E u \in Tasks : call[u].sess = z
    BY <2>1, <1>1, <1>9 DEF HolderInv
  <2>3. \A u \in Tasks : call[u].sess = z => call'[u].sess = z
    BY <2>1, <1>2
  <2>4. QED
    BY <2>2, <2>3, <1>19
<1>25. \A z \in Session : sess'[z].state = "free" => sess'[z] = Free
  BY <1>1, <1>7, <1>9 DEF HolderInv
<1>26. QED
  BY <1>9, <1>10, <1>13, <1>14, <1>17, <1>18, <1>21, <1>22, <1>23, <1>24, <1>25 DEF HolderInv

LEMMA ReadFramedInv ==
  ASSUME IInv, NEW t \in Tasks, ReadFramed(t)
  PROVE  IInv' /\ Seen
<1>1. /\ call[t].pc \in {"reuse", "fresh"} /\ sess[call[t].sess].inbuf # << >>
      /\ UNCHANGED << kind, now, dest >> /\ call[t].pc \in Running
  BY DEF ReadFramed, Running
<1>2. PICK s \in Session : s = call[t].sess /\ s # 0 /\ sess[s].state # "free" /\ sess[s].owed = << >>
  BY <1>1, Reading
<1>3. PICK m \in From(t) : sess[s].inbuf = << m >> /\ Heard(kind, t, call[t], m)
  BY <1>1, <1>2, Reading
<1>4. Head(sess[call[t].sess].inbuf) = m
  <2>1. Head(<< m >>) = m
    OBVIOUS
  <2>2. QED
    BY <2>1, <1>2, <1>3
<1>5. CASE ~ TakeResponse(t, m)
  <2>1. FramedFails(t)
    BY <1>4, <1>5 DEF ReadFramed
  <2>2. QED
    BY <2>1, <1>1, FramedFailsInv
<1>6. CASE TakeResponse(t, m) /\ kind # "udp"
  <2>1. call' = [call EXCEPT ![t] = [End(call[t], "ok") EXCEPT !.reply = m]] /\ Put(s)
    BY <1>2, <1>4, <1>6 DEF ReadFramed
  <2>2. CASE ~ (Len(pool) < Cap)
    <3>1. sess' = Drop(sess, call[t].sess) /\ pool' = pool
      BY <2>1, <2>2, <1>2 DEF Put
    <3>2. QED
      BY <2>1, <3>1, <1>1, <1>3, <1>6, OkStep
  <2>3. CASE Len(pool) < Cap
    <3>1. /\ pool' = Append(pool, [s |-> s, since |-> now])
          /\ sess' = [sess EXCEPT ![s].inbuf = Tail(@)]
      BY <2>1, <2>3 DEF Put
    <3>2. PICK D : << >> \in D /\ call \in [Tasks -> CallIn(D)]
      BY DEF IInv
    <3>3. PICK c \in CallIn(D) : c = call[t]
      BY <3>2
    <3>4. m \in Msg /\ m.to # None
      BY <1>6, Messages
    <3>5. PICK d : d = [End(c, "ok") EXCEPT !.reply = m]
      OBVIOUS
    <3>6. /\ d \in CallIn(D) /\ d.pc = "ok" /\ d.sess = 0 /\ d.rx = {}
          /\ d.dest = c.dest /\ d.answered = c.answered
      BY <3>2, <3>4, <3>5, OkOf
    <3>7. call' = [call EXCEPT ![t] = d]
      BY <2>1, <3>3, <3>5
    <3>8. HolderInv(kind, now, call', pool', sess')
      BY <1>2, <1>3, <2>3, <3>1, <3>2, <3>6, <3>7, PutStep
    <3>9. CallInv(kind, dest, t, c)
      BY <3>3 DEF IInv
    <3>10. CallInv(kind, dest, t, d)
      BY <3>6, <3>9, EndInv DEF Ended
    <3>11. c.answered
      BY <1>3, <1>6, <3>3, <3>4 DEF Heard
    <3>12. Outcome(call[t], d)
      BY <1>1, <3>3, <3>6, <3>11 DEF Outcome
    <3>13. QED
      BY <1>1, <3>2, <3>6, <3>7, <3>8, <3>10, <3>12, SessionStep
  <2>4. QED
    BY <2>2, <2>3
<1>7. CASE TakeResponse(t, m) /\ kind = "udp"
  <2>1. sess' = Drop(sess, call[t].sess) /\ pool' = pool
    BY <1>4, <1>7 DEF ReadFramed
  <2>2. CASE m.tc
    <3>1. call' = [call EXCEPT ![t] = End(call[t], "err")]
      BY <1>4, <1>7, <2>2 DEF ReadFramed
    <3>2. QED
      BY <2>1, <3>1, <1>1, ErrStep
  <2>3. CASE ~ m.tc
    <3>1. call' = [call EXCEPT ![t] = [End(call[t], "ok") EXCEPT !.reply = m]]
      BY <1>4, <1>7, <2>3 DEF ReadFramed
    <3>2. QED
      BY <2>1, <2>3, <3>1, <1>1, <1>3, <1>7, OkStep
  <2>4. QED
    BY <2>2, <2>3
<1>8. QED
  BY <1>5, <1>6, <1>7

LEMMA ReadFailsInv ==
  ASSUME IInv, NEW t \in Tasks, ReadFails(t)
  PROVE  IInv' /\ Seen
  BY FramedFailsInv DEF ReadFails
(* The sessions ss after those behind the j-th of pool p are dropped. *)
Trimmed(p, ss, j) ==
  [x \in Session |-> IF x \in {p[i].s : i \in (j + 1) .. Len(p)} THEN Free ELSE ss[x]]

(* StreamPool::take pops the sessions behind the j-th; those dropped are   *)
(* free, and so, for the moment, is the one that is handed out.            *)
LEMMA Trim ==
  ASSUME NEW k, NEW n, NEW cs, NEW p, NEW ss, HolderInv(k, n, cs, p, ss), NEW j \in 0 .. Len(p),
         \A u \in Tasks : cs[u].sess \in Session \cup {0}
  PROVE  HolderInv(k, n, cs, SubSeq(p, 1, j), Trimmed(p, ss, j))
<1>1. PICK p2, G, ss2 : /\ p2 = SubSeq(p, 1, j) /\ G = {p[i].s : i \in (j + 1) .. Len(p)}
                        /\ ss2 = Trimmed(p, ss, j)
  OBVIOUS
<1>2. ss2 = [x \in Session |-> IF x \in G THEN Free ELSE ss[x]]
  BY <1>1 DEF Trimmed
<1>3. PICK E : E = [s : Session, since : Nat]
  OBVIOUS
<1>4. p \in Seq(E) /\ Len(p) <= Cap /\ ss \in [Session -> SessRec]
  BY <1>3 DEF HolderInv
<1>5. Len(p) \in Nat /\ \A i \in 1 .. Len(p) : p[i].s \in Session
  BY PoolEntry
<1>6. p2 \in Seq(E) /\ Len(p2) = j /\ \A i \in 1 .. j : p2[i] = p[i] /\ i \in 1 .. Len(p)
  BY <1>1, <1>4, <1>5
<1>7. Len(p2) <= Cap
  BY <1>4, <1>5, <1>6, Sessions
<1>8. ss2 \in [Session -> SessRec] /\ \A x \in Session : x \notin G => ss2[x] = ss[x]
  BY <1>2, <1>4, FreeType
<1>9. \A i \in 1 .. j : p2[i].s \in Session /\ p2[i].s \notin G
  <2>1. SUFFICES ASSUME NEW i \in 1 .. j, NEW h \in (j + 1) .. Len(p), p[i].s = p[h].s PROVE FALSE
    BY <1>1, <1>5, <1>6
  <2>2. i \in 1 .. Len(p) /\ h \in 1 .. Len(p) /\ i # h
    BY <1>5
  <2>3. QED
    BY <2>1, <2>2 DEF HolderInv
<1>10. \A i \in 1 .. j : /\ p2[i].since <= n /\ ss2[p2[i].s].state # "free"
                        /\ Clean(ss2[p2[i].s])
  <2>1. \A i \in 1 .. Len(p) : p[i].since <= n /\ ss[p[i].s].state # "free" /\ Clean(ss[p[i].s])
    BY DEF HolderInv
  <2>2. QED
    BY <2>1, <1>6, <1>8, <1>9
<1>11. \A i, h \in 1 .. j : p2[i].s = p2[h].s => i = h
  BY <1>6 DEF HolderInv
<1>12. \A x \in G : Pooled(p, x)
  BY <1>1, <1>5 DEF Pooled
<1>13. \A u \in Tasks : cs[u].sess # 0 => Holds(k, u, cs[u], ss2[cs[u].sess])
  <2>1. SUFFICES ASSUME NEW u \in Tasks, cs[u].sess # 0 PROVE Holds(k, u, cs[u], ss2[cs[u].sess])
    OBVIOUS
  <2>2. cs[u].sess \notin G
    BY <2>1, <1>12 DEF HolderInv
  <2>3. ss2[cs[u].sess] = ss[cs[u].sess]
    BY <2>1, <2>2, <1>8
  <2>4. QED
    BY <2>1, <2>3 DEF HolderInv
<1>14. \A x : Pooled(p2, x) => Pooled(p, x)
  BY <1>6 DEF Pooled
<1>15. \A u \in Tasks : cs[u].sess # 0 => ~ Pooled(p2, cs[u].sess)
  BY <1>14 DEF HolderInv
<1>16. \A x \in Session : ss2[x].state # "free" => Pooled(p2, x) \/ \E u \in Tasks : cs[u].sess = x
  <2>1. SUFFICES ASSUME NEW x \in Session, ss2[x].state # "free", Pooled(p, x)
                 PROVE  Pooled(p2, x)
    <3>1. \A x \in Session : ss2[x].state # "free" => ss[x].state # "free"
      BY <1>2, FreeType
    <3>2. QED
      BY <3>1 DEF HolderInv
  <2>2. x \notin G
    BY <1>2, <2>1, FreeType
  <2>3. PICK i \in 1 .. Len(p) : p[i].s = x
    BY <2>1 DEF Pooled
  <2>4. i \in 1 .. j
    BY <1>1, <2>2, <2>3, <1>5
  <2>5. QED
    BY <2>3, <2>4, <1>6 DEF Pooled
<1>17. \A x \in Session : ss2[x].state = "free" => ss2[x] = Free
  BY <1>2 DEF HolderInv
<1>18. \A u, v \in Tasks : cs[u].sess # 0 /\ cs[u].sess = cs[v].sess => u = v
  BY DEF HolderInv
<1>19. HolderInv(k, n, cs, p2, ss2)
  BY <1>3, <1>6, <1>7, <1>8, <1>10, <1>11, <1>13, <1>15, <1>16, <1>17, <1>18 DEF HolderInv
<1>20. QED
  BY <1>1, <1>19

LEMMA UsePoolInv ==
  ASSUME IInv, NEW t \in Tasks, UsePool(t)
  PROVE  IInv' /\ Seen
<1>1. call[t].pc = "ready" /\ UNCHANGED << kind, now, dest >>
  BY DEF UsePool
<1>2. call[t].sess = 0 /\ CallInv(kind, dest, t, call[t])
  BY <1>1, Unheld DEF Holding
<1>3. PICK D : << >> \in D /\ call \in [Tasks -> CallIn(D)]
  BY DEF IInv
<1>4. PICK c \in CallIn(D) : c = call[t]
  BY <1>3
<1>5. HolderInv(kind, now, call, pool, sess) /\ now \in Nat
  BY DEF IInv
<1>6. Len(pool) \in Nat /\ \A i \in 1 .. Len(pool) : pool[i].s \in Session /\ pool[i].since \in Nat
  BY <1>5, PoolEntry
<1>7. DOMAIN call = Tasks /\ \A u \in Tasks : call[u].sess \in Session \cup {0}
  BY <1>3 DEF CallIn
<1>8. PICK j \in 0 .. Len(pool) : j = Taken /\ (j # 0 => Takeable(j))
  BY <1>6, TakenIndex
<1>9. PICK G : G = {pool[i].s : i \in (j + 1) .. Len(pool)}
  OBVIOUS
<1>10. PICK ss : ss = [x \in Session |-> IF x \in G THEN Free ELSE sess[x]]
  OBVIOUS
<1>11. CASE j = 0
  <2>1. pool' = << >> /\ sess' = ss /\ call' = [call EXCEPT ![t].pc = "dial"]
    BY <1>8, <1>9, <1>10, <1>11 DEF UsePool
  <2>2. SubSeq(pool, 1, 0) = << >>
    BY <1>6
  <2>3. HolderInv(kind, now, call, pool', sess')
    <3>1. ss = Trimmed(pool, sess, j)
      BY <1>9, <1>10 DEF Trimmed
    <3>2. HolderInv(kind, now, call, SubSeq(pool, 1, j), Trimmed(pool, sess, j))
      BY <1>5, <1>7, <1>8, Trim
    <3>3. QED
      BY <2>1, <2>2, <3>1, <3>2, <1>11
  <2>4. PICK d : d = [c EXCEPT !.pc = "dial"]
    OBVIOUS
  <2>5. /\ d \in CallIn(D) /\ d.pc = "dial" /\ d.sess = 0 /\ d.rx = c.rx /\ d.answered = c.answered
        /\ d.dest = c.dest
    BY <1>2, <1>4, <2>4 DEF CallIn, Running
  <2>6. call' = [call EXCEPT ![t] = d]
    BY <1>4, <2>1, <2>4
  <2>7. call'[t] = d /\ \A u \in Tasks : u # t => call'[u] = call[u]
    BY <1>3, <2>6
  <2>8. HolderInv(kind, now, call', pool', sess')
    <3>1. \A u \in Tasks : /\ call'[u].sess = call[u].sess
                           /\ call'[u].sess # 0 => call'[u] = call[u]
      BY <1>2, <2>5, <2>7
    <3>2. QED
      BY <2>3, <3>1, SameHolders
  <2>9. CallInv(kind, dest, t, d)
    <3>1. kind # "doh" /\ d.dest # << >> => d.dest = dest
      BY <1>2, <1>4, <2>5 DEF CallInv
    <3>2. QED
      BY <3>1, <1>2, <1>4, <2>5, LocalInv DEF Holding
  <2>10. Outcome(call[t], d)
    BY <1>1, <1>4, <2>5 DEF Outcome, Running
  <2>11. QED
    BY <1>1, <1>3, <2>5, <2>6, <2>8, <2>9, <2>10, SessionStep
<1>12. CASE j # 0
  <2>1. j \in 1 .. Len(pool) /\ j - 1 \in 0 .. Len(pool)
    BY <1>6, <1>12
  <2>2. PICK s \in Session : s = pool[j].s
    BY <1>6, <2>1
  <2>3. /\ pool' = SubSeq(pool, 1, j - 1) /\ sess' = Write(ss, s, t)
        /\ call' = [call EXCEPT ![t].pc = "reuse", ![t].sess = s, ![t].took = now - pool[j].since]
    BY <1>8, <1>9, <1>10, <1>12, <2>2 DEF UsePool
  <2>4. PICK G2 : G2 = {pool[i].s : i \in ((j - 1) + 1) .. Len(pool)}
    OBVIOUS
  <2>5. s \in G2 /\ G2 = G \cup {s} /\ s \notin G
    <3>1. (j - 1) + 1 = j /\ \A i : i \in j .. Len(pool) <=> i = j \/ i \in (j + 1) .. Len(pool)
      BY <1>6, <2>1
    <3>2. s \in G2 /\ G2 = G \cup {s}
      BY <3>1, <1>9, <2>2, <2>4
    <3>3. s \notin G
      <4>1. SUFFICES ASSUME NEW i \in (j + 1) .. Len(pool), pool[i].s = pool[j].s PROVE FALSE
        BY <1>9, <2>2
      <4>2. i \in 1 .. Len(pool) /\ i # j
        BY <1>6
      <4>3. QED
        BY <1>5, <2>1, <4>1, <4>2 DEF HolderInv
    <3>4. QED
      BY <3>2, <3>3
  <2>6. PICK ss2 : ss2 = [x \in Session |-> IF x \in G2 THEN Free ELSE sess[x]]
    OBVIOUS
  <2>7. HolderInv(kind, now, call, pool', ss2)
    <3>1. ss2 = Trimmed(pool, sess, j - 1)
      BY <2>4, <2>6 DEF Trimmed
    <3>2. HolderInv(kind, now, call, SubSeq(pool, 1, j - 1), Trimmed(pool, sess, j - 1))
      BY <2>1, <1>5, <1>7, Trim
    <3>3. QED
      BY <2>3, <3>1, <3>2
  <2>8. ss \in [Session -> SessRec] /\ ss[s] = sess[s] /\ sess \in [Session -> SessRec]
    BY <1>5, <1>10, <2>5, FreeType DEF HolderInv
  <2>9. Clean(ss[s]) /\ ss[s].state # "free"
    BY <1>5, <2>1, <2>2, <2>8 DEF HolderInv
  <2>10. PICK y \in SessRec : /\ Write(ss, s, t) = [ss EXCEPT ![s] = y] /\ y.state # "free"
                              /\ Clean(y) \/ (y.owed = << t >> /\ y.inbuf = << >>)
    <3>1. ss \in [Session -> SessRec]
      BY <2>8
    <3>2. QED
      BY <3>1, <2>9, WriteOf
  <2>11. sess' = [ss2 EXCEPT ![s] = y]
    <3>1. sess' = [ss EXCEPT ![s] = y]
      BY <2>3, <2>10
    <3>2. \A x \in Session : x # s => ss2[x] = ss[x]
      BY <1>10, <2>5, <2>6
    <3>3. DOMAIN ss = Session /\ DOMAIN ss2 = Session
      BY <1>10, <2>6
    <3>4. ss = [x \in Session |-> ss[x]] /\ ss2 = [x \in Session |-> ss2[x]]
      BY <1>10, <2>6
    <3>5. QED
      BY <3>1, <3>2, <3>3, <3>4
  <2>12. PICK k \in Nat : k = now - pool[j].since /\ k < Idle
    <3>1. pool[j].since <= now
      BY <1>5, <2>1 DEF HolderInv
    <3>2. now - pool[j].since < Idle
      BY <1>8, <1>12 DEF Takeable
    <3>3. QED
      BY <3>1, <3>2, <1>5, <1>6, <2>1
  <2>13. PICK d : d = [c EXCEPT !.pc = "reuse", !.sess = s, !.took = k]
    OBVIOUS
  <2>14. /\ d \in CallIn(D) /\ d.pc = "reuse" /\ d.sess = s /\ d.rx = c.rx /\ d.answered = c.answered
         /\ d.dest = c.dest /\ d.took = k
    BY <2>13 DEF CallIn, Running
  <2>15. call' = [call EXCEPT ![t] = d]
    BY <1>3, <1>4, <2>3, <2>12, <2>13
  <2>16. Holds(kind, t, d, y)
    BY <2>10, <2>14, HoldsWritten
  <2>17. ss2[s].state = "free"
    BY <2>5, <2>6, FreeType
  <2>18. HolderInv(kind, now, call', pool', sess')
    BY <1>2, <1>7, <2>7, <2>11, <2>14, <2>15, <2>16, <2>17, Grab
  <2>19. CallInv(kind, dest, t, d)
    <3>1. s # 0
      BY Sessions
    <3>2. QED
      BY <3>1, <1>2, <1>4, <2>12, <2>14, HeldInv DEF Holding
  <2>20. Outcome(call[t], d)
    BY <1>1, <1>4, <2>14 DEF Outcome, Running
  <2>21. QED
    BY <1>1, <1>3, <2>14, <2>15, <2>18, <2>19, <2>20, SessionStep
<1>13. QED
  BY <1>11, <1>12
-----------------------------------------------------------------------------
(* The server and the clock. *)

(* The holder of a session that is not free. *)
LEMMA Holder ==
  ASSUME IInv, NEW s \in Session, sess[s].state # "free"
  PROVE  \/ /\ Clean(sess[s]) /\ Pooled(pool, s)
         \/ \E t \in Tasks : call[t].sess = s /\ call[t].pc \in Holding /\ Holds(kind, t, call[t], sess[s])
<1>1. HolderInv(kind, now, call, pool, sess) /\ \A t \in Tasks : CallInv(kind, dest, t, call[t])
  BY DEF IInv
<1>2. s # 0
  BY Sessions
<1>3. Pooled(pool, s) \/ \E t \in Tasks : call[t].sess = s
  BY <1>1 DEF HolderInv
<1>4. CASE Pooled(pool, s)
  BY <1>1, <1>4 DEF HolderInv, Pooled
<1>5. CASE \E t \in Tasks : call[t].sess = s
  <2>1. PICK t \in Tasks : call[t].sess = s
    BY <1>5
  <2>2. call[t].pc \in Holding
    BY <1>1, <1>2, <2>1 DEF CallInv
  <2>3. Holds(kind, t, call[t], sess[s])
    BY <1>1, <1>2, <2>1 DEF HolderInv
  <2>4. QED
    BY <2>1, <2>2, <2>3
<1>6. QED
  BY <1>3, <1>4, <1>5

LEMMA ServeSessionInv ==
  ASSUME IInv, NEW s \in Session, NEW m, ServeSession(s, m)
  PROVE  IInv' /\ Seen
<1>1. sess[s].state = "open" /\ sess[s].owed # << >> /\ UNCHANGED << kind, now, dest, pool >>
  BY DEF ServeSession
<1>2. PICK t \in Tasks : call[t].sess = s /\ call[t].pc \in Holding /\ Holds(kind, t, call[t], sess[s])
  BY <1>1, Holder DEF Clean
<1>3. call[t].pc \in {"reuse", "fresh"} /\ sess[s].owed = << t >> /\ sess[s].inbuf = << >>
  BY <1>1, <1>2 DEF Holds, Clean, Holding
<1>4. Head(sess[s].owed) = t
  <2>1. Head(<< t >>) = t
    OBVIOUS
  <2>2. QED
    BY <1>3, <2>1
<1>5. m \in From(t)
  BY <1>4 DEF ServeSession, From
<1>6. m \in Msg /\ m.to \in {t, None}
  BY <1>5, Messages
<1>7. PICK D : << >> \in D /\ call \in [Tasks -> CallIn(D)]
  BY DEF IInv
<1>8. PICK c \in CallIn(D) : c = call[t]
  BY <1>7
<1>9. CallInv(kind, dest, t, c) /\ HolderInv(kind, now, call, pool, sess)
  BY <1>8 DEF IInv
<1>10. DOMAIN call = Tasks /\ \A u \in Tasks : call[u].sess \in Session \cup {0}
  BY <1>7 DEF CallIn
<1>11. PICK x \in SessRec : x = sess[s]
  BY <1>9 DEF HolderInv
<1>12. PICK o \in Seq(Tasks), b \in Seq(Msg) : o = << >> /\ b = << m >>
  BY <1>6, NothingSent
<1>13. PICK y : y = [x EXCEPT !.owed = o, !.inbuf = b]
  OBVIOUS
<1>14. y \in SessRec /\ y.state = "open" /\ y.owed = << >> /\ y.inbuf = << m >>
  BY <1>1, <1>11, <1>12, <1>13 DEF SessRec
<1>15. sess' = [sess EXCEPT ![s] = y]
  <2>1. Tail(<< t >>) = << >> /\ Append(<< >>, m) = << m >>
    OBVIOUS
  <2>2. Tail(sess[s].owed) = o /\ Append(sess[s].inbuf, m) = b
    BY <1>3, <1>12, <2>1
  <2>3. sess' = [sess EXCEPT ![s].owed = Tail(@), ![s].inbuf = Append(@, m)]
    BY DEF ServeSession
  <2>4. QED
    BY <2>2, <2>3, <1>9, <1>11, <1>13 DEF HolderInv
<1>16. PICK a \in BOOLEAN : a = (c.answered \/ Answers(m))
  BY Zenon
<1>17. PICK d : d = [c EXCEPT !.answered = a]
  OBVIOUS
<1>18. /\ d \in CallIn(D) /\ d.pc = c.pc /\ d.sess = s /\ d.rx = c.rx /\ d.answered = a
       /\ d.dest = c.dest /\ d.took = c.took
  BY <1>2, <1>8, <1>17 DEF CallIn
<1>19. call' = [call EXCEPT ![t] = d]
  <2>1. CASE Answers(m)
    <3>1. m.to = t
      BY <1>6, <2>1 DEF Answers
    <3>2. a = TRUE
      BY <1>16, <2>1
    <3>3. call' = [call EXCEPT ![t].answered = TRUE]
      BY <2>1, <3>1 DEF ServeSession
    <3>4. QED
      BY <3>2, <3>3, <1>7, <1>8, <1>17
  <2>2. CASE ~ Answers(m)
    <3>1. call' = call
      BY <2>2 DEF ServeSession
    <3>2. a = c.answered
      BY <1>16, <2>2 DEF CallIn
    <3>3. d = c
      BY <3>2, <1>17 DEF CallIn
    <3>4. call = [call EXCEPT ![t] = call[t]]
      BY <1>7
    <3>5. QED
      BY <3>1, <3>3, <3>4, <1>8
  <2>3. QED
    BY <2>1, <2>2
<1>20. Heard(kind, t, d, m)
  BY <1>5, <1>16, <1>18 DEF Heard, Answers
<1>21. Holds(kind, t, d, y)
  <2>1. d.pc \in {"reuse", "fresh"}
    BY <1>3, <1>8, <1>18
  <2>2. QED
    BY <2>1, <1>5, <1>14, <1>20 DEF Holds
<1>22. HolderInv(kind, now, call', pool', sess')
  <2>1. HolderInv(kind, now, call', pool, sess')
    BY <1>2, <1>9, <1>10, <1>14, <1>15, <1>18, <1>19, <1>21, Keep
  <2>2. QED
    BY <2>1, <1>1
<1>23. CallInv(kind, dest, t, d)
  <2>1. s # 0
    BY Sessions
  <2>2. c.answered => d.answered
    BY <1>16, <1>18
  <2>3. d.pc = "reuse" => d.took < Idle
    BY <1>9, <1>18 DEF CallInv
  <2>4. QED
    BY <2>1, <2>2, <2>3, <1>2, <1>8, <1>9, <1>18, HeldInv
<1>24. Outcome(call[t], d)
  <2>1. c.pc \in Running
    BY <1>2, <1>8, Phases
  <2>2. CASE a
    BY <2>1, <2>2, <1>8, <1>18 DEF Outcome
  <2>3. CASE ~ a
    <3>1. c.answered = FALSE
      BY <2>3, <1>16 DEF CallIn
    <3>2. QED
      BY <2>3, <3>1, <1>8, <1>18 DEF Outcome
  <2>4. QED
    BY <2>2, <2>3
<1>25. QED
  BY <1>1, <1>7, <1>18, <1>19, <1>22, <1>23, <1>24, SessionStep

LEMMA CloseSessionInv ==
  ASSUME IInv, NEW s \in Session, CloseSession(s)
  PROVE  IInv' /\ Seen
<1>1. sess[s].state = "open" /\ UNCHANGED << kind, now, dest, pool, call >>
  BY DEF CloseSession
<1>2. Seen
  BY <1>1 DEF Seen
<1>3. HolderInv(kind, now, call, pool, sess)
  BY DEF IInv
<1>4. PICK D : << >> \in D /\ call \in [Tasks -> CallIn(D)]
  BY DEF IInv
<1>5. DOMAIN call = Tasks /\ \A u \in Tasks : call[u].sess \in Session \cup {0}
  BY <1>4 DEF CallIn
<1>6. PICK x \in SessRec : x = sess[s]
  BY <1>3 DEF HolderInv
<1>7. PICK o \in Seq(Tasks) : o = << >>
  BY NothingSent
<1>8. PICK y : y = [x EXCEPT !.state = "closed", !.owed = o]
  OBVIOUS
<1>9. y \in SessRec /\ y.state = "closed" /\ y.owed = << >> /\ y.inbuf = x.inbuf
  BY <1>7, <1>8 DEF SessRec
<1>10. sess' = [sess EXCEPT ![s] = y]
  BY <1>3, <1>6, <1>7, <1>8 DEF CloseSession, HolderInv
<1>11. CASE \E t \in Tasks : /\ call[t].sess = s /\ call[t].pc \in Holding
                             /\ Holds(kind, t, call[t], sess[s])
  <2>1. PICK t \in Tasks : /\ call[t].sess = s /\ call[t].pc \in Holding
                           /\ Holds(kind, t, call[t], sess[s])
    BY <1>11
  <2>2. Holds(kind, t, call[t], y)
    BY <2>1, <1>6, <1>9 DEF Holds, Clean
  <2>3. PICK d : d = call[t]
    OBVIOUS
  <2>4. PICK cs : cs = [call EXCEPT ![t] = d]
    OBVIOUS
  <2>5. cs = call
    BY <1>4, <2>3, <2>4
  <2>6. HolderInv(kind, now, call, pool, sess')
    <3>1. d.sess = s /\ Holds(kind, t, d, y)
      BY <2>1, <2>2, <2>3
    <3>2. HolderInv(kind, now, cs, pool, sess')
      BY <3>1, <2>1, <2>4, <1>3, <1>5, <1>9, <1>10, Keep
    <3>3. QED
      BY <3>2, <2>5
  <2>7. QED
    BY <2>6, <1>1, <1>2 DEF IInv
<1>12. CASE Clean(sess[s]) /\ Pooled(pool, s)
  <2>1. Clean(y) /\ y.state # "free"
    BY <1>6, <1>9, <1>12 DEF Clean
  <2>2. sess' \in [Session -> SessRec] /\ sess'[s] = y /\ \A z \in Session : z # s => sess'[z] = sess[z]
    BY <1>3, <1>9, <1>10 DEF HolderInv
  <2>3. \A z \in Session : sess'[z].state = "free" => sess'[z] = Free
    BY <1>3, <2>1, <2>2 DEF HolderInv
  <2>4. \A i \in 1 .. Len(pool) : /\ pool[i].since <= now /\ sess'[pool[i].s].state # "free"
                                  /\ Clean(sess'[pool[i].s])
    <3>1. \A i \in 1 .. Len(pool) : pool[i].s \in Session
      BY <1>3, PoolEntry
    <3>2. \A i \in 1 .. Len(pool) : /\ pool[i].since <= now /\ sess[pool[i].s].state # "free"
                                    /\ Clean(sess[pool[i].s])
      BY <1>3 DEF HolderInv
    <3>3. QED
      BY <3>1, <3>2, <2>1, <2>2
  <2>5. \A t \in Tasks : call[t].sess # 0 => Holds(kind, t, call[t], sess'[call[t].sess])
    <3>1. SUFFICES ASSUME NEW t \in Tasks, call[t].sess # 0
                   PROVE  Holds(kind, t, call[t], sess'[call[t].sess])
      OBVIOUS
    <3>2. call[t].sess # s
      BY <3>1, <1>3, <1>12 DEF HolderInv
    <3>3. sess'[call[t].sess] = sess[call[t].sess]
      BY <3>1, <3>2, <1>5, <2>2
    <3>4. QED
      BY <3>1, <3>3, <1>3 DEF HolderInv
  <2>6. \A z \in Session : sess'[z].state # "free" => Pooled(pool, z) \/ \E t \in Tasks : call[t].sess = z
    BY <1>3, <1>12, <2>2 DEF HolderInv
  <2>7. HolderInv(kind, now, call, pool, sess')
    BY <1>3, <2>2, <2>3, <2>4, <2>5, <2>6 DEF HolderInv
  <2>8. QED
    BY <2>7, <1>1, <1>2 DEF IInv
<1>13. QED
  BY <1>1, <1>11, <1>12, Holder

LEMMA TickInv ==
  ASSUME IInv, Tick
  PROVE  IInv' /\ Seen
<1>1. now' = now + 1 /\ UNCHANGED << kind, dest, pool, sess, call >> /\ now \in Nat
  BY DEF Tick, IInv
<1>2. HolderInv(kind, now, call, pool, sess)
  BY DEF IInv
<1>3. Len(pool) \in Nat /\ \A i \in 1 .. Len(pool) : pool[i].since \in Nat
  BY <1>2, PoolEntry
<1>4. \A i \in 1 .. Len(pool) : pool[i].since <= now + 1
  BY <1>1, <1>2, <1>3 DEF HolderInv
<1>5. HolderInv(kind, now + 1, call, pool, sess)
  BY <1>2, <1>4 DEF HolderInv
<1>6. QED
  BY <1>1, <1>5 DEF IInv, Seen
-----------------------------------------------------------------------------

LEMMA InitIInv == Init => IInv
<1>1. SUFFICES ASSUME Init PROVE IInv
  OBVIOUS
<1>2. PICK D : D = {<< >>}
  OBVIOUS
<1>3. PICK c : c = [pc |-> "idle", due |-> 0, ips |-> << >>, open |-> {}, bdue |-> 0, dest |-> << >>,
                    sess |-> 0, took |-> 0, seen |-> 0, rx |-> {}, sent |-> 0, reply |-> NoMsg,
                    answered |-> FALSE, famOk |-> {}]
  OBVIOUS
<1>4. call = [t \in Tasks |-> c] /\ now = 0 /\ pool = << >> /\ sess = [s \in Session |-> Free]
  BY <1>1, <1>3 DEF Init
<1>5. << >> \in D
  BY <1>2
<1>6. c \in CallIn(D) /\ c.pc = "idle" /\ c.sess = 0 /\ c.rx = {} /\ c.dest = << >>
  BY <1>3, <1>5, NoMsgType DEF CallIn
<1>7. call \in [Tasks -> CallIn(D)] /\ \A t \in Tasks : call[t] = c
  BY <1>4, <1>6
<1>8. \A t \in Tasks : CallInv(kind, dest, t, call[t])
  BY <1>6, <1>7 DEF CallInv, Holding
<1>9. sess \in [Session -> SessRec] /\ \A s \in Session : sess[s] = Free
  BY <1>4, FreeType
<1>10. pool \in Seq([s : Session, since : Nat]) /\ Len(pool) = 0
  BY <1>4
<1>11. HolderInv(kind, now, call, pool, sess)
  <2>1. Len(pool) <= Cap /\ 1 .. Len(pool) = {}
    BY <1>10, Sessions
  <2>2. \A s \in Session : sess[s].state = "free"
    BY <1>9, FreeType
  <2>3. \A t \in Tasks : call[t].sess = 0
    BY <1>6, <1>7
  <2>4. QED
    BY <1>9, <1>10, <2>1, <2>2, <2>3 DEF HolderInv
<1>12. QED
  BY <1>4, <1>5, <1>7, <1>8, <1>11 DEF IInv

LEMMA NextIInv == IInv /\ [Next]_vars => IInv' /\ Seen
<1>1. SUFFICES ASSUME IInv, [Next]_vars PROVE IInv' /\ Seen
  OBVIOUS
<1>2. ASSUME NEW t \in Tasks,
             \/ Begin(t) \/ UsePool(t) \/ Dial(t) \/ Handshake(t) \/ ConnectFails(t)
             \/ ReadFramed(t) \/ ReadFails(t) \/ Send(t) \/ Timeout(t) \/ Cancel(t)
      PROVE  IInv' /\ Seen
  <2>1. CASE Begin(t)
    BY <1>1, <2>1, BeginInv
  <2>2. CASE UsePool(t)
    BY <1>1, <2>2, UsePoolInv
  <2>3. CASE Dial(t)
    BY <1>1, <2>3, DialInv
  <2>4. CASE Handshake(t)
    BY <1>1, <2>4, HandshakeInv
  <2>5. CASE ConnectFails(t)
    BY <1>1, <2>5, ConnectFailsInv
  <2>6. CASE ReadFramed(t)
    BY <1>1, <2>6, ReadFramedInv
  <2>7. CASE ReadFails(t)
    BY <1>1, <2>7, ReadFailsInv
  <2>8. CASE Send(t)
    BY <1>1, <2>8, SendInv
  <2>9. CASE Timeout(t)
    BY <1>1, <2>9, GiveUpInv DEF Timeout
  <2>10. CASE Cancel(t)
    BY <1>1, <2>10, GiveUpInv DEF Cancel
  <2>11. QED
    BY <1>2, <2>1, <2>2, <2>3, <2>4, <2>5, <2>6, <2>7, <2>8, <2>9, <2>10
<1>3. ASSUME NEW t \in Tasks, NEW fam \in Family, NEW list,
             BootTimeout(t, fam) \/ BootAnswer(t, fam, list)
      PROVE  IInv' /\ Seen
  <2>1. CASE BootTimeout(t, fam)
    BY <1>1, <2>1, LookupEndsInv DEF BootTimeout
  <2>2. CASE BootAnswer(t, fam, list)
    BY <1>1, <2>2, LookupEndsInv DEF BootAnswer
  <2>3. QED
    BY <1>3, <2>1, <2>2
<1>4. ASSUME NEW t \in Tasks, NEW list, SystemLookup(t, list) PROVE IInv' /\ Seen
  BY <1>1, <1>4, SystemLookupInv
<1>5. ASSUME NEW t \in Tasks, NEW m, Recv(t, m) \/ HttpBody(t, m) \/ Serve(t, m) PROVE IInv' /\ Seen
  BY <1>1, <1>5, RecvInv, HttpBodyInv, ServeInv
<1>6. ASSUME NEW s \in Session, CloseSession(s) PROVE IInv' /\ Seen
  BY <1>1, <1>6, CloseSessionInv
<1>7. ASSUME NEW s \in Session, NEW m, ServeSession(s, m) PROVE IInv' /\ Seen
  BY <1>1, <1>7, ServeSessionInv
<1>8. CASE Tick
  BY <1>1, <1>8, TickInv
<1>9. CASE UNCHANGED vars
  BY <1>1, <1>9 DEF vars, IInv, Seen
<1>10. QED
  BY <1>1, <1>2, <1>3, <1>4, <1>5, <1>6, <1>7, <1>8, <1>9 DEF Next

LEMMA Invariance == Spec => []IInv
  BY InitIInv, NextIInv, PTL DEF Spec

-----------------------------------------------------------------------------

(* No session is pooled that a query, an answer or a stray message is left *)
(* on, however many calls share the upstream and however they end, and     *)
(* none is reused that has idled too long (tcp_exchange_pooled,            *)
(* tls_exchange_pooled, StreamPool::take and put).                         *)
THEOREM PoolCorrect == Spec => []PoolClean
<1>1. IInv => PoolClean
  BY DEF IInv, CallInv, HolderInv, Clean, PoolClean
<1>2. QED
  BY Invariance, <1>1, PTL

(* Every session that is open is in the pool or in the hands of one call,  *)
(* never both and never two: with any number of calls the descriptors in   *)
(* use are bounded by the pool and the calls under way (StreamPool::put,   *)
(* dropped futures).                                                       *)
THEOREM HolderCorrect == Spec => []OneHolder
<1>1. ASSUME IInv PROVE OneHolder
  <2>1. HolderInv(kind, now, call, pool, sess) /\ \A t \in Tasks : CallInv(kind, dest, t, call[t])
    BY <1>1 DEF IInv
  <2>2. ASSUME NEW s \in Session, sess[s] # Free
        PROVE  Cardinality({t \in Tasks : call[t].sess = s}) +
                 Cardinality({i \in 1 .. Len(pool) : pool[i].s = s}) = 1
    <3>1. PICK H, P : /\ H = {t \in Tasks : call[t].sess = s}
                      /\ P = {i \in 1 .. Len(pool) : pool[i].s = s}
      OBVIOUS
    <3>2. sess[s].state # "free" /\ s # 0
      BY <2>1, <2>2, Sessions DEF HolderInv
    <3>3. CASE Pooled(pool, s)
      <4>1. PICK i \in 1 .. Len(pool) : pool[i].s = s
        BY <3>3 DEF Pooled
      <4>2. P = {i}
        BY <2>1, <3>1, <4>1 DEF HolderInv
      <4>3. H = {}
        BY <2>1, <3>1, <3>2, <3>3 DEF HolderInv
      <4>4. Cardinality(P) = 1 /\ Cardinality(H) = 0
        BY <4>2, <4>3, FS_Singleton, FS_EmptySet
      <4>5. QED
        BY <3>1, <4>4
    <3>4. CASE ~ Pooled(pool, s)
      <4>1. PICK t \in Tasks : call[t].sess = s
        BY <2>1, <3>2, <3>4 DEF HolderInv
      <4>2. H = {t}
        BY <2>1, <3>1, <3>2, <4>1 DEF HolderInv
      <4>3. P = {}
        BY <3>1, <3>4 DEF Pooled
      <4>4. Cardinality(P) = 0 /\ Cardinality(H) = 1
        BY <4>2, <4>3, FS_Singleton, FS_EmptySet
      <4>5. QED
        BY <3>1, <4>4
    <3>5. QED
      BY <3>3, <3>4
  <2>3. Cardinality({s \in Session : sess[s] # Free}) <=
          Cap + Cardinality({t \in Tasks : call[t].pc \in Running})
    <3>1. PICK R, B : R = {t \in Tasks : call[t].pc \in Running} /\ B = {s \in Session : sess[s] # Free}
      OBVIOUS
    <3>2. R \subseteq Tasks /\ \A u \in Tasks : u \notin R => call[u].sess = 0
      BY <2>1, <3>1, Phases DEF CallInv
    <3>3. Cardinality(B) <= Cap + Cardinality(R)
      BY <1>1, <3>1, <3>2, InUse
    <3>4. QED
      BY <3>1, <3>3
  <2>4. QED
    BY <2>2, <2>3 DEF OneHolder
<1>2. QED
  BY Invariance, <1>1, PTL

(* Calls that resolve the server's name at the same time, with whatever    *)
(* answers, all go on with the first destination that was settled          *)
(* (cached_dest: OnceLock::get_or_init).                                   *)
THEOREM DestCorrect == Spec => []DestAgreed
<1>1. IInv => DestAgreed
  BY DEF IInv, CallInv, DestAgreed
<1>2. QED
  BY Invariance, <1>1, PTL

(* A step of an upstream is a step of the exchange it promises, or none. *)
LEMMA RefineStep ==
  ASSUME IInv, IInv', Seen
  PROVE  [Promise!Next]_(Promise!vars)
<1>1. PICK S : S = [t \in Tasks |-> IF call[t].pc \in Running THEN "running" ELSE call[t].pc]
  OBVIOUS
<1>2. PICK S2 : S2 = [t \in Tasks |-> IF call'[t].pc \in Running THEN "running" ELSE call'[t].pc]
  OBVIOUS
<1>3. PICK A, A2 : A = [t \in Tasks |-> call[t].answered] /\ A2 = [t \in Tasks |-> call'[t].answered]
  OBVIOUS
<1>4. CASE call' = call
  <2>1. S2 = S /\ A2 = A
    BY <1>1, <1>2, <1>3, <1>4
  <2>2. QED
    BY <2>1, <1>1, <1>2, <1>3 DEF Promise!vars
<1>5. CASE call' # call
  <2>1. PICK t \in Tasks : /\ Outcome(call[t], call'[t])
                           /\ \A u \in Tasks : u # t => call'[u] = call[u]
    BY <1>5 DEF Seen
  <2>2. /\ \A u \in Tasks : u # t => S2[u] = S[u] /\ A2[u] = A[u]
        /\ S2[t] = (IF call'[t].pc \in Running THEN "running" ELSE call'[t].pc)
        /\ S[t] = (IF call[t].pc \in Running THEN "running" ELSE call[t].pc)
        /\ A2[t] = call'[t].answered /\ A[t] = call[t].answered
    BY <1>1, <1>2, <1>3, <2>1
  <2>3. /\ DOMAIN S = Tasks /\ DOMAIN S2 = Tasks /\ DOMAIN A = Tasks /\ DOMAIN A2 = Tasks
        /\ S2 = [u \in Tasks |-> S2[u]] /\ A2 = [u \in Tasks |-> A2[u]]
        /\ S = [u \in Tasks |-> S[u]] /\ A = [u \in Tasks |-> A[u]]
    BY <1>1, <1>2, <1>3
  <2>4. \/ S2 = S /\ A2 = A
        \/ S[t] = "idle" /\ S2 = [S EXCEPT ![t] = "running"] /\ A2 = A
        \/ S[t] = "running" /\ A[t] /\ S2 = [S EXCEPT ![t] = "ok"] /\ A2 = A
        \/ S[t] = "running" /\ S2 = [S EXCEPT ![t] = "err"] /\ A2 = A
        \/ S[t] # "idle" /\ A2 = [A EXCEPT ![t] = TRUE] /\ S2 = S
    <3>1. A2[t] \in BOOLEAN
      BY <2>2 DEF IInv, CallIn
    <3>2. CASE /\ call'[t].pc = call[t].pc \/ (call[t].pc \in Running /\ call'[t].pc \in Running)
               /\ call'[t].answered = call[t].answered
      <4>1. S2[t] = S[t] /\ A2[t] = A[t]
        BY <2>2, <3>2
      <4>2. \A u \in Tasks : S2[u] = S[u] /\ A2[u] = A[u]
        BY <2>2, <4>1
      <4>3. S2 = S /\ A2 = A
        BY <1>1, <1>2, <1>3, <4>2
      <4>4. QED
        BY <4>3
    <3>3. CASE call[t].pc = "idle" /\ call'[t].pc \in Running /\ call'[t].answered = call[t].answered
      <4>1. S[t] = "idle" /\ S2[t] = "running" /\ A2[t] = A[t]
        BY <2>2, <3>3, Phases
      <4>2. QED
        BY <2>2, <2>3, <4>1
    <3>4. CASE call[t].pc \in Running /\ call'[t].pc = "err" /\ call'[t].answered = call[t].answered
      <4>1. S[t] = "running" /\ S2[t] = "err" /\ A2[t] = A[t]
        BY <2>2, <3>4, Phases
      <4>2. QED
        BY <2>2, <2>3, <4>1
    <3>5. CASE /\ call[t].pc \in Running /\ call'[t].pc = "ok"
               /\ call[t].answered /\ call'[t].answered = call[t].answered
      <4>1. S[t] = "running" /\ S2[t] = "ok" /\ A2[t] = A[t] /\ A[t]
        BY <2>2, <3>5, Phases
      <4>2. QED
        BY <2>2, <2>3, <4>1
    <3>6. CASE call[t].pc \in Running /\ call'[t].pc = call[t].pc /\ call'[t].answered
      <4>1. S[t] = "running" /\ S2[t] = "running" /\ A2[t] = TRUE
        BY <2>2, <3>1, <3>6, Phases
      <4>2. S2 = S
        <5>1. \A u \in Tasks : S2[u] = S[u]
          BY <2>2, <4>1
        <5>2. QED
          BY <1>1, <1>2, <5>1
      <4>3. A2 = [A EXCEPT ![t] = TRUE]
        <5>1. DOMAIN [A EXCEPT ![t] = TRUE] = Tasks /\ DOMAIN A2 = Tasks
          BY <2>3
        <5>2. \A u \in Tasks : A2[u] = [A EXCEPT ![t] = TRUE][u]
          BY <2>2, <2>3, <4>1
        <5>3. QED
          BY <2>3, <5>1, <5>2
      <4>4. S[t] # "idle"
        BY <4>1
      <4>5. QED
        BY <4>2, <4>3, <4>4
    <3>7. QED
      BY <2>1, <3>2, <3>3, <3>4, <3>5, <3>6 DEF Outcome
  <2>5. QED
    BY <2>4, <1>1, <1>2, <1>3 DEF Promise!vars, Promise!Next, Promise!Begin, Promise!Answer, Promise!End
<1>6. QED
  BY <1>4, <1>5

(* Every transport keeps the promise of module Exchange: a call that       *)
(* succeeds does so with a reply that the server sent to its own query,    *)
(* over a reused, a fresh or a second session, a socket or HTTP, and every *)
(* call ends once (Upstream::exchange).  What the theorem leaves to        *)
(* model checking is that a call ends at all.                              *)
THEOREM ExchangeSafety == Spec => Promise!Safety
<1>1. Init => Promise!Init
  <2>1. SUFFICES ASSUME Init PROVE Promise!Init
    OBVIOUS
  <2>2. \A t \in Tasks : call[t].pc = "idle" /\ call[t].answered = FALSE
    BY <2>1 DEF Init
  <2>3. QED
    BY <2>2, Phases DEF Promise!Init
<1>2. IInv /\ [Next]_vars => [Promise!Next]_(Promise!vars)
  BY NextIInv, RefineStep
<1>3. QED
  BY <1>1, <1>2, Invariance, PTL DEF Spec, Promise!Safety
-----------------------------------------------------------------------------
(* Lists of addresses.  A loop over a list is a recursive function of the  *)
(* rounds; what it computes is shown at the first round that would differ. *)

(* One round of Kept. *)
KeptAt(f, s, K, i) ==
  IF i = 0 THEN << >> ELSE IF i \in K THEN Append(f[i - 1], s[i]) ELSE f[i - 1]

LEMMA KeptRounds ==
  ASSUME NEW S, NEW s \in Seq(S), NEW K
  PROVE  \E f : /\ f = [i \in 0 .. Len(s) |-> KeptAt(f, s, K, i)]
                /\ Kept(s, K) = f[Len(s)]
<1>1. PICK n \in Nat : n = Len(s)
  OBVIOUS
<1>2. PICK P : P = {i \in 0 .. n : \E f : f = [j \in 0 .. i |-> KeptAt(f, s, K, j)]}
  OBVIOUS
<1>3. 0 \in P
  <2>1. PICK f : f = [j \in 0 .. 0 |-> << >>]
    OBVIOUS
  <2>2. f = [j \in 0 .. 0 |-> KeptAt(f, s, K, j)]
    BY <2>1 DEF KeptAt
  <2>3. QED
    BY <1>2, <2>2
<1>4. ASSUME NEW i \in 1 .. n, i - 1 \in P PROVE i \in P
  <2>1. PICK f : f = [j \in 0 .. (i - 1) |-> KeptAt(f, s, K, j)]
    BY <1>2, <1>4
  <2>2. PICK g : g = [j \in 0 .. i |-> IF j = i THEN KeptAt(f, s, K, i) ELSE f[j]]
    OBVIOUS
  <2>3. \A j \in 0 .. i : g[j] = KeptAt(g, s, K, j)
    <3>1. SUFFICES ASSUME NEW j \in 0 .. i PROVE g[j] = KeptAt(g, s, K, j)
      OBVIOUS
    <3>2. \A m \in 0 .. (i - 1) : g[m] = f[m]
      BY <2>2
    <3>3. j # 0 => g[j - 1] = f[j - 1]
      BY <3>1, <3>2
    <3>4. KeptAt(g, s, K, j) = KeptAt(f, s, K, j)
      BY <3>1, <3>3 DEF KeptAt
    <3>5. CASE j = i
      BY <2>2, <3>4, <3>5
    <3>6. CASE j # i
      <4>1. j \in 0 .. (i - 1)
        BY <3>6
      <4>2. f[j] = KeptAt(f, s, K, j)
        BY <2>1, <4>1
      <4>3. QED
        BY <3>2, <3>4, <4>1, <4>2
    <3>7. QED
      BY <3>5, <3>6
  <2>4. g = [j \in 0 .. i |-> KeptAt(g, s, K, j)]
    BY <2>2, <2>3
  <2>5. QED
    BY <1>2, <2>4
<1>5. n \in P
  BY <1>3, <1>4, UpTo
<1>6. PICK f : f = [i \in 0 .. n |-> KeptAt(f, s, K, i)]
  BY <1>2, <1>5
<1>7. PICK g : g = (CHOOSE h : h = [i \in 0 .. Len(s) |-> KeptAt(h, s, K, i)])
  OBVIOUS
<1>8. g = [i \in 0 .. Len(s) |-> KeptAt(g, s, K, i)]
  BY <1>1, <1>6, <1>7
<1>9. Kept(s, K) = g[Len(s)]
  BY <1>7 DEF Kept, KeptAt
<1>10. QED
  BY <1>8, <1>9

(* r is what is kept after i rounds: nothing, and no place has come up, or *)
(* a list that begins with what is at the first place.                     *)
KeptOK(S, s, K, i, r) ==
  /\ r \in Seq(S)
  /\ r = << >> => \A j \in K : j > i
  /\ r # << >> => \E k \in K : k <= i /\ r[1] = s[k] /\ \A j \in K : k <= j

LEMMA KeptRound ==
  ASSUME NEW S, NEW s, NEW K, K \subseteq Nat, NEW i \in Nat, i # 0, s[i] \in S,
         NEW g, KeptOK(S, s, K, i - 1, g)
  PROVE  KeptOK(S, s, K, i, IF i \in K THEN Append(g, s[i]) ELSE g)
<1>1. /\ g \in Seq(S) /\ (g = << >> => \A j \in K : j > i - 1)
      /\ g # << >> => \E k \in K : k <= i - 1 /\ g[1] = s[k] /\ \A j \in K : k <= j
  BY DEF KeptOK
<1>2. CASE i \notin K
  <2>1. g = << >> => \A j \in K : j > i
    BY <1>1, <1>2
  <2>2. g # << >> => \E k \in K : k <= i /\ g[1] = s[k] /\ \A j \in K : k <= j
    BY <1>1
  <2>3. KeptOK(S, s, K, i, g)
    BY <1>1, <2>1, <2>2 DEF KeptOK
  <2>4. QED
    BY <1>2, <2>3
<1>3. CASE i \in K
  <2>1. PICK x \in S : x = s[i]
    OBVIOUS
  <2>2. PICK h : h = Append(g, x)
    OBVIOUS
  <2>3. h \in Seq(S) /\ h # << >> /\ (g = << >> => h[1] = x) /\ (g # << >> => h[1] = g[1])
    BY <1>1, <2>2
  <2>4. \E k \in K : k <= i /\ h[1] = s[k] /\ \A j \in K : k <= j
    <3>1. CASE g = << >>
      <4>1. \A j \in K : i <= j
        BY <1>1, <3>1
      <4>2. QED
        BY <1>3, <2>1, <2>3, <3>1, <4>1
    <3>2. CASE g # << >>
      BY <1>1, <2>3, <3>2
    <3>3. QED
      BY <3>1, <3>2
  <2>5. KeptOK(S, s, K, i, h)
    BY <2>3, <2>4 DEF KeptOK
  <2>6. QED
    BY <1>3, <2>1, <2>2, <2>5
<1>4. QED
  BY <1>2, <1>3

(* What is kept comes from the list; nothing is kept when there is no      *)
(* place to keep, and the first kept is that of the first place.           *)
LEMMA KeptFacts ==
  ASSUME NEW S, NEW s \in Seq(S), NEW K, K \subseteq 1 .. Len(s)
  PROVE  /\ Kept(s, K) \in Seq(S)
         /\ K = {} => Kept(s, K) = << >>
         /\ K # {} => /\ Kept(s, K) # << >>
                      /\ \E k \in K : Kept(s, K)[1] = s[k] /\ \A j \in K : k <= j
<1>1. PICK f : f = [i \in 0 .. Len(s) |-> KeptAt(f, s, K, i)] /\ Kept(s, K) = f[Len(s)]
  BY KeptRounds
<1>2. PICK n \in Nat : n = Len(s)
  OBVIOUS
<1>3. f[0] = << >> /\ \A i \in 1 .. n : f[i] = IF i \in K THEN Append(f[i - 1], s[i]) ELSE f[i - 1]
  <2>1. \A i \in 0 .. n : f[i] = KeptAt(f, s, K, i)
    BY <1>1, <1>2
  <2>2. 0 \in 0 .. n /\ \A i \in 1 .. n : i \in 0 .. n /\ i # 0
    OBVIOUS
  <2>3. QED
    BY <2>1, <2>2 DEF KeptAt
<1>4. PICK P : P = {i \in 0 .. n : KeptOK(S, s, K, i, f[i])}
  OBVIOUS
<1>5. \A j \in K : j \in 1 .. n
  BY <1>2
<1>6. 0 \in P
  <2>1. KeptOK(S, s, K, 0, << >>)
    BY <1>5 DEF KeptOK
  <2>2. KeptOK(S, s, K, 0, f[0])
    BY <1>3, <2>1
  <2>3. QED
    BY <1>4, <2>2
<1>7. ASSUME NEW i \in 1 .. n, i - 1 \in P PROVE i \in P
  <2>1. PICK g : g = f[i - 1] /\ KeptOK(S, s, K, i - 1, g)
    BY <1>4, <1>7
  <2>2. K \subseteq Nat /\ i \in Nat /\ i # 0 /\ s[i] \in S
    BY <1>2, <1>5
  <2>3. KeptOK(S, s, K, i, IF i \in K THEN Append(g, s[i]) ELSE g)
    BY <2>1, <2>2, KeptRound
  <2>4. f[i] = IF i \in K THEN Append(g, s[i]) ELSE g
    BY <1>3, <2>1
  <2>5. KeptOK(S, s, K, i, f[i])
    BY <2>3, <2>4
  <2>6. QED
    BY <1>4, <2>5
<1>8. n \in P
  BY <1>6, <1>7, UpTo
<1>9. PICK r : r = f[n] /\ KeptOK(S, s, K, n, r)
  BY <1>4, <1>8
<1>10. Kept(s, K) = r
  BY <1>1, <1>2, <1>9
<1>11. r \in Seq(S) /\ (K = {} => r = << >>)
  BY <1>9 DEF KeptOK
<1>12. K # {} => r # << >> /\ \E k \in K : r[1] = s[k] /\ \A j \in K : k <= j
  <2>1. r # << >> => \E k \in K : r[1] = s[k] /\ \A j \in K : k <= j
    BY <1>9 DEF KeptOK
  <2>2. r = << >> => \A j \in K : j > n
    BY <1>9 DEF KeptOK
  <2>3. \A j \in K : ~ (j > n)
    BY <1>5
  <2>4. QED
    BY <2>1, <2>2, <2>3
<1>13. QED
  BY <1>10, <1>11, <1>12

Addr == V4 \cup V6

(* What bootstrap_ips makes of a list: some address if there was one, and  *)
(* an IPv4 address first if there was one.                                 *)
LEMMA SortedFacts ==
  ASSUME NEW ips \in Seq(Addr), ips # << >>
  PROVE  LET d == Dedup(SortByFamily(ips))
         IN  /\ d \in Seq(Addr) /\ d # << >>
             /\ (\E i \in 1 .. Len(ips) : ips[i] \in V4) => d[1] \in V4
<1>1. PICK K4, K6 : /\ K4 = {i \in 1 .. Len(ips) : ips[i] \in V4}
                    /\ K6 = {i \in 1 .. Len(ips) : ips[i] \in V6}
  OBVIOUS
<1>2. PICK a, b : a = Kept(ips, K4) /\ b = Kept(ips, K6)
  OBVIOUS
<1>3. K4 \subseteq 1 .. Len(ips) /\ K6 \subseteq 1 .. Len(ips)
  BY <1>1
<1>4. a \in Seq(Addr) /\ (K4 = {} => a = << >>) /\ (K4 # {} => a # << >> /\ \E k \in K4 : a[1] = ips[k])
  BY <1>2, <1>3, KeptFacts
<1>5. b \in Seq(Addr) /\ (K6 # {} => b # << >>)
  BY <1>2, <1>3, KeptFacts
<1>6. PICK c : c = a \o b
  OBVIOUS
<1>7. K4 # {} \/ K6 # {}
  <2>1. 1 \in 1 .. Len(ips) /\ ips[1] \in Addr
    OBVIOUS
  <2>2. QED
    BY <1>1, <2>1 DEF Addr
<1>8. c \in Seq(Addr) /\ (a # << >> => c # << >> /\ c[1] = a[1]) /\ (b # << >> => c # << >>)
  BY <1>4, <1>5, <1>6
<1>9. K4 # {} => a[1] \in V4
  BY <1>1, <1>4
<1>10. c # << >> /\ (K4 # {} => c[1] \in V4)
  BY <1>4, <1>5, <1>7, <1>8, <1>9
<1>11. PICK K, d : K = {i \in 1 .. Len(c) : i = 1 \/ c[i - 1] # c[i]} /\ d = Kept(c, K)
  OBVIOUS
<1>12. 1 \in K /\ K \subseteq 1 .. Len(c)
  BY <1>8, <1>10, <1>11
<1>13. d \in Seq(Addr) /\ d # << >> /\ \E k \in K : d[1] = c[k] /\ \A j \in K : k <= j
  BY <1>8, <1>11, <1>12, KeptFacts
<1>14. d[1] = c[1]
  BY <1>8, <1>12, <1>13
<1>15. SortByFamily(ips) = c
  BY <1>1, <1>2, <1>6 DEF SortByFamily
<1>16. Dedup(SortByFamily(ips)) = d
  BY <1>11, <1>15 DEF Dedup
<1>17. QED
  BY <1>1, <1>10, <1>13, <1>14, <1>16
-----------------------------------------------------------------------------
(* Where the destinations come from.                                       *)

(* A call that goes on unnoticed, and one that moves on with what it has   *)
(* resolved, or not.                                                       *)
Still(c, d) ==
  /\ d.pc = c.pc /\ d.due = c.due /\ d.bdue = c.bdue /\ d.ips = c.ips
  /\ d.open = c.open /\ d.dest = c.dest /\ d.famOk = c.famOk

Moved(c, d) ==
  /\ c.pc \in Running /\ d.pc \in (Running \cup Ended) \ {"boot", "lookup"}
  /\ c.pc \in {"boot", "lookup"} => d.pc = "err"
  /\ d.ips \in {c.ips, << >>}
  /\ d.open = c.open /\ d.dest = c.dest /\ d.famOk = c.famOk

(* A step that resolves nothing. *)
Quiet ==
  /\ UNCHANGED << kind, given, now, dest >>
  /\ \A t \in Tasks : Still(call[t], call'[t]) \/ Moved(call[t], call'[t])

LEMMA QuietStep ==
  ASSUME NEW D, call \in [Tasks -> CallIn(D)], NEW t \in Tasks, NEW d,
         call' = [call EXCEPT ![t] = d], Still(call[t], d) \/ Moved(call[t], d),
         UNCHANGED << kind, given, now, dest >>
  PROVE  Quiet
<1>1. call'[t] = d /\ \A u \in Tasks : u # t => call'[u] = call[u]
  OBVIOUS
<1>2. \A u \in Tasks : Still(call[u], call[u])
  BY DEF Still
<1>3. ASSUME NEW u \in Tasks PROVE Still(call[u], call'[u]) \/ Moved(call[u], call'[u])
  <2>1. CASE u = t
    BY <1>1, <2>1
  <2>2. CASE u # t
    BY <1>1, <1>2, <2>2
  <2>3. QED
    BY <2>1, <2>2
<1>4. QED
  BY <1>3 DEF Quiet

LEMMA EndMoved ==
  ASSUME NEW D, NEW c \in CallIn(D), c.pc \in Running, NEW how \in Ended,
         c.pc \in {"boot", "lookup"} => how = "err", NEW m \in Msg
  PROVE  Moved(c, End(c, how)) /\ Moved(c, [End(c, how) EXCEPT !.reply = m])
<1>1. PICK e : e = End(c, how)
  OBVIOUS
<1>2. e = [c EXCEPT !.pc = how, !.sess = 0, !.took = 0, !.rx = {}, !.sent = 0, !.seen = 0,
                    !.due = 0, !.bdue = 0, !.ips = << >>]
  BY <1>1 DEF End
<1>3. /\ e.pc = how /\ e.ips = << >> /\ e.open = c.open /\ e.dest = c.dest
      /\ e.famOk = c.famOk
  BY <1>2 DEF CallIn
<1>4. PICK f : f = [e EXCEPT !.reply = m]
  OBVIOUS
<1>5. f.pc = e.pc /\ f.ips = e.ips /\ f.open = e.open /\ f.dest = e.dest /\ f.famOk = e.famOk
  BY <1>2, <1>4 DEF CallIn
<1>6. how \notin {"boot", "lookup"}
  BY DEF Ended
<1>7. Moved(c, e)
  BY <1>3, <1>6 DEF Moved
<1>8. Moved(c, f)
  BY <1>3, <1>5, <1>6 DEF Moved
<1>9. QED
  BY <1>1, <1>4, <1>7, <1>8

(* A call that gives up, whatever it was doing. *)
LEMMA ErrQuiet ==
  ASSUME IInv, NEW t \in Tasks, call[t].pc \in Running,
         call' = [call EXCEPT ![t] = End(call[t], "err")], UNCHANGED << kind, given, now, dest >>
  PROVE  Quiet
<1>1. PICK D : call \in [Tasks -> CallIn(D)]
  BY DEF IInv
<1>2. PICK c \in CallIn(D) : c = call[t]
  BY <1>1
<1>3. Moved(c, End(c, "err"))
  BY <1>2, EndMoved, NoMsgType DEF Ended
<1>4. QED
  BY <1>1, <1>2, <1>3, QuietStep

(* A call that ends with a message. *)
LEMMA OkQuiet ==
  ASSUME IInv, NEW t \in Tasks, call[t].pc \in Running \ {"boot", "lookup"}, NEW m \in Msg,
         call' = [call EXCEPT ![t] = [End(call[t], "ok") EXCEPT !.reply = m]],
         UNCHANGED << kind, given, now, dest >>
  PROVE  Quiet
<1>1. PICK D : call \in [Tasks -> CallIn(D)]
  BY DEF IInv
<1>2. PICK c \in CallIn(D) : c = call[t]
  BY <1>1
<1>3. Moved(c, [End(c, "ok") EXCEPT !.reply = m])
  BY <1>2, EndMoved DEF Ended
<1>4. QED
  BY <1>1, <1>2, <1>3, QuietStep

(* A call that goes on, with another session or messages read. *)
LEMMA GoQuiet ==
  ASSUME NEW D, call \in [Tasks -> CallIn(D)], NEW t \in Tasks, NEW d,
         call[t].pc \in Running \ {"boot", "lookup"}, d.pc \in Running \ {"boot", "lookup"},
         d.ips = call[t].ips, d.open = call[t].open, d.dest = call[t].dest, d.famOk = call[t].famOk,
         call' = [call EXCEPT ![t] = d], UNCHANGED << kind, given, now, dest >>
  PROVE  Quiet
<1>1. Moved(call[t], d)
  BY DEF Moved
<1>2. QED
  BY <1>1, QuietStep

LEMMA FramedFailsQuiet ==
  ASSUME IInv, NEW t \in Tasks, call[t].pc \in {"reuse", "fresh"}, FramedFails(t),
         UNCHANGED << kind, given, now, dest >>
  PROVE  Quiet
<1>1. CASE call[t].pc = "fresh"
  <2>1. call' = [call EXCEPT ![t] = End(call[t], "err")] /\ call[t].pc \in Running
    BY <1>1 DEF FramedFails, Running
  <2>2. QED
    BY <2>1, ErrQuiet
<1>2. CASE call[t].pc = "reuse"
  <2>1. PICK D : call \in [Tasks -> CallIn(D)]
    BY DEF IInv
  <2>2. PICK c \in CallIn(D) : c = call[t]
    BY <2>1
  <2>3. PICK d : d = [c EXCEPT !.pc = "dial", !.sess = 0]
    OBVIOUS
  <2>4. d.pc = "dial" /\ d.ips = c.ips /\ d.open = c.open /\ d.dest = c.dest /\ d.famOk = c.famOk
    BY <2>3 DEF CallIn
  <2>5. call' = [call EXCEPT ![t] = d]
    BY <1>2, <2>2, <2>3 DEF FramedFails
  <2>6. c.pc \in Running \ {"boot", "lookup"} /\ d.pc \in Running \ {"boot", "lookup"}
    BY <1>2, <2>2, <2>4 DEF Running
  <2>7. QED
    BY <2>1, <2>2, <2>4, <2>5, <2>6, GoQuiet
<1>3. QED
  BY <1>1, <1>2

LEMMA ReadQuiet ==
  ASSUME IInv, NEW t \in Tasks, ReadFramed(t) \/ ReadFails(t)
  PROVE  Quiet
<1>1. CASE ReadFails(t)
  BY <1>1, FramedFailsQuiet DEF ReadFails
<1>2. CASE ReadFramed(t)
  <2>1. /\ call[t].pc \in {"reuse", "fresh"} /\ sess[call[t].sess].inbuf # << >>
        /\ UNCHANGED << kind, given, now, dest >>
    BY <1>2 DEF ReadFramed
  <2>2. call[t].pc \in Running \ {"boot", "lookup"}
    BY <2>1 DEF Running
  <2>3. PICK s \in Session : s = call[t].sess /\ s # 0 /\ sess[s].state # "free" /\ sess[s].owed = << >>
    BY <2>1, Reading
  <2>4. PICK m \in From(t) : sess[s].inbuf = << m >>
    BY <2>1, <2>3, Reading
  <2>5. Head(sess[call[t].sess].inbuf) = m
    <3>1. Head(<< m >>) = m
      OBVIOUS
    <3>2. QED
      BY <2>3, <2>4, <3>1
  <2>6. m \in Msg
    BY <2>4, Messages
  <2>7. \/ FramedFails(t)
        \/ call' = [call EXCEPT ![t] = [End(call[t], "ok") EXCEPT !.reply = m]]
        \/ call' = [call EXCEPT ![t] = End(call[t], "err")]
    BY <1>2, <2>5 DEF ReadFramed
  <2>8. QED
    BY <2>1, <2>2, <2>6, <2>7, FramedFailsQuiet, OkQuiet, ErrQuiet
<1>3. QED
  BY <1>1, <1>2

LEMMA ConnectQuiet ==
  ASSUME IInv, NEW t \in Tasks,
         UsePool(t) \/ Dial(t) \/ Handshake(t) \/ ConnectFails(t) \/ Send(t)
  PROVE  Quiet
<1>1. PICK D : call \in [Tasks -> CallIn(D)]
  BY DEF IInv
<1>2. PICK c \in CallIn(D) : c = call[t]
  BY <1>1
<1>3. UNCHANGED << kind, given, now, dest >>
  BY DEF UsePool, Dial, Handshake, ConnectFails, Send
<1>4. CASE ConnectFails(t)
  <2>1. call' = [call EXCEPT ![t] = End(call[t], "err")] /\ call[t].pc \in Running
    BY <1>4 DEF ConnectFails, Running
  <2>2. QED
    BY <1>3, <2>1, ErrQuiet
<1>5. ASSUME NEW pc, NEW s, NEW k, c.pc \in Running \ {"boot", "lookup"}, pc \in Running \ {"boot", "lookup"},
             \/ call' = [call EXCEPT ![t].pc = pc]
             \/ call' = [call EXCEPT ![t].pc = pc, ![t].sess = s]
             \/ call' = [call EXCEPT ![t].pc = pc, ![t].sess = s, ![t].took = k]
      PROVE  Quiet
  <2>1. PICK d1, d2, d3 : /\ d1 = [c EXCEPT !.pc = pc]
                          /\ d2 = [c EXCEPT !.pc = pc, !.sess = s]
                          /\ d3 = [c EXCEPT !.pc = pc, !.sess = s, !.took = k]
    OBVIOUS
  <2>2. \A d \in {d1, d2, d3} : /\ d.pc = pc /\ d.ips = c.ips /\ d.open = c.open
                                /\ d.dest = c.dest /\ d.famOk = c.famOk
    BY <2>1 DEF CallIn
  <2>3. \E d \in {d1, d2, d3} : call' = [call EXCEPT ![t] = d]
    BY <1>1, <1>2, <1>5, <2>1
  <2>4. PICK d \in {d1, d2, d3} : call' = [call EXCEPT ![t] = d]
    BY <2>3
  <2>5. /\ d.pc = pc /\ d.ips = c.ips /\ d.open = c.open /\ d.dest = c.dest /\ d.famOk = c.famOk
    BY <2>2
  <2>6. QED
    BY <1>1, <1>2, <1>3, <1>5, <2>4, <2>5, GoQuiet
<1>6. CASE UsePool(t)
  <2>1. \/ call' = [call EXCEPT ![t].pc = "reuse", ![t].sess = pool[Taken].s,
                                ![t].took = now - pool[Taken].since]
        \/ call' = [call EXCEPT ![t].pc = "dial"]
    BY <1>6 DEF UsePool
  <2>2. c.pc = "ready"
    BY <1>2, <1>6 DEF UsePool
  <2>3. CASE call' = [call EXCEPT ![t].pc = "dial"]
    <3>1. PICK pc : pc = "dial"
      OBVIOUS
    <3>2. call' = [call EXCEPT ![t].pc = pc] /\ {c.pc, pc} \subseteq Running \ {"boot", "lookup"}
      BY <2>2, <2>3, <3>1 DEF Running
    <3>3. QED
      BY <1>5, <3>2
  <2>4. CASE call' = [call EXCEPT ![t].pc = "reuse", ![t].sess = pool[Taken].s,
                                  ![t].took = now - pool[Taken].since]
    <3>1. PICK pc, s, k : pc = "reuse" /\ s = pool[Taken].s /\ k = now - pool[Taken].since
      OBVIOUS
    <3>2. call' = [call EXCEPT ![t].pc = pc, ![t].sess = s, ![t].took = k]
      BY <2>4, <3>1
    <3>3. {c.pc, pc} \subseteq Running \ {"boot", "lookup"}
      BY <2>2, <3>1 DEF Running
    <3>4. QED
      BY <1>5, <3>2, <3>3
  <2>5. QED
    BY <2>1, <2>3, <2>4
<1>7. CASE Dial(t)
  <2>1. PICK pc, s : /\ call' = [call EXCEPT ![t].pc = pc, ![t].sess = s]
                     /\ pc = IF kind = "tls" THEN "handshake" ELSE "fresh"
    BY <1>7, Zenon DEF Dial
  <2>2. c.pc = "dial" /\ pc \in {"handshake", "fresh"}
    BY <1>2, <1>7, <2>1 DEF Dial
  <2>3. {c.pc, pc} \subseteq Running \ {"boot", "lookup"}
    BY <2>2 DEF Running
  <2>4. QED
    BY <1>5, <2>1, <2>3
<1>8. CASE Handshake(t)
  <2>1. c.pc = "handshake" /\ call' = [call EXCEPT ![t].pc = "fresh"]
    BY <1>2, <1>8 DEF Handshake
  <2>2. PICK pc : pc = "fresh"
    OBVIOUS
  <2>3. call' = [call EXCEPT ![t].pc = pc] /\ {c.pc, pc} \subseteq Running \ {"boot", "lookup"}
    BY <2>1, <2>2 DEF Running
  <2>4. QED
    BY <1>5, <2>3
<1>9. CASE Send(t)
  <2>1. PICK pc : call' = [call EXCEPT ![t].pc = pc] /\ pc = IF kind = "udp" THEN "udp" ELSE "http"
    BY <1>9, Zenon DEF Send
  <2>2. c.pc = "ready" /\ pc \in {"udp", "http"}
    BY <1>2, <1>9, <2>1 DEF Send
  <2>3. {c.pc, pc} \subseteq Running \ {"boot", "lookup"}
    BY <2>2 DEF Running
  <2>4. QED
    BY <1>5, <2>1, <2>3
<1>10. QED
  BY <1>4, <1>6, <1>7, <1>8, <1>9

LEMMA MessageQuiet ==
  ASSUME IInv, NEW t \in Tasks, NEW m, Recv(t, m) \/ HttpBody(t, m) \/ Serve(t, m)
  PROVE  Quiet
<1>1. PICK D : call \in [Tasks -> CallIn(D)]
  BY DEF IInv
<1>2. PICK c \in CallIn(D) : c = call[t]
  BY <1>1
<1>3. UNCHANGED << kind, given, now, dest >> /\ c.pc \in {"udp", "http"}
  BY <1>2 DEF Recv, HttpBody, Serve
<1>4. c.pc \in Running \ {"boot", "lookup"}
  BY <1>3 DEF Running
<1>5. CASE Serve(t, m)
  <2>1. PICK r, n, a : r = c.rx \cup {m} /\ n = c.sent + 1 /\ a = (c.answered \/ Answers(m))
    OBVIOUS
  <2>2. PICK d : d = [c EXCEPT !.rx = r, !.sent = n, !.answered = a]
    OBVIOUS
  <2>3. Still(c, d)
    BY <2>2 DEF CallIn, Still
  <2>4. call' = [call EXCEPT ![t] = d]
    BY <1>1, <1>2, <1>5, <2>1, <2>2 DEF Serve
  <2>5. QED
    BY <1>1, <1>2, <1>3, <2>3, <2>4, QuietStep
<1>6. CASE Recv(t, m) \/ HttpBody(t, m)
  <2>1. m \in Msg
    BY <1>2, <1>6 DEF Recv, HttpBody, CallIn
  <2>2. PICK n, r : n = c.seen + 1 /\ r = c.rx \ {m}
    OBVIOUS
  <2>3. PICK d1, d2 : d1 = [c EXCEPT !.seen = n, !.rx = r] /\ d2 = [c EXCEPT !.pc = "dial", !.rx = {}]
    OBVIOUS
  <2>4. \A d \in {d1, d2} : /\ d.pc \in {c.pc, "dial"} /\ d.ips = c.ips /\ d.open = c.open
                            /\ d.dest = c.dest /\ d.famOk = c.famOk
    BY <2>3 DEF CallIn
  <2>5. \/ \E d \in {d1, d2} : call' = [call EXCEPT ![t] = d]
        \/ call' = [call EXCEPT ![t] = [End(call[t], "ok") EXCEPT !.reply = m]]
        \/ call' = [call EXCEPT ![t] = End(call[t], "err")]
    <3>1. CASE HttpBody(t, m)
      BY <3>1 DEF HttpBody
    <3>2. CASE Recv(t, m)
      <4>1. CASE ~ TakeResponse(t, m) /\ c.seen + 1 # Datagrams
        BY <1>2, <2>2, <2>3, <3>2, <4>1 DEF Recv
      <4>2. CASE ~ TakeResponse(t, m) /\ c.seen + 1 = Datagrams
        BY <1>2, <3>2, <4>2 DEF Recv
      <4>3. CASE TakeResponse(t, m) /\ m.tc
        BY <1>2, <2>3, <3>2, <4>3 DEF Recv
      <4>4. CASE TakeResponse(t, m) /\ ~ m.tc
        BY <3>2, <4>4 DEF Recv
      <4>5. QED
        BY <4>1, <4>2, <4>3, <4>4
    <3>3. QED
      BY <1>6, <3>1, <3>2
  <2>6. ASSUME NEW d \in {d1, d2}, call' = [call EXCEPT ![t] = d] PROVE Quiet
    <3>1. d.ips = c.ips /\ d.open = c.open /\ d.dest = c.dest /\ d.famOk = c.famOk
      BY <2>4
    <3>2. d.pc \in Running \ {"boot", "lookup"}
      BY <1>3, <2>4 DEF Running
    <3>3. QED
      BY <1>1, <1>2, <1>3, <1>4, <2>6, <3>1, <3>2, GoQuiet
  <2>7. QED
    BY <1>2, <1>3, <1>4, <2>1, <2>5, <2>6, OkQuiet, ErrQuiet
<1>7. QED
  BY <1>5, <1>6

LEMMA ServerQuiet ==
  ASSUME IInv, NEW s \in Session, NEW m, ServeSession(s, m) \/ CloseSession(s)
  PROVE  Quiet
<1>1. PICK D : call \in [Tasks -> CallIn(D)]
  BY DEF IInv
<1>2. UNCHANGED << kind, given, now, dest >>
  BY DEF ServeSession, CloseSession
<1>3. CASE call' = call
  BY <1>2, <1>3 DEF Quiet, Still
<1>4. CASE call' # call
  <2>1. call' = [call EXCEPT ![m.to].answered = TRUE]
    BY <1>4 DEF ServeSession, CloseSession
  <2>2. m.to \in Tasks
    BY <1>1, <1>4, <2>1
  <2>3. PICK t \in Tasks : t = m.to
    BY <2>2
  <2>4. PICK c \in CallIn(D) : c = call[t]
    BY <1>1
  <2>5. PICK d : d = [c EXCEPT !.answered = TRUE]
    OBVIOUS
  <2>6. Still(c, d)
    BY <2>5 DEF CallIn, Still
  <2>7. call' = [call EXCEPT ![t] = d]
    BY <1>1, <2>1, <2>3, <2>4, <2>5
  <2>8. QED
    BY <1>1, <1>2, <2>4, <2>6, <2>7, QuietStep
<1>5. QED
  BY <1>3, <1>4

(* A call of an upstream named through a bootstrap, at time n. *)
BootInv(n, c) ==
  /\ c.pc = "idle" => c.famOk = {} /\ c.dest = << >> /\ c.open = {} /\ c.ips = << >>
  /\ c.pc = "boot" =>
       /\ c.open # {} /\ c.dest = << >>
       /\ c.famOk = {} <=> c.ips = << >>
       /\ "A" \in c.famOk => \E i \in 1 .. Len(c.ips) : c.ips[i] \in V4
       /\ n <= c.bdue /\ c.due + Budget = c.bdue + Limit
  /\ c.pc \in Running \ {"boot"} => c.dest # << >> /\ c.pc # "lookup"
  /\ c.pc \in Ended => c.dest # << >> \/ c.open # {} \/ c.famOk = {}

(* A call that has found IPv6 addresses only, and has done with it. *)
Only6(c) == c.famOk = {"AAAA"} /\ c.pc # "boot"

Origin ==
  /\ << kind, given >> \in Setups /\ now \in 0 .. MaxTime
  /\ dest \in Seq(Addr)
  /\ \A t \in Tasks : call[t].ips \in Seq(Addr) /\ call[t].dest \in Seq(Addr)
  /\ given = "bootstrap" =>
       /\ \A t \in Tasks : BootInv(now, call[t])
       /\ dest # << >> /\ dest[1] \in V6 => \E t \in Tasks : Only6(call[t])

LEMMA BootQuiet ==
  ASSUME NEW n, NEW c, NEW d, BootInv(n, c), Still(c, d) \/ Moved(c, d)
  PROVE  BootInv(n, d) /\ (Only6(c) => Only6(d))
<1>1. CASE Still(c, d)
  BY <1>1 DEF Still, BootInv, Only6
<1>2. CASE Moved(c, d)
  <2>1. /\ c.pc \in Running /\ d.pc \in (Running \cup Ended) /\ d.pc \notin {"boot", "lookup"}
        /\ c.pc \in {"boot", "lookup"} => d.pc = "err"
        /\ d.open = c.open /\ d.dest = c.dest /\ d.famOk = c.famOk
    BY <1>2 DEF Moved
  <2>2. c.pc \notin {"boot", "lookup"} => c.dest # << >>
    BY <2>1 DEF BootInv
  <2>3. c.pc = "boot" => c.open # {}
    BY DEF BootInv
  <2>4. c.pc # "lookup"
    BY <2>1 DEF BootInv, Running
  <2>5. d.pc \in Running => d.dest # << >>
    BY <2>1, <2>2, Phases
  <2>6. d.pc \in Ended => d.dest # << >> \/ d.open # {}
    BY <2>1, <2>2, <2>3, <2>4
  <2>7. d.pc # "idle"
    BY <2>1, Phases DEF Ended
  <2>8. QED
    BY <2>1, <2>5, <2>6, <2>7 DEF BootInv, Only6
<1>3. QED
  BY <1>1, <1>2

LEMMA NoAddr == << >> \in Seq(Addr)
  OBVIOUS

LEMMA QuietOrigin ==
  ASSUME Origin, Quiet
  PROVE  Origin'
<1>1. UNCHANGED << kind, given, now, dest >>
  BY DEF Quiet
<1>2. ASSUME NEW t \in Tasks
      PROVE  call'[t].ips \in Seq(Addr) /\ call'[t].dest \in Seq(Addr)
  <2>1. call'[t].ips \in {call[t].ips, << >>} /\ call'[t].dest = call[t].dest
    BY DEF Quiet, Still, Moved
  <2>2. call[t].ips \in Seq(Addr) /\ call[t].dest \in Seq(Addr)
    BY DEF Origin
  <2>3. QED
    BY <2>1, <2>2, NoAddr
<1>3. ASSUME given = "bootstrap", NEW t \in Tasks
      PROVE  BootInv(now, call'[t]) /\ (Only6(call[t]) => Only6(call'[t]))
  <2>1. BootInv(now, call[t]) /\ (Still(call[t], call'[t]) \/ Moved(call[t], call'[t]))
    BY <1>3 DEF Origin, Quiet
  <2>2. QED
    BY <2>1, BootQuiet
<1>4. given = "bootstrap" /\ dest # << >> /\ dest[1] \in V6 => \E t \in Tasks : Only6(call'[t])
  BY <1>3 DEF Origin
<1>5. QED
  BY <1>1, <1>2, <1>3, <1>4 DEF Origin

(* A step of one call that may settle the destination. *)
LEMMA SettleStep ==
  ASSUME Origin, NEW D, call \in [Tasks -> CallIn(D)], NEW t \in Tasks, NEW d,
         call' = [call EXCEPT ![t] = d], UNCHANGED << kind, given, now >>,
         dest' \in Seq(Addr), d.ips \in Seq(Addr), d.dest \in Seq(Addr),
         given = "bootstrap" =>
           /\ BootInv(now, d) /\ ~ Only6(call[t])
           /\ dest' = dest \/ (dest'[1] \in V6 => Only6(d))
  PROVE  Origin'
<1>1. call'[t] = d /\ \A u \in Tasks : u # t => call'[u] = call[u]
  OBVIOUS
<1>2. \A u \in Tasks : call'[u].ips \in Seq(Addr) /\ call'[u].dest \in Seq(Addr)
  BY <1>1 DEF Origin
<1>3. ASSUME given = "bootstrap"
      PROVE  /\ \A u \in Tasks : BootInv(now, call'[u])
             /\ dest' # << >> /\ dest'[1] \in V6 => \E u \in Tasks : Only6(call'[u])
  <2>1. \A u \in Tasks : BootInv(now, call'[u])
    BY <1>1, <1>3 DEF Origin
  <2>2. CASE dest' = dest
    <3>1. ASSUME dest # << >>, dest[1] \in V6 PROVE \E u \in Tasks : Only6(call'[u])
      <4>1. PICK u \in Tasks : Only6(call[u])
        BY <1>3, <3>1 DEF Origin
      <4>2. u # t
        BY <1>3, <4>1
      <4>3. QED
        BY <1>1, <4>1, <4>2
    <3>2. QED
      BY <2>1, <2>2, <3>1
  <2>3. CASE dest' # dest
    <3>1. dest'[1] \in V6 => Only6(call'[t])
      BY <1>1, <1>3, <2>3
    <3>2. QED
      BY <2>1, <3>1
  <2>4. QED
    BY <2>2, <2>3
<1>4. << kind', given' >> \in Setups /\ now' \in 0 .. MaxTime
  BY DEF Origin
<1>5. QED
  BY <1>2, <1>3, <1>4 DEF Origin

LEMMA Budgets ==
  /\ Limit \in Nat /\ Budget \in Nat /\ Limit \div 2 \in Nat /\ Budget <= Limit \div 2
  /\ MaxTime \in Nat
<1>1. Limit \in Nat /\ BootMax \in Nat /\ MaxTime \in Nat
  BY UpstreamAssumption
<1>2. PICK h : h = Limit \div 2
  OBVIOUS
<1>3. h \in Nat
  BY <1>1, <1>2
<1>4. Budget = IF h < BootMax THEN h ELSE BootMax
  BY <1>2 DEF Budget
<1>5. QED
  BY <1>1, <1>2, <1>3, <1>4

LEMMA StaticAddr == StaticDest \in Seq(Addr)
<1>1. PICK ip : ip = CHOOSE x \in V4 : TRUE
  OBVIOUS
<1>2. ip \in V4
  BY <1>1, UpstreamAssumption
<1>3. << ip >> \in Seq(Addr)
  BY <1>2 DEF Addr
<1>4. QED
  BY <1>1, <1>3 DEF StaticDest

LEMMA BeginOrigin ==
  ASSUME IInv, Origin, NEW t \in Tasks, Begin(t)
  PROVE  Origin'
<1>1. call[t].pc = "idle" /\ UNCHANGED << kind, given, now >>
  BY DEF Begin
<1>2. PICK D : call \in [Tasks -> CallIn(D)]
  BY DEF IInv
<1>3. PICK c : c = [call[t] EXCEPT !.due = now + Limit]
  OBVIOUS
<1>4. call[t].ips \in Seq(Addr) /\ call[t].dest \in Seq(Addr) /\ dest \in Seq(Addr)
  BY DEF Origin
<1>5. given = "bootstrap" => BootInv(now, call[t])
  BY DEF Origin
<1>6. given = "bootstrap" =>
        /\ call[t].famOk = {} /\ call[t].dest = << >> /\ call[t].open = {} /\ call[t].ips = << >>
        /\ ~ Only6(call[t])
  BY <1>1, <1>5 DEF BootInv, Only6
<1>7. PICK b : b = call[t] /\ b \in CallIn(D) /\ c = [b EXCEPT !.due = now + Limit]
  BY <1>2, <1>3
<1>8. PICK d1, d3, d4 : /\ d1 = [c EXCEPT !.pc = "http"] /\ d4 = [c EXCEPT !.pc = "lookup"]
                        /\ d3 = [c EXCEPT !.pc = "boot", !.open = Family, !.bdue = now + Budget]
  OBVIOUS
<1>9. d1.ips = b.ips /\ d1.dest = b.dest /\ d4.ips = b.ips /\ d4.dest = b.dest
  BY <1>7, <1>8 DEF CallIn
<1>10. /\ d3.pc = "boot" /\ d3.ips = b.ips /\ d3.dest = b.dest /\ d3.open = Family
       /\ d3.bdue = now + Budget /\ d3.due = now + Limit /\ d3.famOk = b.famOk
  BY <1>7, <1>8 DEF CallIn
<1>11. CASE call' = [call EXCEPT ![t] = d1] /\ dest' = dest /\ given = "lookup"
  BY <1>1, <1>2, <1>4, <1>7, <1>9, <1>11, SettleStep
<1>12. CASE call' = [call EXCEPT ![t] = d4] /\ dest' = dest /\ given = "lookup"
  BY <1>1, <1>2, <1>4, <1>7, <1>9, <1>12, SettleStep
<1>13. CASE call' = [call EXCEPT ![t] = d3] /\ dest' = dest /\ given = "bootstrap"
  <2>1. BootInv(now, d3)
    <3>1. d3.open # {}
      BY <1>10 DEF Family
    <3>2. now <= d3.bdue /\ d3.due + Budget = d3.bdue + Limit
      BY <1>10, Budgets DEF IInv
    <3>3. d3.dest = << >> /\ d3.ips = << >> /\ d3.famOk = {}
      BY <1>6, <1>7, <1>10, <1>13
    <3>4. QED
      BY <1>10, <3>1, <3>2, <3>3 DEF BootInv, Ended
  <2>2. d3.ips \in Seq(Addr) /\ d3.dest \in Seq(Addr)
    BY <1>4, <1>7, <1>10
  <2>3. QED
    BY <1>1, <1>2, <1>4, <1>6, <1>13, <2>1, <2>2, SettleStep
<1>14. ASSUME NEW v \in Seq(Addr), v # << >>, call' = [call EXCEPT ![t] = [c EXCEPT !.pc = "ready", !.dest = v]],
              dest' = dest \/ (dest' = v /\ given # "bootstrap")
       PROVE  Origin'
  <2>1. PICK d : d = [c EXCEPT !.pc = "ready", !.dest = v]
    OBVIOUS
  <2>2. d.pc = "ready" /\ d.ips = b.ips /\ d.dest = v
    BY <1>7, <2>1 DEF CallIn
  <2>3. BootInv(now, d)
    BY <1>14, <2>2 DEF BootInv, Running, Ended
  <2>4. d.ips \in Seq(Addr) /\ d.dest \in Seq(Addr) /\ dest' \in Seq(Addr)
    BY <1>4, <1>7, <1>14, <2>2
  <2>5. call' = [call EXCEPT ![t] = d]
    BY <1>14, <2>1
  <2>6. given = "bootstrap" => BootInv(now, d) /\ ~ Only6(call[t]) /\ dest' = dest
    BY <1>6, <1>14, <2>3
  <2>7. QED
    BY <1>1, <1>2, <2>4, <2>5, <2>6, SettleStep
<1>15. StaticDest # << >> /\ StaticDest \in Seq(Addr)
  BY StaticAddr DEF StaticDest
<1>16. \/ call' = [call EXCEPT ![t] = d1] /\ dest' = dest /\ given = "lookup"
       \/ /\ dest # << >> /\ dest' = dest
          /\ call' = [call EXCEPT ![t] = [c EXCEPT !.pc = "ready", !.dest = dest]]
       \/ /\ given = "static" /\ dest' = IF kind = "doh" THEN dest ELSE StaticDest
          /\ call' = [call EXCEPT ![t] = [c EXCEPT !.pc = "ready", !.dest = StaticDest]]
       \/ call' = [call EXCEPT ![t] = d3] /\ dest' = dest /\ given = "bootstrap"
       \/ call' = [call EXCEPT ![t] = d4] /\ dest' = dest /\ given = "lookup"
  BY <1>3, <1>8, Zenon DEF Begin
<1>17. CASE /\ given = "static" /\ dest' = IF kind = "doh" THEN dest ELSE StaticDest
            /\ call' = [call EXCEPT ![t] = [c EXCEPT !.pc = "ready", !.dest = StaticDest]]
  BY <1>14, <1>15, <1>17
<1>18. CASE /\ dest # << >> /\ dest' = dest
            /\ call' = [call EXCEPT ![t] = [c EXCEPT !.pc = "ready", !.dest = dest]]
  BY <1>4, <1>14, <1>18
<1>19. QED
  BY <1>11, <1>12, <1>13, <1>16, <1>17, <1>18

(* What settling the list d leaves. *)
LEMMA SettleFacts ==
  ASSUME Origin, NEW d \in Seq(Addr), d # << >>
  PROVE  /\ Settle(d) \in Seq(Addr) /\ Settle(d) # << >>
         /\ Settle(d) = dest \/ Settle(d)[1] = d[1]
<1>1. dest \in Seq(Addr) /\ d[1] \in Addr
  BY DEF Origin
<1>2. PICK x \in Addr : x = d[1]
  BY <1>1
<1>3. << x >> \in Seq(Addr) /\ << x >> # << >> /\ << x >>[1] = x
  OBVIOUS
<1>4. QED
  BY <1>1, <1>2, <1>3 DEF Settle

(* What a lookup for fam has found. *)
LEMMA FoundFacts ==
  ASSUME NEW fam \in Family, NEW list, list \in Found[fam] \cup {<< >>}
  PROVE  list \in Seq(Addr) /\ (fam = "A" /\ list # << >> => list[1] \in V4)
<1>1. CASE list = << >>
  BY <1>1
<1>2. CASE fam = "A" /\ list # << >>
  <2>1. list \in Seq(V4)
    BY <1>2, UpstreamAssumption
  <2>2. list \in Seq(Addr) /\ list[1] \in V4
    BY <1>2, <2>1 DEF Addr
  <2>3. QED
    BY <2>2
<1>3. CASE fam = "AAAA" /\ list # << >>
  <2>1. list \in Seq(V6)
    BY <1>3, UpstreamAssumption
  <2>2. list \in Seq(Addr)
    BY <2>1 DEF Addr
  <2>3. QED
    BY <1>3, <2>2
<1>4. QED
  BY <1>1, <1>2, <1>3 DEF Family

(* The answers a bootstrap has after one more lookup. *)
LEMMA MoreAnswers ==
  ASSUME NEW ips \in Seq(Addr), NEW ok, NEW fam \in Family, NEW list \in Seq(Addr),
         fam = "A" /\ list # << >> => list[1] \in V4,
         ok = {} <=> ips = << >>,
         "A" \in ok => \E i \in 1 .. Len(ips) : ips[i] \in V4
  PROVE  LET all == ips \o list
             ok2 == IF list = << >> THEN ok ELSE ok \cup {fam}
         IN  /\ ok2 = {} <=> all = << >>
             /\ "A" \in ok2 => \E i \in 1 .. Len(all) : all[i] \in V4
<1>1. PICK all, ok2 : all = ips \o list /\ ok2 = IF list = << >> THEN ok ELSE ok \cup {fam}
  OBVIOUS
<1>2. CASE list = << >>
  <2>1. all = ips /\ ok2 = ok
    BY <1>1, <1>2
  <2>2. QED
    BY <1>1, <2>1
<1>3. CASE list # << >>
  <2>1. Len(all) = Len(ips) + Len(list) /\ Len(list) # 0 /\ Len(ips) \in Nat /\ Len(list) \in Nat
    BY <1>1, <1>3
  <2>2. \A i \in 1 .. Len(ips) : i \in 1 .. Len(all) /\ all[i] = ips[i]
    BY <1>1, <2>1
  <2>3. Len(ips) + 1 \in 1 .. Len(all) /\ all[Len(ips) + 1] = list[1]
    BY <1>1, <2>1
  <2>4. all # << >> /\ ok2 = ok \cup {fam}
    BY <1>1, <1>3, <2>1
  <2>5. "A" \in ok2 => \E i \in 1 .. Len(all) : all[i] \in V4
    <3>1. CASE "A" \in ok
      <4>1. PICK i \in 1 .. Len(ips) : ips[i] \in V4
        BY <3>1
      <4>2. QED
        BY <2>2, <4>1
    <3>2. CASE fam = "A"
      <4>1. list[1] \in V4
        BY <1>3, <3>2
      <4>2. QED
        BY <2>3, <4>1
    <3>3. QED
      BY <2>4, <3>1, <3>2
  <2>6. QED
    BY <1>1, <2>4, <2>5
<1>4. QED
  BY <1>2, <1>3

LEMMA LookupOrigin ==
  ASSUME IInv, Origin, NEW t \in Tasks, NEW fam \in Family, NEW list,
         list \in Found[fam] \cup {<< >>}, call[t].pc = "boot", LookupEnds(t, fam, list),
         UNCHANGED << kind, given, now >>
  PROVE  Origin'
<1>1. PICK D : call \in [Tasks -> CallIn(D)]
  BY DEF IInv
<1>2. PICK b \in CallIn(D) : b = call[t]
  BY <1>1
<1>3. b.ips \in Seq(Addr) /\ b.dest \in Seq(Addr) /\ dest \in Seq(Addr) /\ b.famOk \subseteq Family
  BY <1>2 DEF Origin, CallIn
<1>4. list \in Seq(Addr) /\ (fam = "A" /\ list # << >> => list[1] \in V4)
  BY FoundFacts
<1>5. PICK ips, open : ips = b.ips \o list /\ open = b.open \ {fam}
  OBVIOUS
<1>6. PICK ok : ok = IF list = << >> THEN b.famOk ELSE b.famOk \cup {fam}
  OBVIOUS
<1>7. ips \in Seq(Addr) /\ ok \subseteq Family
  BY <1>3, <1>4, <1>5, <1>6
<1>8. PICK c : c = [b EXCEPT !.ips = ips, !.open = open, !.famOk = ok]
  OBVIOUS
<1>9. /\ c.pc = "boot" /\ c.ips = ips /\ c.open = open /\ c.famOk = ok /\ c.dest = b.dest
      /\ c.due = b.due /\ c.bdue = b.bdue
  BY <1>2, <1>8 DEF CallIn
<1>10. PICK v : v = Settle(Dedup(SortByFamily(ips)))
  OBVIOUS
<1>11. ~ Only6(call[t])
  BY DEF Only6
<1>12. given = "bootstrap" =>
         /\ b.open # {} /\ b.dest = << >> /\ (b.famOk = {} <=> b.ips = << >>)
         /\ "A" \in b.famOk => \E i \in 1 .. Len(b.ips) : b.ips[i] \in V4
         /\ now <= b.bdue /\ b.due + Budget = b.bdue + Limit
  <2>1. given = "bootstrap" => BootInv(now, b)
    BY <1>2 DEF Origin
  <2>2. QED
    BY <1>2, <2>1 DEF BootInv
<1>13. given = "bootstrap" =>
         /\ ok = {} <=> ips = << >>
         /\ "A" \in ok => \E i \in 1 .. Len(ips) : ips[i] \in V4
  <2>1. SUFFICES ASSUME given = "bootstrap"
                 PROVE  /\ ok = {} <=> ips = << >>
                        /\ "A" \in ok => \E i \in 1 .. Len(ips) : ips[i] \in V4
    OBVIOUS
  <2>2. PICK x, y : x \in Seq(Addr) /\ x = b.ips /\ y = b.famOk
    BY <1>3
  <2>3. (y = {} <=> x = << >>) /\ ("A" \in y => \E i \in 1 .. Len(x) : x[i] \in V4)
    BY <1>12, <2>1, <2>2
  <2>4. PICK z, w : z = x \o list /\ w = IF list = << >> THEN y ELSE y \cup {fam}
    OBVIOUS
  <2>5. (w = {} <=> z = << >>) /\ ("A" \in w => \E i \in 1 .. Len(z) : z[i] \in V4)
    BY <1>4, <2>3, <2>4, MoreAnswers
  <2>6. z = ips /\ w = ok
    BY <1>5, <1>6, <2>2, <2>4
  <2>7. QED
    BY <2>5, <2>6
<1>14. ASSUME open # {}, call' = [call EXCEPT ![t] = c], dest' = dest PROVE Origin'
  <2>1. given = "bootstrap" => BootInv(now, c)
    BY <1>9, <1>12, <1>13, <1>14 DEF BootInv, Ended
  <2>2. c.ips \in Seq(Addr) /\ c.dest \in Seq(Addr)
    BY <1>3, <1>7, <1>9
  <2>3. QED
    BY <1>1, <1>3, <1>11, <1>14, <2>1, <2>2, SettleStep
<1>15. ASSUME ips = << >>, call' = [call EXCEPT ![t] = End(c, "err")], dest' = dest PROVE Origin'
  <2>1. PICK d : d = End(c, "err")
    OBVIOUS
  <2>2. d.pc = "err" /\ d.ips = << >> /\ d.dest = c.dest /\ d.famOk = c.famOk
    BY <1>8, <2>1 DEF End, CallIn
  <2>3. given = "bootstrap" => BootInv(now, d)
    <3>1. given = "bootstrap" => d.famOk = {}
      BY <1>9, <1>13, <1>15, <2>2
    <3>2. QED
      BY <2>2, <3>1 DEF BootInv, Running
  <2>4. d.ips \in Seq(Addr) /\ d.dest \in Seq(Addr)
    BY <1>3, <1>9, <2>2, NoAddr
  <2>5. call' = [call EXCEPT ![t] = d]
    BY <1>15, <2>1
  <2>6. QED
    BY <1>1, <1>3, <1>11, <1>15, <2>3, <2>4, <2>5, SettleStep
<1>16. ASSUME ips # << >>, dest' = v,
              call' = [call EXCEPT ![t] = [c EXCEPT !.pc = "ready", !.ips = << >>, !.dest = v]]
       PROVE  Origin'
  <2>1. PICK l : l = Dedup(SortByFamily(ips))
    OBVIOUS
  <2>2. /\ l \in Seq(Addr) /\ l # << >>
        /\ (\E i \in 1 .. Len(ips) : ips[i] \in V4) => l[1] \in V4
    BY <1>7, <1>16, <2>1, SortedFacts
  <2>3. v \in Seq(Addr) /\ v # << >> /\ (v = dest \/ v[1] = l[1])
    BY <1>10, <2>1, <2>2, SettleFacts
  <2>4. PICK d : d = [c EXCEPT !.pc = "ready", !.ips = << >>, !.dest = v]
    OBVIOUS
  <2>5. d.pc = "ready" /\ d.ips = << >> /\ d.dest = v /\ d.famOk = ok
    BY <1>8, <1>9, <2>4 DEF CallIn
  <2>6. BootInv(now, d)
    BY <2>3, <2>5 DEF BootInv, Running, Ended
  <2>7. given = "bootstrap" /\ v # dest /\ v[1] \in V6 => Only6(d)
    <3>1. SUFFICES ASSUME given = "bootstrap", l[1] \in V6 PROVE Only6(d)
      BY <2>3
    <3>2. l[1] \notin V4
      BY <3>1, UpstreamAssumption
    <3>3. "A" \notin ok /\ ok # {}
      BY <1>13, <1>16, <2>2, <3>1, <3>2
    <3>4. ok = {"AAAA"}
      BY <1>7, <3>3 DEF Family
    <3>5. QED
      BY <2>5, <3>4 DEF Only6
  <2>8. d.ips \in Seq(Addr) /\ d.dest \in Seq(Addr) /\ dest' \in Seq(Addr)
    BY <1>16, <2>3, <2>5, NoAddr
  <2>9. call' = [call EXCEPT ![t] = d]
    BY <1>16, <2>4
  <2>10. given = "bootstrap" => /\ BootInv(now, d) /\ ~ Only6(call[t])
                                /\ dest' = dest \/ (dest'[1] \in V6 => Only6(d))
    BY <1>11, <1>16, <2>6, <2>7
  <2>11. QED
    BY <1>1, <2>8, <2>9, <2>10, SettleStep
<1>17. \/ open # {} /\ call' = [call EXCEPT ![t] = c] /\ dest' = dest
       \/ ips = << >> /\ call' = [call EXCEPT ![t] = End(c, "err")] /\ dest' = dest
       \/ /\ ips # << >> /\ dest' = v
          /\ call' = [call EXCEPT ![t] = [c EXCEPT !.pc = "ready", !.ips = << >>, !.dest = v]]
  BY <1>2, <1>5, <1>6, <1>8, <1>10, Zenon DEF LookupEnds
<1>18. QED
  BY <1>14, <1>15, <1>16, <1>17

LEMMA SystemOrigin ==
  ASSUME IInv, Origin, NEW t \in Tasks, NEW list, list \in Found["A"] \cup Found["AAAA"],
         SystemLookup(t, list)
  PROVE  Origin'
<1>1. call[t].pc = "lookup" /\ UNCHANGED << kind, given, now >>
  BY DEF SystemLookup
<1>2. given # "bootstrap"
  <2>1. given = "bootstrap" => BootInv(now, call[t])
    BY DEF Origin
  <2>2. QED
    BY <1>1, <2>1 DEF BootInv, Running
<1>3. PICK D : call \in [Tasks -> CallIn(D)]
  BY DEF IInv
<1>4. PICK b \in CallIn(D) : b = call[t]
  BY <1>3
<1>5. b.ips \in Seq(Addr) /\ b.dest \in Seq(Addr) /\ dest \in Seq(Addr)
  BY <1>4 DEF Origin
<1>6. list \in Seq(Addr)
  BY FoundFacts DEF Family
<1>7. CASE list # << >>
  <2>1. PICK v : v = Settle(list)
    OBVIOUS
  <2>2. v \in Seq(Addr)
    BY <1>6, <1>7, <2>1, SettleFacts
  <2>3. PICK d : d = [b EXCEPT !.pc = "ready", !.dest = v]
    OBVIOUS
  <2>4. d.ips = b.ips /\ d.dest = v
    BY <2>3 DEF CallIn
  <2>5. call' = [call EXCEPT ![t] = d] /\ dest' = v
    BY <1>3, <1>4, <1>7, <2>1, <2>3 DEF SystemLookup
  <2>6. QED
    BY <1>1, <1>2, <1>3, <1>5, <2>2, <2>4, <2>5, SettleStep
<1>8. CASE list = << >>
  <2>1. PICK d : d = [b EXCEPT !.pc = "err"]
    OBVIOUS
  <2>2. d.ips = b.ips /\ d.dest = b.dest
    BY <2>1 DEF CallIn
  <2>3. call' = [call EXCEPT ![t] = d] /\ dest' = dest
    BY <1>3, <1>4, <1>8, <2>1 DEF SystemLookup
  <2>4. QED
    BY <1>1, <1>2, <1>3, <1>5, <2>2, <2>3, SettleStep
<1>9. QED
  BY <1>7, <1>8

LEMMA TickOrigin ==
  ASSUME IInv, Origin, Tick
  PROVE  Origin'
<1>1. now < MaxTime /\ now' = now + 1 /\ UNCHANGED << kind, given, dest, call >>
  BY DEF Tick
<1>2. now \in Nat /\ now' \in 0 .. MaxTime
  BY <1>1, Budgets DEF IInv
<1>3. ASSUME given = "bootstrap", NEW t \in Tasks PROVE BootInv(now + 1, call[t])
  <2>1. PICK c : c = call[t] /\ BootInv(now, c) /\ (c.pc = "boot" => now < c.bdue)
    BY <1>3 DEF Tick, Origin
  <2>2. c.bdue \in Nat
    BY <2>1 DEF IInv, CallIn
  <2>3. c.pc = "boot" => now + 1 <= c.bdue
    BY <1>2, <2>1, <2>2
  <2>4. BootInv(now + 1, c)
    BY <2>1, <2>3 DEF BootInv
  <2>5. QED
    BY <2>1, <2>4
<1>4. given = "bootstrap" => \A t \in Tasks : BootInv(now', call[t])
  BY <1>1, <1>3
<1>5. QED
  BY <1>1, <1>2, <1>4 DEF Origin

LEMMA InitOrigin == Init => Origin
<1>1. SUFFICES ASSUME Init PROVE Origin
  OBVIOUS
<1>2. PICK setup \in Setups : kind = setup[1] /\ given = setup[2]
  BY <1>1 DEF Init
<1>3. << kind, given >> \in Setups
  BY <1>2, UpstreamAssumption
<1>4. now = 0 /\ now \in 0 .. MaxTime /\ dest = << >>
  BY <1>1, Budgets DEF Init
<1>5. \A t \in Tasks : /\ call[t].pc = "idle" /\ call[t].ips = << >> /\ call[t].dest = << >>
                       /\ call[t].open = {} /\ call[t].famOk = {}
  BY <1>1 DEF Init
<1>6. \A t \in Tasks : BootInv(now, call[t])
  BY <1>5, Phases DEF BootInv, Ended
<1>7. QED
  BY <1>3, <1>4, <1>5, <1>6, NoAddr DEF Origin

LEMMA NextOrigin == IInv /\ Origin /\ [Next]_vars => Origin'
<1>1. SUFFICES ASSUME IInv, Origin, [Next]_vars PROVE Origin'
  OBVIOUS
<1>2. ASSUME NEW t \in Tasks,
             \/ Begin(t) \/ UsePool(t) \/ Dial(t) \/ Handshake(t) \/ ConnectFails(t)
             \/ ReadFramed(t) \/ ReadFails(t) \/ Send(t) \/ Timeout(t) \/ Cancel(t)
      PROVE  Origin'
  <2>1. CASE Begin(t)
    BY <1>1, <2>1, BeginOrigin
  <2>2. CASE UsePool(t) \/ Dial(t) \/ Handshake(t) \/ ConnectFails(t) \/ Send(t)
    BY <1>1, <2>2, ConnectQuiet, QuietOrigin
  <2>3. CASE ReadFramed(t) \/ ReadFails(t)
    BY <1>1, <2>3, ReadQuiet, QuietOrigin
  <2>4. CASE Timeout(t) \/ Cancel(t)
    <3>1. /\ call[t].pc \in Running /\ call' = [call EXCEPT ![t] = End(call[t], "err")]
          /\ UNCHANGED << kind, given, now, dest >>
      BY <2>4 DEF Timeout, Cancel, GiveUp
    <3>2. QED
      BY <1>1, <3>1, ErrQuiet, QuietOrigin
  <2>5. QED
    BY <1>2, <2>1, <2>2, <2>3, <2>4
<1>3. ASSUME NEW t \in Tasks, NEW fam \in Family,
             BootTimeout(t, fam) \/ \E list \in Found[fam] : BootAnswer(t, fam, list)
      PROVE  Origin'
  <2>1. CASE BootTimeout(t, fam)
    <3>1. PICK list : list = << >>
      OBVIOUS
    <3>2. /\ call[t].pc = "boot" /\ LookupEnds(t, fam, list) /\ UNCHANGED << kind, given, now >>
          /\ list \in Found[fam] \cup {<< >>}
      BY <2>1, <3>1 DEF BootTimeout
    <3>3. QED
      BY <1>1, <3>2, LookupOrigin
  <2>2. ASSUME NEW list \in Found[fam], BootAnswer(t, fam, list) PROVE Origin'
    <3>1. /\ call[t].pc = "boot" /\ LookupEnds(t, fam, list) /\ UNCHANGED << kind, given, now >>
          /\ list \in Found[fam] \cup {<< >>}
      BY <2>2 DEF BootAnswer
    <3>2. QED
      BY <1>1, <3>1, LookupOrigin
  <2>3. QED
    BY <1>3, <2>1, <2>2
<1>4. ASSUME NEW t \in Tasks, NEW list \in Found["A"] \cup Found["AAAA"], SystemLookup(t, list)
      PROVE  Origin'
  BY <1>1, <1>4, SystemOrigin
<1>5. ASSUME NEW t \in Tasks, NEW m, Recv(t, m) \/ HttpBody(t, m) \/ Serve(t, m) PROVE Origin'
  BY <1>1, <1>5, MessageQuiet, QuietOrigin
<1>6. ASSUME NEW s \in Session, NEW m, ServeSession(s, m) \/ CloseSession(s) PROVE Origin'
  BY <1>1, <1>6, ServerQuiet, QuietOrigin
<1>7. CASE Tick
  BY <1>1, <1>7, TickOrigin
<1>8. CASE UNCHANGED vars
  BY <1>1, <1>8 DEF vars, Origin
<1>9. QED
  BY <1>1, <1>2, <1>3, <1>4, <1>5, <1>6, <1>7, <1>8 DEF Next

LEMMA OriginInvariance == Spec => []Origin
  BY InitOrigin, NextOrigin, Invariance, PTL DEF Spec

-----------------------------------------------------------------------------

(* Every variable keeps its type, whatever the lookups return: in          *)
(* particular what bootstrap_ips sorts and merges is a list of addresses,  *)
(* and the pool never holds more than Cap sessions.                        *)
THEOREM TypeCorrect == Spec => []TypeOK
<1>1. ASSUME IInv, Origin PROVE TypeOK
  <2>1. HolderInv(kind, now, call, pool, sess)
    BY <1>1 DEF IInv
  <2>2. /\ pool \in Seq([s : Session, since : Nat]) /\ Len(pool) <= Cap
        /\ sess \in [Session -> SessRec]
    BY <2>1 DEF HolderInv
  <2>3. PICK D : call \in [Tasks -> CallIn(D)]
    BY <1>1 DEF IInv
  <2>4. ASSUME NEW t \in Tasks PROVE call[t] \in Call
    <3>1. PICK c \in CallIn(D) : c = call[t]
      BY <2>3
    <3>2. c.ips \in Seq(V4 \cup V6) /\ c.dest \in Seq(V4 \cup V6)
      BY <1>1, <3>1 DEF Origin, Addr
    <3>3. c \in Call
      BY <3>2 DEF CallIn, Call
    <3>4. QED
      BY <3>1, <3>3
  <2>5. call \in [Tasks -> Call]
    BY <2>3, <2>4
  <2>6. << kind, given >> \in Setups /\ now \in 0 .. MaxTime /\ dest \in Seq(V4 \cup V6)
    BY <1>1 DEF Origin, Addr
  <2>7. QED
    BY <2>2, <2>5, <2>6 DEF TypeOK, SessRec
<1>2. QED
  BY <1>1, Invariance, OriginInvariance, PTL

(* A bootstrap makes the most of its answers, for any answers, number of   *)
(* calls and time limits: with one family answered no call fails for want  *)
(* of an address, an IPv6 destination was settled by a call that had no    *)
(* IPv4 address, and the bootstrap never takes more than half of the       *)
(* call's time (bootstrap_ips, exchange_inner).                            *)
THEOREM BootstrapCorrect == Spec => []BootstrapPartial
<1>1. ASSUME IInv, Origin PROVE BootstrapPartial
  <2>1. SUFFICES ASSUME given = "bootstrap"
                 PROVE  /\ \A t \in Tasks :
                             call[t].pc = "err" /\ call[t].dest = << >> /\ call[t].open = {} =>
                               call[t].famOk = {}
                        /\ dest # << >> /\ dest[1] \in V6 =>
                             \E t \in Tasks : call[t].famOk = {"AAAA"}
                        /\ \A t \in Tasks :
                             call[t].pc = "boot" => call[t].due - now >= Limit - Limit \div 2
    BY DEF BootstrapPartial
  <2>2. \A t \in Tasks : BootInv(now, call[t])
    BY <1>1, <2>1 DEF Origin
  <2>3. \A t \in Tasks : call[t].pc = "err" /\ call[t].dest = << >> /\ call[t].open = {} =>
                           call[t].famOk = {}
    BY <2>2 DEF BootInv, Ended
  <2>4. dest # << >> /\ dest[1] \in V6 => \E t \in Tasks : call[t].famOk = {"AAAA"}
    BY <1>1, <2>1 DEF Origin, Only6
  <2>5. ASSUME NEW t \in Tasks, call[t].pc = "boot"
        PROVE  call[t].due - now >= Limit - Limit \div 2
    <3>1. PICK due, bdue : due = call[t].due /\ bdue = call[t].bdue
      OBVIOUS
    <3>2. due \in Nat /\ bdue \in Nat /\ now \in Nat
      BY <1>1, <3>1 DEF IInv, CallIn
    <3>3. now <= bdue /\ due + Budget = bdue + Limit
      BY <2>2, <2>5, <3>1 DEF BootInv
    <3>4. PICK h \in Nat : h = Limit \div 2 /\ Budget <= h
      BY Budgets
    <3>5. due - now >= Limit - h
      BY <3>2, <3>3, <3>4, Budgets
    <3>6. QED
      BY <3>1, <3>4, <3>5
  <2>6. QED
    BY <2>3, <2>4, <2>5
<1>2. QED
  BY <1>1, Invariance, OriginInvariance, PTL
=============================================================================
