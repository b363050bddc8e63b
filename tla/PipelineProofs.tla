--------------------------- MODULE PipelineProofs ---------------------------
(***************************************************************************)
(* Proofs about the pipeline, for any names, rules, caches, queries and    *)
(* configurations.                                                         *)
(***************************************************************************)
EXTENDS Pipeline, NaturalsInduction, WellFoundedInduction, TLAPS

-----------------------------------------------------------------------------
(* Loops.  What a loop computes is proved by looking at the first round    *)
(* that would differ.                                                      *)

LEMMA Least ==
  ASSUME NEW T, T \subseteq Nat, T # {}
  PROVE  \E n \in T : \A m \in T : n <= m
<1>1. PICK n \in T : \A m \in T : ~ (<< m, n >> \in OpToRel(<, Nat))
  BY NatLessThanWellFounded, WFMin
<1>2. \A m \in T : n <= m
  <2>1. SUFFICES ASSUME NEW m \in T, m < n PROVE FALSE
    OBVIOUS
  <2>2. << m, n >> \in OpToRel(<, Nat)
    BY <2>1 DEF OpToRel
  <2>3. QED
    BY <1>1, <2>2
<1>3. QED
  BY <1>2

(* A set of numbers that holds 0 and, with i - 1, every i up to n. *)
LEMMA UpTo ==
  ASSUME NEW n \in Nat, NEW P, 0 \in P, \A i \in 1 .. n : i - 1 \in P => i \in P
  PROVE  \A i \in 0 .. n : i \in P
<1>1. SUFFICES ASSUME NEW T, T = {i \in 0 .. n : i \notin P}, T # {} PROVE FALSE
  OBVIOUS
<1>2. T \subseteq Nat
  BY <1>1
<1>3. PICK i \in T : \A m \in T : i <= m
  BY <1>1, <1>2, Least
<1>4. i \in 1 .. n /\ i - 1 \in 0 .. n
  BY <1>1, <1>3
<1>5. i - 1 \in P
  BY <1>1, <1>3, <1>4
<1>6. QED
  BY <1>1, <1>4, <1>5

(* One round of Missing. *)
MissingAt(f, s, R, i) ==
  IF i = 0 THEN << >> ELSE IF s[i] \in R THEN f[i - 1] ELSE Append(f[i - 1], s[i])

LEMMA MissingRounds ==
  ASSUME NEW S, NEW s \in Seq(S), NEW R
  PROVE  \E f : /\ f = [i \in 0 .. Len(s) |-> MissingAt(f, s, R, i)]
                /\ Missing(s, R) = f[Len(s)]
<1>1. PICK n \in Nat : n = Len(s)
  OBVIOUS
<1>2. PICK P : P = {i \in 0 .. n : \E f : f = [j \in 0 .. i |-> MissingAt(f, s, R, j)]}
  OBVIOUS
<1>3. 0 \in P
  <2>1. PICK f : f = [j \in 0 .. 0 |-> << >>]
    OBVIOUS
  <2>2. f = [j \in 0 .. 0 |-> MissingAt(f, s, R, j)]
    BY <2>1 DEF MissingAt
  <2>3. QED
    BY <1>2, <2>2
<1>4. ASSUME NEW i \in 1 .. n, i - 1 \in P PROVE i \in P
  <2>1. PICK f : f = [j \in 0 .. (i - 1) |-> MissingAt(f, s, R, j)]
    BY <1>2, <1>4
  <2>2. PICK g : g = [j \in 0 .. i |-> IF j = i THEN MissingAt(f, s, R, i) ELSE f[j]]
    OBVIOUS
  <2>3. \A j \in 0 .. i : g[j] = MissingAt(g, s, R, j)
    <3>1. SUFFICES ASSUME NEW j \in 0 .. i PROVE g[j] = MissingAt(g, s, R, j)
      OBVIOUS
    <3>2. \A m \in 0 .. (i - 1) : g[m] = f[m]
      BY <2>2
    <3>3. j # 0 => g[j - 1] = f[j - 1]
      BY <3>1, <3>2
    <3>4. MissingAt(g, s, R, j) = MissingAt(f, s, R, j)
      BY <3>1, <3>3 DEF MissingAt
    <3>5. CASE j = i
      BY <2>2, <3>4, <3>5
    <3>6. CASE j # i
      <4>1. j \in 0 .. (i - 1)
        BY <3>6
      <4>2. f[j] = MissingAt(f, s, R, j)
        BY <2>1, <4>1
      <4>3. QED
        BY <3>2, <3>4, <4>1, <4>2
    <3>7. QED
      BY <3>5, <3>6
  <2>4. g = [j \in 0 .. i |-> MissingAt(g, s, R, j)]
    BY <2>2, <2>3
  <2>5. QED
    BY <1>2, <2>4
<1>5. n \in P
  <2>1. \A i \in 0 .. n : i \in P
    BY <1>3, <1>4, UpTo
  <2>2. QED
    BY <2>1
<1>6. PICK f : f = [i \in 0 .. n |-> MissingAt(f, s, R, i)]
  BY <1>2, <1>5
<1>7. PICK g : g = (CHOOSE h : h = [i \in 0 .. Len(s) |-> MissingAt(h, s, R, i)])
  OBVIOUS
<1>8. g = [i \in 0 .. Len(s) |-> MissingAt(g, s, R, i)]
  BY <1>1, <1>6, <1>7
<1>9. Missing(s, R) = g[Len(s)]
  BY <1>7 DEF Missing, MissingAt
<1>10. QED
  BY <1>8, <1>9

LEMMA MissingFacts ==
  ASSUME NEW S, NEW s \in Seq(S), NEW R
  PROVE  Missing(s, R) \in Seq(S)
<1>1. PICK f : f = [i \in 0 .. Len(s) |-> MissingAt(f, s, R, i)] /\ Missing(s, R) = f[Len(s)]
  BY MissingRounds
<1>2. PICK n \in Nat : n = Len(s)
  OBVIOUS
<1>3. f[0] = << >> /\ \A i \in 1 .. n : f[i] = IF s[i] \in R THEN f[i - 1] ELSE Append(f[i - 1], s[i])
  <2>1. \A i \in 0 .. n : f[i] = MissingAt(f, s, R, i)
    BY <1>1, <1>2
  <2>2. 0 \in 0 .. n /\ \A i \in 1 .. n : i \in 0 .. n /\ i # 0
    OBVIOUS
  <2>3. QED
    BY <2>1, <2>2 DEF MissingAt
<1>4. f[n] \in Seq(S)
  <2>1. PICK P : P = {i \in 0 .. n : f[i] \in Seq(S)}
    OBVIOUS
  <2>2. 0 \in P
    <3>1. f[0] \in Seq(S)
      BY <1>3
    <3>2. QED
      BY <2>1, <3>1
  <2>3. ASSUME NEW i \in 1 .. n, i - 1 \in P PROVE i \in P
    <3>1. f[i - 1] \in Seq(S) /\ s[i] \in S
      BY <1>2, <2>1, <2>3
    <3>2. Append(f[i - 1], s[i]) \in Seq(S)
      BY <3>1
    <3>3. f[i] \in Seq(S)
      BY <1>3, <3>1, <3>2
    <3>4. QED
      BY <2>1, <3>3
  <2>4. n \in P
    <3>1. \A i \in 0 .. n : i \in P
      BY <2>2, <2>3, UpTo
    <3>2. QED
      BY <3>1
  <2>5. QED
    BY <2>1, <2>4
<1>5. QED
  BY <1>1, <1>2, <1>4

(* One round of StoreInto. *)
StoreAt(g, t, entries, c, writes, i) ==
  IF i = 0 THEN entries
  ELSE IF writes[i].cache = t THEN StoreLookup(g[i - 1], c, writes[i]) ELSE g[i - 1]

LEMMA StoreRounds ==
  ASSUME NEW t, NEW entries, NEW c, NEW writes, Len(writes) \in Nat
  PROVE  \E g : /\ g = [i \in 0 .. Len(writes) |-> StoreAt(g, t, entries, c, writes, i)]
                /\ StoreInto(t, entries, c, writes) = g[Len(writes)]
<1>1. PICK n \in Nat : n = Len(writes)
  OBVIOUS
<1>2. PICK P : P = {i \in 0 .. n : \E g : g = [j \in 0 .. i |-> StoreAt(g, t, entries, c, writes, j)]}
  OBVIOUS
<1>3. 0 \in P
  <2>1. PICK g : g = [j \in 0 .. 0 |-> entries]
    OBVIOUS
  <2>2. g = [j \in 0 .. 0 |-> StoreAt(g, t, entries, c, writes, j)]
    BY <2>1 DEF StoreAt
  <2>3. QED
    BY <1>2, <2>2
<1>4. ASSUME NEW i \in 1 .. n, i - 1 \in P PROVE i \in P
  <2>1. PICK g : g = [j \in 0 .. (i - 1) |-> StoreAt(g, t, entries, c, writes, j)]
    BY <1>2, <1>4
  <2>2. PICK h : h = [j \in 0 .. i |-> IF j = i THEN StoreAt(g, t, entries, c, writes, i) ELSE g[j]]
    OBVIOUS
  <2>3. \A j \in 0 .. i : h[j] = StoreAt(h, t, entries, c, writes, j)
    <3>1. SUFFICES ASSUME NEW j \in 0 .. i PROVE h[j] = StoreAt(h, t, entries, c, writes, j)
      OBVIOUS
    <3>2. \A m \in 0 .. (i - 1) : h[m] = g[m]
      BY <2>2
    <3>3. j # 0 => h[j - 1] = g[j - 1]
      BY <3>1, <3>2
    <3>4. StoreAt(h, t, entries, c, writes, j) = StoreAt(g, t, entries, c, writes, j)
      BY <3>1, <3>3 DEF StoreAt
    <3>5. CASE j = i
      BY <2>2, <3>4, <3>5
    <3>6. CASE j # i
      <4>1. j \in 0 .. (i - 1)
        BY <3>6
      <4>2. g[j] = StoreAt(g, t, entries, c, writes, j)
        BY <2>1, <4>1
      <4>3. QED
        BY <3>2, <3>4, <4>1, <4>2
    <3>7. QED
      BY <3>5, <3>6
  <2>4. h = [j \in 0 .. i |-> StoreAt(h, t, entries, c, writes, j)]
    BY <2>2, <2>3
  <2>5. QED
    BY <1>2, <2>4
<1>5. n \in P
  <2>1. \A i \in 0 .. n : i \in P
    BY <1>3, <1>4, UpTo
  <2>2. QED
    BY <2>1
<1>6. PICK f : f = [i \in 0 .. n |-> StoreAt(f, t, entries, c, writes, i)]
  BY <1>2, <1>5
<1>7. PICK g : g = (CHOOSE h : h = [i \in 0 .. Len(writes) |-> StoreAt(h, t, entries, c, writes, i)])
  OBVIOUS
<1>8. g = [i \in 0 .. Len(writes) |-> StoreAt(g, t, entries, c, writes, i)]
  BY <1>1, <1>6, <1>7
<1>9. StoreInto(t, entries, c, writes) = g[Len(writes)]
  BY <1>7 DEF StoreInto, StoreAt
<1>10. QED
  BY <1>8, <1>9

(* The response in context c goes to the caches. *)
Storable(c) == ~ c.served /\ c.resp.rcode = "ok" /\ ~ c.resp.private

(* What cache t holds under k in the end: what it held, or what one of the *)
(* lookups of that key made of the response.                               *)
KeptOrWritten(t, entries, c, writes, k, r) ==
  \/ k \in DOMAIN entries /\ r = entries[k]
  \/ /\ Storable(c)
     /\ \E j \in 1 .. Len(writes) : /\ writes[j].cache = t /\ writes[j].key = k
                                    /\ r = ResponseForQuery(c.resp, c.rewrites, k, writes[j].start)

LEMMA StoreFacts ==
  ASSUME NEW t, NEW entries, NEW c, NEW writes, Len(writes) \in Nat,
         NEW k \in DOMAIN StoreInto(t, entries, c, writes)
  PROVE  KeptOrWritten(t, entries, c, writes, k, StoreInto(t, entries, c, writes)[k])
<1>1. PICK g : /\ g = [i \in 0 .. Len(writes) |-> StoreAt(g, t, entries, c, writes, i)]
               /\ StoreInto(t, entries, c, writes) = g[Len(writes)]
  BY StoreRounds
<1>2. PICK n \in Nat : n = Len(writes)
  OBVIOUS
<1>3. /\ g[0] = entries
      /\ \A i \in 1 .. n : g[i] = IF writes[i].cache = t THEN StoreLookup(g[i - 1], c, writes[i])
                                                         ELSE g[i - 1]
  <2>1. \A i \in 0 .. n : g[i] = StoreAt(g, t, entries, c, writes, i)
    BY <1>1, <1>2
  <2>2. 0 \in 0 .. n /\ \A i \in 1 .. n : i \in 0 .. n /\ i # 0
    OBVIOUS
  <2>3. QED
    BY <2>1, <2>2 DEF StoreAt
<1>4. PICK P : P = {i \in 0 .. n : \A x \in DOMAIN g[i] : KeptOrWritten(t, entries, c, writes, x, g[i][x])}
  OBVIOUS
<1>5. 0 \in P
  BY <1>3, <1>4 DEF KeptOrWritten
<1>6. ASSUME NEW i \in 1 .. n, i - 1 \in P PROVE i \in P
  <2>1. \A x \in DOMAIN g[i - 1] : KeptOrWritten(t, entries, c, writes, x, g[i - 1][x])
    BY <1>4, <1>6
  <2>2. CASE g[i] = g[i - 1]
    BY <1>4, <2>1, <2>2
  <2>3. CASE g[i] # g[i - 1]
    <3>1. writes[i].cache = t /\ g[i] = StoreLookup(g[i - 1], c, writes[i])
      BY <1>3, <2>3
    <3>2. Storable(c)
      BY <2>3, <3>1 DEF StoreLookup, Storable
    <3>3. PICK w : w = writes[i]
      OBVIOUS
    <3>4. g[i] = [x \in DOMAIN g[i - 1] \cup {w.key} |->
                    IF x = w.key THEN ResponseForQuery(c.resp, c.rewrites, w.key, w.start)
                                 ELSE g[i - 1][x]]
      BY <3>1, <3>2, <3>3 DEF StoreLookup, Storable
    <3>5. ASSUME NEW x \in DOMAIN g[i] PROVE KeptOrWritten(t, entries, c, writes, x, g[i][x])
      <4>1. CASE x = w.key
        <5>1. g[i][x] = ResponseForQuery(c.resp, c.rewrites, x, w.start)
          BY <3>4, <3>5, <4>1
        <5>2. i \in 1 .. Len(writes)
          BY <1>2
        <5>3. QED
          BY <3>1, <3>2, <3>3, <4>1, <5>1, <5>2 DEF KeptOrWritten
      <4>2. CASE x # w.key
        <5>1. x \in DOMAIN g[i - 1] /\ g[i][x] = g[i - 1][x]
          BY <3>4, <3>5, <4>2
        <5>2. QED
          BY <2>1, <5>1
      <4>3. QED
        BY <4>1, <4>2
    <3>6. QED
      BY <1>4, <3>5
  <2>4. QED
    BY <2>2, <2>3
<1>7. n \in P
  <2>1. \A i \in 0 .. n : i \in P
    BY <1>5, <1>6, UpTo
  <2>2. QED
    BY <2>1
<1>8. QED
  BY <1>1, <1>2, <1>4, <1>7

-----------------------------------------------------------------------------
(* Messages and contexts. *)

Context == [query : Query, original : Query, resp : Resp, mark : BOOLEAN, public : BOOLEAN,
            rewrites : Seq(Alias), skip : BOOLEAN, strip : BOOLEAN, served : BOOLEAN]

LEMMA NoAliases == << >> \in Seq(Alias) /\ Len(<< >>) = 0
  OBVIOUS

LEMMA QueryFields ==
  ASSUME NEW q \in Query
  PROVE  /\ q.name \in Name /\ q.edns \in BOOLEAN /\ q.ecs \in Subnet \cup {"none"}
         /\ q.private \in BOOLEAN
  BY DEF Query

LEMMA RespFields ==
  ASSUME NEW r \in Resp
  PROVE  /\ r.rcode \in {"absent", "ok", "nx", "fail"} /\ r.name \in Name /\ r.own \in Name
         /\ r.chain \in Seq(Alias) /\ r.edns \in BOOLEAN /\ r.ecs \in Subnet \cup {"none"}
         /\ r.private \in BOOLEAN /\ r.run \in Nat
  BY DEF Resp

LEMMA ContextFields ==
  ASSUME NEW c \in Context
  PROVE  /\ c.query \in Query /\ c.original \in Query /\ c.resp \in Resp /\ c.mark \in BOOLEAN
         /\ c.rewrites \in Seq(Alias) /\ c.skip \in BOOLEAN /\ c.strip \in BOOLEAN
         /\ c.served \in BOOLEAN /\ c.public \in BOOLEAN
  BY DEF Context

LEMMA SkeletonFacts ==
  ASSUME NEW q \in Query, NEW rcode \in {"absent", "ok", "nx", "fail"}, NEW n \in Nat
  PROVE  LET x == Skeleton(q, rcode, n)
         IN  /\ x \in Resp
             /\ x.rcode = rcode /\ x.own = q.name /\ x.chain = << >> /\ x.ecs = q.ecs /\ x.run = n
             /\ x.private = q.private
  BY QueryFields, NoAliases DEF Skeleton, Resp

LEMMA RebindFacts ==
  ASSUME NEW r \in Resp, NEW q \in Query
  PROVE  LET x == Rebind(r, q)
         IN  /\ x \in Resp
             /\ x.rcode = r.rcode /\ x.name = q.name /\ x.own = r.own /\ x.chain = r.chain
             /\ x.run = r.run
             /\ x.edns => q.edns
             /\ x.private => r.private
             /\ x.ecs \in {r.ecs, "none"}
<1>1. PICK a, b : a = (r.edns /\ q.edns) /\ b = (r.private /\ q.edns)
  OBVIOUS
<1>2. PICK e : e = IF q.edns THEN r.ecs ELSE "none"
  OBVIOUS
<1>3. a \in BOOLEAN /\ b \in BOOLEAN /\ (a => q.edns) /\ (b => r.private)
  BY <1>1
<1>4. e \in Subnet \cup {"none"} /\ e \in {r.ecs, "none"} /\ q.name \in Name
  BY <1>2, RespFields, QueryFields
<1>5. PICK x : x = Rebind(r, q)
  OBVIOUS
<1>6. x = [r EXCEPT !.name = q.name, !.edns = a, !.ecs = e, !.private = b]
  BY <1>1, <1>2, <1>5 DEF Rebind
<1>7. /\ x \in Resp
      /\ x.rcode = r.rcode /\ x.name = q.name /\ x.own = r.own /\ x.chain = r.chain
      /\ x.run = r.run /\ x.edns = a /\ x.private = b /\ x.ecs = e
  BY <1>3, <1>4, <1>6 DEF Resp
<1>8. QED
  BY <1>3, <1>4, <1>5, <1>7

(* The aliases from the start-th rewrite on. *)
Since(rewrites, start) == SubSeq(rewrites, start + 1, Len(rewrites))

LEMMA SinceFacts ==
  ASSUME NEW R \in Seq(Alias), NEW n \in Nat, n <= Len(R)
  PROVE  /\ Since(R, n) \in Seq(Alias) /\ Len(Since(R, n)) = Len(R) - n
         /\ \A i \in 1 .. (Len(R) - n) : Since(R, n)[i] = R[n + i]
  BY DEF Since

LEMMA SinceType ==
  ASSUME NEW R \in Seq(Alias), NEW n \in Nat
  PROVE  Since(R, n) \in Seq(Alias)
  BY DEF Since

LEMMA ResponseFacts ==
  ASSUME NEW r \in Resp, NEW R \in Seq(Alias), NEW q \in Query, NEW n \in Nat
  PROVE  LET x == ResponseForQuery(r, R, q, n)
         IN  /\ x \in Resp
             /\ x.rcode = r.rcode /\ x.name = q.name /\ x.own = r.own /\ x.run = r.run
             /\ x.edns => q.edns
             /\ x.private => r.private
             /\ x.ecs \in {r.ecs, "none"}
             /\ x.rcode \in {"ok", "nx"} =>
                  x.chain = Missing(Since(R, n), Range(r.chain)) \o r.chain
<1>1. PICK b \in Resp : /\ b = Rebind(r, q)
                        /\ b.rcode = r.rcode /\ b.name = q.name /\ b.own = r.own
                        /\ b.chain = r.chain /\ b.run = r.run
                        /\ b.edns => q.edns
                        /\ b.private => r.private
                        /\ b.ecs \in {r.ecs, "none"}
  BY RebindFacts
<1>2. PICK x : x = ResponseForQuery(r, R, q, n)
  OBVIOUS
<1>3. CASE r.rcode \in {"ok", "nx"}
  <2>1. PICK m : m = Missing(Since(R, n), Range(b.chain))
    OBVIOUS
  <2>2. m \in Seq(Alias) /\ b.chain \in Seq(Alias)
    BY <2>1, SinceType, MissingFacts, RespFields
  <2>3. PICK d \in Seq(Alias) : d = m \o b.chain
    <3>1. m \o b.chain \in Seq(Alias)
      BY <2>2
    <3>2. QED
      BY <3>1
  <2>4. x = [b EXCEPT !.chain = d]
    BY <1>1, <1>2, <1>3, <2>1, <2>3 DEF ResponseForQuery, Since
  <2>5. /\ x \in Resp
        /\ x.rcode = b.rcode /\ x.name = b.name /\ x.own = b.own /\ x.chain = d
        /\ x.run = b.run /\ x.edns = b.edns /\ x.private = b.private /\ x.ecs = b.ecs
    BY <2>4 DEF Resp
  <2>6. QED
    BY <1>1, <1>2, <2>1, <2>3, <2>5
<1>4. CASE r.rcode \notin {"ok", "nx"}
  <2>1. x = b
    BY <1>1, <1>2, <1>4 DEF ResponseForQuery
  <2>2. QED
    BY <1>1, <1>2, <1>4, <2>1
<1>5. QED
  BY <1>3, <1>4

LEMMA SetResponseFacts ==
  ASSUME NEW c \in Context, NEW r \in Resp
  PROVE  LET x == SetResponse(c, r)
         IN  /\ x \in Context
             /\ x.resp = r /\ x.served = FALSE
             /\ x.query = c.query /\ x.original = c.original /\ x.mark = c.mark
             /\ x.rewrites = c.rewrites /\ x.skip = c.skip /\ x.strip = c.strip
             /\ x.public = c.public
  BY DEF SetResponse, Context

LEMMA NewContextFacts ==
  ASSUME NEW q \in Query, NEW b \in BOOLEAN
  PROVE  LET x == NewContext(q, b)
         IN  /\ x \in Context
             /\ x.query = q /\ x.original = q /\ x.mark = FALSE /\ x.rewrites = << >>
             /\ x.skip = FALSE /\ x.strip = FALSE /\ x.served = FALSE
             /\ x.public = b /\ x.resp.rcode = "absent" /\ x.resp.ecs = q.ecs
<1>1. PICK r \in Resp : r = Absent(q) /\ r.rcode = "absent" /\ r.ecs = q.ecs
  BY SkeletonFacts DEF Absent
<1>2. QED
  BY <1>1, NoAliases DEF NewContext, Context

LEMMA CloneFacts ==
  ASSUME NEW q \in Query, NEW b \in BOOLEAN
  PROVE  LET x == [NewContext(q, b) EXCEPT !.skip = TRUE]
         IN  /\ x \in Context
             /\ x.query = q /\ x.original = q /\ x.mark = FALSE /\ x.rewrites = << >>
             /\ x.skip = TRUE /\ x.strip = FALSE /\ x.served = FALSE
             /\ x.public = b /\ x.resp.rcode = "absent" /\ x.resp.ecs = q.ecs
<1>1. PICK c \in Context : /\ c = NewContext(q, b)
                           /\ c.query = q /\ c.original = q /\ c.mark = FALSE
                           /\ c.rewrites = << >> /\ c.strip = FALSE /\ c.served = FALSE
                           /\ c.public = b /\ c.resp.rcode = "absent" /\ c.resp.ecs = q.ecs
  BY NewContextFacts
<1>2. QED
  BY <1>1 DEF Context

(* The reply: the response to the client's question, without the subnet   *)
(* where it was marked for stripping.                                      *)
LEMMA FinalizeFacts ==
  ASSUME NEW c \in Context
  PROVE  LET x == Finalize(c)
         IN  /\ x \in Context
             /\ x.query = c.query /\ x.original = c.original /\ x.mark = c.mark
             /\ x.rewrites = c.rewrites /\ x.skip = c.skip /\ x.strip = c.strip
             /\ x.served = c.served /\ x.public = c.public
             /\ x.resp.rcode = c.resp.rcode /\ x.resp.name = c.original.name
             /\ x.resp.own = c.resp.own
             /\ x.resp.rcode \in {"ok", "nx"} =>
                  x.resp.chain = Missing(Since(c.rewrites, 0), Range(c.resp.chain)) \o c.resp.chain
             /\ x.resp.ecs \in {c.resp.ecs, "none"}
             /\ c.strip => x.resp.ecs = "none"
<1>1. /\ c.resp \in Resp /\ c.rewrites \in Seq(Alias) /\ c.original \in Query
      /\ c.strip \in BOOLEAN
  BY ContextFields
<1>2. PICK r \in Resp :
        /\ r = ResponseForQuery(c.resp, c.rewrites, c.original, 0)
        /\ r.rcode = c.resp.rcode /\ r.name = c.original.name /\ r.own = c.resp.own
        /\ r.ecs \in {c.resp.ecs, "none"}
        /\ r.rcode \in {"ok", "nx"} =>
             r.chain = Missing(Since(c.rewrites, 0), Range(c.resp.chain)) \o c.resp.chain
  <2>1. PICK p \in Resp, R \in Seq(Alias), q \in Query, n \in Nat :
          p = c.resp /\ R = c.rewrites /\ q = c.original /\ n = 0
    BY <1>1
  <2>2. PICK r : r = ResponseForQuery(p, R, q, n)
    OBVIOUS
  <2>3. /\ r \in Resp /\ r.rcode = p.rcode /\ r.name = q.name /\ r.own = p.own
        /\ r.ecs \in {p.ecs, "none"}
        /\ r.rcode \in {"ok", "nx"} => r.chain = Missing(Since(R, n), Range(p.chain)) \o p.chain
    BY <2>2, ResponseFacts
  <2>4. QED
    BY <2>1, <2>2, <2>3
<1>3. PICK y : y = IF c.strip THEN RemoveEcs(r) ELSE r
  OBVIOUS
<1>4. /\ y \in Resp
      /\ y.rcode = r.rcode /\ y.name = r.name /\ y.own = r.own /\ y.chain = r.chain
      /\ y.ecs \in {r.ecs, "none"} /\ (c.strip => y.ecs = "none")
  <2>1. PICK z : z = [r EXCEPT !.ecs = "none"]
    OBVIOUS
  <2>2. /\ z \in Resp /\ z.ecs = "none"
        /\ z.rcode = r.rcode /\ z.name = r.name /\ z.own = r.own /\ z.chain = r.chain
    BY <2>1 DEF Resp
  <2>3. y = IF c.strip THEN z ELSE r
    BY <1>3, <2>1 DEF RemoveEcs
  <2>4. QED
    BY <1>1, <2>2, <2>3
<1>5. Finalize(c) = [c EXCEPT !.resp = y]
  BY <1>2, <1>3 DEF Finalize
<1>6. PICK x : x = [c EXCEPT !.resp = y]
  OBVIOUS
<1>7. /\ x \in Context /\ x.resp = y
      /\ x.query = c.query /\ x.original = c.original /\ x.mark = c.mark
      /\ x.rewrites = c.rewrites /\ x.skip = c.skip /\ x.strip = c.strip
      /\ x.served = c.served /\ x.public = c.public
  BY <1>4, <1>6 DEF Context
<1>8. QED
  BY <1>2, <1>4, <1>5, <1>6, <1>7

-----------------------------------------------------------------------------
(* What holds of every configuration. *)

Write == [cache : Cache, key : Query, start : Nat]
FrameRec == [seq : Tag, i : Nat, writes : Seq(Write), goto : BOOLEAN]

(* A refresh starts where its query entered the pipeline. *)
Restart(p) ==
  \E q \in Query, b \in BOOLEAN : p.ctx = [NewContext(q, b) EXCEPT !.skip = TRUE]

(* The answer in the context is this run's own, unless a cache served it. *)
OwnAnswer == pc # "idle" /\ HasResp /\ ~ ctx.served => ctx.resp.run = run

Stored(s) ==
  /\ DOMAIN s = Cache
  /\ \A c \in Cache : \A k \in DOMAIN s[c] :
       /\ k \in Query /\ s[c][k] \in Resp
       /\ s[c][k].name = k.name /\ (s[c][k].edns => k.edns) /\ ~ s[c][k].private

Core ==
  /\ prog \in Programs
  /\ Stored(store)
  /\ pc \in {"idle", "run", "ret"} /\ ret \in {"accept", "continue"}
  /\ frames \in Seq(FrameRec) /\ (pc # "idle" => Len(frames) >= 1)
  /\ ctx \in Context
  /\ \A p \in pending : Restart(p)
  /\ run \in 0 .. MaxRuns
  /\ OwnAnswer

LEMMA NoFrames == << >> \in Seq(FrameRec) /\ Len(<< >>) = 0
  OBVIOUS

LEMMA NoWrites == << >> \in Seq(Write) /\ Len(<< >>) = 0
  OBVIOUS

LEMMA FrameFacts ==
  ASSUME NEW s \in Tag
  PROVE  /\ Frame(s) \in FrameRec /\ Frame(s).seq = s /\ Frame(s).i = 1
         /\ Frame(s).writes = << >> /\ Frame(s).goto = FALSE
  BY NoWrites DEF Frame, FrameRec

LEMMA TopFacts ==
  ASSUME Core, pc # "idle"
  PROVE  /\ Len(frames) \in Nat \ {0} /\ Top = frames[Len(frames)] /\ Top \in FrameRec
         /\ \A j \in 1 .. Len(frames) : frames[j] \in FrameRec
<1>1. frames \in Seq(FrameRec) /\ Len(frames) >= 1
  BY DEF Core
<1>2. Len(frames) \in Nat \ {0} /\ \A j \in 1 .. Len(frames) : frames[j] \in FrameRec
  BY <1>1
<1>3. QED
  BY <1>2 DEF Top

(* The innermost sequence's frame becomes f. *)
LEMMA SetTopFacts ==
  ASSUME Core, pc # "idle", NEW f \in FrameRec, SetTop(f)
  PROVE  /\ frames' \in Seq(FrameRec) /\ Len(frames') = Len(frames)
         /\ frames'[Len(frames)] = f
         /\ \A j \in 1 .. Len(frames) : j # Len(frames) => frames'[j] = frames[j]
<1>1. frames \in Seq(FrameRec) /\ Len(frames) \in Nat \ {0}
  BY TopFacts DEF Core
<1>2. frames' = [frames EXCEPT ![Len(frames)] = f]
  BY DEF SetTop
<1>3. QED
  BY <1>1, <1>2

LEMMA AdvanceFacts ==
  ASSUME Core, pc # "idle", Advance
  PROVE  /\ frames' \in Seq(FrameRec) /\ Len(frames') = Len(frames)
         /\ frames'[Len(frames)] = [Top EXCEPT !.i = Top.i + 1]
         /\ \A j \in 1 .. Len(frames) : j # Len(frames) => frames'[j] = frames[j]
         /\ \A j \in 1 .. Len(frames) : /\ frames'[j].writes = frames[j].writes
                                        /\ frames'[j].seq = frames[j].seq
<1>1. PICK f : f = [Top EXCEPT !.i = Top.i + 1]
  OBVIOUS
<1>2. Top \in FrameRec /\ Top = frames[Len(frames)]
  BY TopFacts
<1>3. f \in FrameRec /\ f.writes = Top.writes /\ f.seq = Top.seq
  BY <1>1, <1>2 DEF FrameRec
<1>4. SetTop(f)
  BY <1>1 DEF Advance
<1>5. /\ frames' \in Seq(FrameRec) /\ Len(frames') = Len(frames)
      /\ frames'[Len(frames)] = f
      /\ \A j \in 1 .. Len(frames) : j # Len(frames) => frames'[j] = frames[j]
  BY <1>3, <1>4, SetTopFacts
<1>6. QED
  BY <1>1, <1>2, <1>3, <1>5

LEMMA SubSeqElements ==
  ASSUME NEW S, NEW s \in Seq(S), NEW n \in Nat, n = Len(s), n # 0
  PROVE  LET t == SubSeq(s, 1, n - 1)
         IN  t \in Seq(S) /\ Len(t) = n - 1 /\ \A j \in 1 .. (n - 1) : t[j] = s[j]
<1>1. PICK t : t = SubSeq(s, 1, n - 1)
  OBVIOUS
<1>2. t = [j \in 1 .. (n - 1) |-> s[j]]
  BY <1>1
<1>3. \A j \in 1 .. (n - 1) : s[j] \in S /\ t[j] = s[j]
  BY <1>2
<1>4. n - 1 \in Nat /\ t \in [1 .. (n - 1) -> S]
  BY <1>2, <1>3
<1>5. t \in Seq(S) /\ Len(t) = n - 1
  BY <1>4
<1>6. QED
  BY <1>1, <1>3, <1>5

LEMMA AppendElements ==
  ASSUME NEW S, NEW s \in Seq(S), NEW n \in Nat, n = Len(s), NEW x \in S
  PROVE  LET t == Append(s, x)
         IN  /\ t \in Seq(S) /\ Len(t) = n + 1 /\ t[n + 1] = x
             /\ \A j \in 1 .. n : t[j] = s[j]
<1>1. Append(s, x) \in Seq(S)
  OBVIOUS
<1>2. Len(Append(s, x)) = n + 1
  OBVIOUS
<1>3. Append(s, x)[n + 1] = x
  OBVIOUS
<1>4. \A j \in 1 .. n : Append(s, x)[j] = s[j]
  OBVIOUS
<1>5. QED
  BY <1>1, <1>2, <1>3, <1>4

(* The sequence has returned. *)
LEMMA FrontFacts ==
  ASSUME Core, pc # "idle", frames' = Front(frames)
  PROVE  /\ frames' \in Seq(FrameRec) /\ Len(frames') = Len(frames) - 1
         /\ \A j \in 1 .. (Len(frames) - 1) : frames'[j] = frames[j]
<1>1. frames \in Seq(FrameRec) /\ Len(frames) \in Nat \ {0}
  BY TopFacts DEF Core
<1>2. frames' = SubSeq(frames, 1, Len(frames) - 1)
  BY DEF Front
<1>3. PICK f \in Seq(FrameRec), n \in Nat : f = frames /\ n = Len(f) /\ n # 0
  BY <1>1
<1>4. PICK g : g = frames' /\ g = SubSeq(f, 1, n - 1)
  BY <1>2, <1>3
<1>5. g \in Seq(FrameRec) /\ Len(g) = n - 1 /\ \A j \in 1 .. (n - 1) : g[j] = f[j]
  BY <1>3, <1>4, SubSeqElements
<1>6. QED
  BY <1>3, <1>4, <1>5

(* A caller's frame and one on top of it. *)
LEMMA CallFacts ==
  ASSUME Core, pc # "idle", NEW goto \in BOOLEAN,
         frames' = Append([frames EXCEPT ![Len(frames)].goto = goto], Frame("sub"))
  PROVE  /\ frames' \in Seq(FrameRec) /\ Len(frames') = Len(frames) + 1
         /\ frames'[Len(frames)] = [Top EXCEPT !.goto = goto]
         /\ frames'[Len(frames) + 1] = Frame("sub")
         /\ \A j \in 1 .. (Len(frames) - 1) : frames'[j] = frames[j]
         /\ \A j \in 1 .. Len(frames) : /\ frames'[j].writes = frames[j].writes
                                        /\ frames'[j].seq = frames[j].seq
                                        /\ frames'[j].i = frames[j].i
<1>1. PICK f : f = [Top EXCEPT !.goto = goto]
  OBVIOUS
<1>2. frames \in Seq(FrameRec) /\ Len(frames) \in Nat \ {0} /\ Top \in FrameRec /\ Top = frames[Len(frames)]
  BY TopFacts DEF Core
<1>3. f \in FrameRec /\ f.writes = Top.writes /\ f.seq = Top.seq /\ f.i = Top.i
  BY <1>1, <1>2 DEF FrameRec
<1>4. PICK g : g = [frames EXCEPT ![Len(frames)] = f]
  OBVIOUS
<1>5. g \in Seq(FrameRec) /\ Len(g) = Len(frames) /\ g[Len(frames)] = f
      /\ \A j \in 1 .. Len(frames) : j # Len(frames) => g[j] = frames[j]
  BY <1>2, <1>3, <1>4
<1>6. [frames EXCEPT ![Len(frames)].goto = goto] = g
  BY <1>1, <1>2, <1>4
<1>7. PICK x : x = Frame("sub")
  OBVIOUS
<1>8. x \in FrameRec
  BY <1>7, FrameFacts DEF Tag
<1>9. frames' = Append(g, x)
  BY <1>6, <1>7
<1>10. /\ frames' \in Seq(FrameRec) /\ Len(frames') = Len(frames) + 1
       /\ frames'[Len(frames) + 1] = x
       /\ \A j \in 1 .. Len(frames) : frames'[j] = g[j]
  <2>1. PICK n \in Nat : n = Len(frames) /\ n = Len(g)
    BY <1>2, <1>5
  <2>2. PICK h : h = Append(g, x)
    OBVIOUS
  <2>3. h \in Seq(FrameRec) /\ Len(h) = n + 1 /\ h[n + 1] = x /\ \A j \in 1 .. n : h[j] = g[j]
    BY <1>5, <1>8, <2>1, <2>2, AppendElements
  <2>4. QED
    BY <1>9, <2>1, <2>2, <2>3
<1>11. \A j \in 1 .. (Len(frames) - 1) : j \in 1 .. Len(frames) /\ j # Len(frames)
  BY <1>2
<1>12. Len(frames) \in 1 .. Len(frames)
  BY <1>2
<1>13. frames'[Len(frames)] = f
  BY <1>5, <1>10, <1>12
<1>14. \A j \in 1 .. Len(frames) : j # Len(frames) => frames'[j] = frames[j]
  BY <1>5, <1>10
<1>15. \A j \in 1 .. Len(frames) : /\ frames'[j].writes = frames[j].writes
                                   /\ frames'[j].seq = frames[j].seq
                                   /\ frames'[j].i = frames[j].i
  BY <1>2, <1>3, <1>13, <1>14
<1>16. QED
  BY <1>1, <1>7, <1>10, <1>11, <1>13, <1>14, <1>15

-----------------------------------------------------------------------------
(* What the steps make of a context. *)

(* The name the redirect plugin makes of n. *)
Target(n) == IF n \in DOMAIN Rule THEN Rule[n] ELSE n

LEMMA TargetName ==
  ASSUME NEW n \in Name
  PROVE  Target(n) \in Name
  BY PipelineAssumption DEF Target

Redirected(c) ==
  [c EXCEPT !.query.name = Target(c.query.name),
            !.rewrites = Append(@, << c.query.name, Target(c.query.name) >>)]

WithSubnet(c) == [c EXCEPT !.query.edns = TRUE, !.query.ecs = OurSubnet, !.strip = TRUE]

WithoutSubnet(c) == [c EXCEPT !.query.ecs = "none", !.strip = TRUE]

Marked(c) == [c EXCEPT !.mark = TRUE]

LEMMA RedirectedFacts ==
  ASSUME NEW c \in Context
  PROVE  LET x == Redirected(c)
         IN  /\ x \in Context
             /\ x.query.name = Target(c.query.name) /\ x.query.ecs = c.query.ecs
             /\ x.rewrites = Append(c.rewrites, << c.query.name, Target(c.query.name) >>)
             /\ x.original = c.original /\ x.resp = c.resp /\ x.mark = c.mark
             /\ x.skip = c.skip /\ x.strip = c.strip /\ x.served = c.served
             /\ x.public = c.public
<1>1. PICK n \in Name, m \in Name : n = c.query.name /\ m = Target(n)
  BY ContextFields, QueryFields, TargetName
<1>2. PICK q : q = [c.query EXCEPT !.name = m]
  OBVIOUS
<1>3. q \in Query /\ q.name = m /\ q.ecs = c.query.ecs
  BY <1>1, <1>2, ContextFields DEF Query
<1>4. PICK e \in Alias : e = << n, m >>
  BY <1>1 DEF Alias
<1>5. PICK R : R = Append(c.rewrites, e)
  OBVIOUS
<1>6. R \in Seq(Alias)
  BY <1>5, ContextFields
<1>7. PICK x : x = [c EXCEPT !.query = q, !.rewrites = R]
  OBVIOUS
<1>8. Redirected(c) = x
  BY <1>1, <1>2, <1>4, <1>5, <1>7 DEF Redirected, Context
<1>9. /\ x \in Context /\ x.query = q /\ x.rewrites = R
      /\ x.original = c.original /\ x.resp = c.resp /\ x.mark = c.mark
      /\ x.skip = c.skip /\ x.strip = c.strip /\ x.served = c.served
      /\ x.public = c.public
  BY <1>3, <1>6, <1>7 DEF Context
<1>10. QED
  BY <1>1, <1>3, <1>4, <1>5, <1>8, <1>9

LEMMA WithSubnetFacts ==
  ASSUME NEW c \in Context
  PROVE  LET x == WithSubnet(c)
         IN  /\ x \in Context
             /\ x.query.name = c.query.name /\ x.query.ecs = OurSubnet /\ x.strip = TRUE
             /\ x.original = c.original /\ x.resp = c.resp /\ x.mark = c.mark
             /\ x.rewrites = c.rewrites /\ x.skip = c.skip /\ x.served = c.served
             /\ x.public = c.public
<1>1. PICK q : q = [c.query EXCEPT !.edns = TRUE, !.ecs = OurSubnet]
  OBVIOUS
<1>2. q \in Query /\ q.name = c.query.name /\ q.ecs = OurSubnet
  BY <1>1, ContextFields, PipelineAssumption DEF Query
<1>3. PICK x : x = [c EXCEPT !.query = q, !.strip = TRUE]
  OBVIOUS
<1>4. WithSubnet(c) = x
  BY <1>1, <1>3 DEF WithSubnet, Context
<1>5. /\ x \in Context /\ x.query = q /\ x.strip = TRUE
      /\ x.original = c.original /\ x.resp = c.resp /\ x.mark = c.mark
      /\ x.rewrites = c.rewrites /\ x.skip = c.skip /\ x.served = c.served
      /\ x.public = c.public
  BY <1>2, <1>3 DEF Context
<1>6. QED
  BY <1>2, <1>4, <1>5

LEMMA WithoutSubnetFacts ==
  ASSUME NEW c \in Context
  PROVE  LET x == WithoutSubnet(c)
         IN  /\ x \in Context
             /\ x.query.name = c.query.name /\ x.query.ecs = "none" /\ x.strip = TRUE
             /\ x.original = c.original /\ x.resp = c.resp /\ x.mark = c.mark
             /\ x.rewrites = c.rewrites /\ x.skip = c.skip /\ x.served = c.served
             /\ x.public = c.public
<1>1. PICK q : q = [c.query EXCEPT !.ecs = "none"]
  OBVIOUS
<1>2. q \in Query /\ q.name = c.query.name /\ q.ecs = "none"
  BY <1>1, ContextFields DEF Query
<1>3. PICK x : x = [c EXCEPT !.query = q, !.strip = TRUE]
  OBVIOUS
<1>4. WithoutSubnet(c) = x
  BY <1>1, <1>3 DEF WithoutSubnet, Context
<1>5. /\ x \in Context /\ x.query = q /\ x.strip = TRUE
      /\ x.original = c.original /\ x.resp = c.resp /\ x.mark = c.mark
      /\ x.rewrites = c.rewrites /\ x.skip = c.skip /\ x.served = c.served
      /\ x.public = c.public
  BY <1>2, <1>3 DEF Context
<1>6. QED
  BY <1>2, <1>4, <1>5

LEMMA MarkedFacts ==
  ASSUME NEW c \in Context
  PROVE  LET x == Marked(c)
         IN  /\ x \in Context /\ x.mark = TRUE
             /\ x.query = c.query /\ x.original = c.original /\ x.resp = c.resp
             /\ x.rewrites = c.rewrites /\ x.skip = c.skip /\ x.strip = c.strip
             /\ x.served = c.served /\ x.public = c.public
  BY DEF Marked, Context

(* A hit: the context gets the entry, rebound to its query. *)
LEMMA HitFacts ==
  ASSUME Core, NEW t \in Cache, ctx.query \in DOMAIN store[t]
  PROVE  LET x == Hit(t)
             e == store[t][ctx.query]
         IN  /\ e \in Resp
             /\ x \in Context /\ x.served = TRUE
             /\ x.resp.rcode = e.rcode /\ x.resp.own = e.own /\ x.resp.chain = e.chain
             /\ x.resp.ecs \in {e.ecs, "none"}
             /\ x.query = ctx.query /\ x.original = ctx.original /\ x.mark = ctx.mark
             /\ x.rewrites = ctx.rewrites /\ x.skip = ctx.skip /\ x.strip = ctx.strip
             /\ x.public = ctx.public
<1>1. PICK e : e = store[t][ctx.query]
  OBVIOUS
<1>2. e \in Resp /\ ctx.query \in Query /\ ctx \in Context
  BY <1>1 DEF Core, Stored
<1>3. PICK r \in Resp : /\ r = Rebind(e, ctx.query) /\ r.rcode = e.rcode /\ r.own = e.own
                        /\ r.chain = e.chain /\ r.ecs \in {e.ecs, "none"}
  BY <1>2, RebindFacts
<1>4. PICK y \in Context :
        /\ y = SetResponse(ctx, r) /\ y.resp = r
        /\ y.query = ctx.query /\ y.original = ctx.original /\ y.mark = ctx.mark
        /\ y.rewrites = ctx.rewrites /\ y.skip = ctx.skip /\ y.strip = ctx.strip
        /\ y.public = ctx.public
  BY <1>2, SetResponseFacts
<1>5. PICK x : x = [y EXCEPT !.served = TRUE]
  OBVIOUS
<1>6. /\ x \in Context /\ x.served = TRUE /\ x.resp = y.resp
      /\ x.query = y.query /\ x.original = y.original /\ x.mark = y.mark
      /\ x.rewrites = y.rewrites /\ x.skip = y.skip /\ x.strip = y.strip
      /\ x.public = y.public
  BY <1>5 DEF Context
<1>7. Hit(t) = x
  BY <1>1, <1>3, <1>4, <1>5 DEF Hit
<1>8. QED
  BY <1>1, <1>2, <1>3, <1>4, <1>6, <1>7

LEMMA HitKeeps ==
  ASSUME Core, NEW t \in Cache, ctx.query \in DOMAIN store[t], NEW x, x = Hit(t)
  PROVE  /\ x.query = ctx.query /\ x.original = ctx.original
         /\ x.mark = ctx.mark /\ x.skip = ctx.skip /\ x.public = ctx.public
  BY HitFacts

-----------------------------------------------------------------------------
(* The kinds of step. *)

Answerers == {"forward", "hosts", "black_hole"}

(* r is a response made for the query as it is now, or none. *)
Made(r) ==
  /\ r \in Resp /\ r.own = ctx.query.name /\ r.chain = << >> /\ r.ecs = ctx.query.ecs
  /\ r.rcode # "absent" => r.run = run

(* A step is being executed or passed over. *)
Running == pc = "run" /\ Top.i <= Len(Steps)

(* It leaves the context alone. *)
Passes ==
  /\ Running /\ Continue(ctx)
  /\ Current.do = "redirect" /\ Current.when = "any" => Target(ctx.query.name) = ctx.query.name

Answers ==
  \E r : /\ Made(r) /\ (r.rcode # "absent" => Current.do \in Answerers)
         /\ Running /\ Continue(SetResponse(ctx, r))
         /\ Current.do # "redirect"

Rewrites ==
  /\ Target(ctx.query.name) # ctx.query.name
  /\ ctx.query.name \in DOMAIN Rule
  /\ At("redirect") /\ Continue(Redirected(ctx))

Attaches ==
  ctx.query.ecs = "none" /\ ctx.public /\ At("ecs") /\ Continue(WithSubnet(ctx))

Detaches == At("no_ecs") /\ Continue(WithoutSubnet(ctx))

Marks == At("mark") /\ Continue(Marked(ctx))

Rejects == \E rcode \in {"ok", "nx", "fail"} : RejectStep(rcode)

Ends == pc # "idle" /\ \E a \in {"accept", "continue"} : Finish(a)

Resumes ==
  /\ pc = "ret" /\ ~ Top.goto /\ Advance /\ pc' = "run"
  /\ UNCHANGED << store, ret, ctx, pending, visited >>

LEMMA MadeFacts ==
  ASSUME Core, NEW rcode \in {"absent", "ok", "nx", "fail"}, NEW p \in BOOLEAN, NEW n \in Nat,
         rcode # "absent" => n = run
  PROVE  /\ Made(Skeleton(ctx.query, rcode, n)) /\ Skeleton(ctx.query, rcode, n).rcode = rcode
         /\ Made([Skeleton(ctx.query, rcode, n) EXCEPT !.private = p])
         /\ [Skeleton(ctx.query, rcode, n) EXCEPT !.private = p].rcode = rcode
<1>1. ctx \in Context /\ ctx.query \in Query
  BY ContextFields DEF Core
<1>2. PICK x \in Resp : /\ x = Skeleton(ctx.query, rcode, n)
                        /\ x.rcode = rcode /\ x.own = ctx.query.name /\ x.chain = << >>
                        /\ x.ecs = ctx.query.ecs /\ x.run = n
  BY <1>1, SkeletonFacts
<1>3. PICK y : y = [x EXCEPT !.private = p]
  OBVIOUS
<1>4. /\ y \in Resp /\ y.rcode = x.rcode /\ y.own = x.own /\ y.chain = x.chain
      /\ y.ecs = x.ecs /\ y.run = x.run
  BY <1>3 DEF Resp
<1>5. QED
  BY <1>2, <1>3, <1>4 DEF Made

LEMMA StepKinds ==
  ASSUME Core, Step
  PROVE  \/ Passes \/ Answers \/ Rewrites \/ Attaches \/ Detaches \/ Marks
         \/ \E t \in Cache : CacheStep(t)
         \/ Ends \/ TimesOut \/ Rejects
         \/ \E goto \in BOOLEAN : Call(goto)
         \/ Resumes
<1>1. ctx \in Context /\ ctx.query \in Query /\ run \in Nat
  BY ContextFields, PipelineAssumption DEF Core
<1>2. CASE Skip
  <2>1. Current.when # "any"
    BY <1>2 DEF Skip, Matches
  <2>2. QED
    BY <1>2, <2>1 DEF Skip, Passes, Running
<1>3. CASE EndOfSteps
  BY <1>3 DEF EndOfSteps, Ends
<1>4. CASE \E t \in Cache : CacheStep(t)
  BY <1>4
<1>5. CASE Redirect
  <2>1. PICK n : n = ctx.query.name
    OBVIOUS
  <2>2. At("redirect") /\ Running /\ Continue(IF n \in DOMAIN Rule /\ Rule[n] # n
                              THEN [ctx EXCEPT !.query.name = Rule[n],
                                               !.rewrites = Append(@, << n, Rule[n] >>)]
                              ELSE ctx)
    BY <1>5, <2>1 DEF Redirect, RewriteName, At, Running
  <2>3. CASE n \in DOMAIN Rule /\ Rule[n] # n
    <3>1. Target(n) = Rule[n]
      BY <2>3 DEF Target
    <3>2. Continue(Redirected(ctx))
      BY <2>1, <2>2, <2>3, <3>1 DEF Redirected
    <3>3. QED
      BY <2>1, <2>2, <2>3, <3>1, <3>2 DEF Rewrites
  <2>4. CASE ~ (n \in DOMAIN Rule /\ Rule[n] # n)
    <3>1. Target(n) = n
      BY <2>4 DEF Target
    <3>2. Continue(ctx)
      BY <2>2, <2>4
    <3>3. QED
      BY <2>1, <2>2, <3>1, <3>2 DEF Passes
  <2>5. QED
    BY <2>3, <2>4
<1>6. CASE Ecs
  <2>1. At("ecs") /\ Running /\ Current.do = "ecs"
    BY <1>6 DEF Ecs, At, Running
  <2>2. CASE ctx.query.ecs = "none" /\ ctx.public
    BY <1>6, <2>1, <2>2 DEF Ecs, Attaches, WithSubnet
  <2>3. CASE ctx.query.ecs # "none" \/ ~ ctx.public
    BY <1>6, <2>1, <2>3 DEF Ecs, Passes
  <2>4. QED
    BY <2>2, <2>3
<1>7. CASE NoEcs
  BY <1>7 DEF NoEcs, Detaches, WithoutSubnet
<1>8. CASE Mark
  BY <1>8 DEF Mark, Marks, Marked
<1>9. CASE DropResp
  <2>1. Running /\ Current.do # "redirect" /\ Continue(DropResponse(ctx))
    BY <1>9 DEF DropResp, At, Running
  <2>2. Made(Absent(ctx.query)) /\ Absent(ctx.query).rcode = "absent"
    BY MadeFacts DEF Absent
  <2>3. QED
    BY <2>1, <2>2 DEF Answers, DropResponse
<1>10. CASE Hosts
  <2>1. /\ Running /\ Current.do # "redirect" /\ Current.do \in Answerers
        /\ Continue(IF ctx.query.name \in Host
                      THEN SetResponse(ctx, Skeleton(ctx.query, "ok", run)) ELSE ctx)
    BY <1>10 DEF Hosts, At, Running, Answerers
  <2>2. Made(Skeleton(ctx.query, "ok", run))
    BY <1>1, MadeFacts
  <2>3. CASE ctx.query.name \in Host
    BY <2>1, <2>2, <2>3 DEF Answers
  <2>4. CASE ctx.query.name \notin Host
    BY <2>1, <2>4 DEF Passes
  <2>5. QED
    BY <2>3, <2>4
<1>11. ASSUME NEW rcode \in {"ok", "nx", "fail"}, NEW p \in BOOLEAN, Forward(rcode, p)
       PROVE  Answers
  <2>1. /\ Running /\ Current.do # "redirect" /\ Current.do \in Answerers
        /\ Continue(SetResponse(ctx, Upstream(rcode, p)))
    BY <1>11 DEF Forward, At, Running, Answerers
  <2>2. PICK b \in BOOLEAN : b = (p /\ ctx.query.edns)
    OBVIOUS
  <2>3. Made(Upstream(rcode, p))
    BY <1>1, <2>2, MadeFacts DEF Upstream
  <2>4. QED
    BY <2>1, <2>3 DEF Answers
<1>12. CASE ForwardFails
  BY <1>12 DEF ForwardFails, At, Running, Passes
<1>13. CASE Accept
  BY <1>13 DEF Accept, At, Ends
<1>14. CASE Return
  BY <1>14 DEF Return, At, Ends
<1>15. ASSUME NEW rcode \in {"ok", "nx", "fail"}, Blackhole(rcode) PROVE Answers
  <2>1. /\ Running /\ Current.do # "redirect" /\ Current.do \in Answerers
        /\ Continue(SetResponse(ctx, Skeleton(ctx.query, rcode, run)))
    BY <1>15 DEF Blackhole, Reject, At, Running, Answerers
  <2>2. Made(Skeleton(ctx.query, rcode, run))
    BY <1>1, MadeFacts
  <2>3. QED
    BY <2>1, <2>2 DEF Answers
<1>16. CASE Resume
  <2>1. CASE Top.goto \/ ret = "accept"
    BY <1>16, <2>1 DEF Resume, Ends, Core
  <2>2. CASE ~ (Top.goto \/ ret = "accept")
    BY <1>16, <2>2 DEF Resume, Resumes
  <2>3. QED
    BY <2>1, <2>2
<1>17. QED
  <2>1. CASE \E rcode \in {"ok", "nx", "fail"} :
               Forward(rcode, FALSE) \/ RejectStep(rcode) \/ Blackhole(rcode)
    BY <1>11, <1>15, <2>1 DEF Rejects
  <2>2. CASE Forward("ok", TRUE)
    BY <1>11, <2>2
  <2>3. QED
    BY <1>2, <1>3, <1>4, <1>5, <1>6, <1>7, <1>8, <1>9, <1>10, <1>12, <1>13, <1>14,
       <1>16, <2>1, <2>2 DEF Step

-----------------------------------------------------------------------------
(* Core is inductive. *)

LEMMA CoreNext ==
  ASSUME Core, UNCHANGED << prog, store, run >>,
         pc' \in {"idle", "run", "ret"}, ret' \in {"accept", "continue"},
         frames' \in Seq(FrameRec), pc' # "idle" => Len(frames') >= 1,
         ctx' \in Context,
         ctx'.resp.rcode # "absent" /\ ~ ctx'.served => ctx'.resp.run = run,
         \A p \in pending' : Restart(p)
  PROVE  Core'
  BY DEF Core, OwnAnswer, HasResp, Restart

LEMMA CoreContinue ==
  ASSUME Core, pc = "run", NEW d \in Context, Continue(d), UNCHANGED << prog, run >>,
         d.resp.rcode # "absent" /\ ~ d.served => d.resp.run = run
  PROVE  Core'
<1>1. /\ Advance /\ ctx' = d
      /\ UNCHANGED << store, pc, ret, pending >>
  BY DEF Continue
<1>2. frames' \in Seq(FrameRec) /\ Len(frames') = Len(frames)
  BY <1>1, AdvanceFacts
<1>3. Len(frames) >= 1 /\ ret \in {"accept", "continue"} /\ \A p \in pending : Restart(p)
  BY DEF Core
<1>4. QED
  BY <1>1, <1>2, <1>3, CoreNext DEF Restart

(* The entries of the caches after a sequence has stored. *)
LEMMA StoreWritesFacts ==
  ASSUME Core, pc # "idle", NEW c \in Cache, NEW k \in DOMAIN StoreWrites(Top.writes)[c]
  PROVE  LET e == StoreWrites(Top.writes)[c][k]
         IN  \/ k \in DOMAIN store[c] /\ e = store[c][k]
             \/ /\ Storable(ctx)
                /\ \E w \in Write :
                     /\ \E j \in 1 .. Len(Top.writes) : w = Top.writes[j]
                     /\ w.cache = c /\ w.key = k
                     /\ e = ResponseForQuery(ctx.resp, ctx.rewrites, k, w.start)
<1>1. PICK W \in Seq(Write) : W = Top.writes
  BY TopFacts DEF FrameRec
<1>2. StoreWrites(W)[c] = StoreInto(c, store[c], ctx, W)
  BY DEF StoreWrites
<1>3. Len(W) \in Nat /\ k \in DOMAIN StoreInto(c, store[c], ctx, W)
  BY <1>1, <1>2
<1>4. KeptOrWritten(c, store[c], ctx, W, k, StoreInto(c, store[c], ctx, W)[k])
  BY <1>3, StoreFacts
<1>5. ASSUME NEW j \in 1 .. Len(W) PROVE W[j] \in Write
  OBVIOUS
<1>6. PICK e : e = StoreInto(c, store[c], ctx, W)[k]
  OBVIOUS
<1>7. CASE k \in DOMAIN store[c] /\ e = store[c][k]
  BY <1>1, <1>2, <1>6, <1>7
<1>8. CASE ~ (k \in DOMAIN store[c] /\ e = store[c][k])
  <2>1. Storable(ctx)
    BY <1>4, <1>6, <1>8 DEF KeptOrWritten
  <2>2. PICK j \in 1 .. Len(W) : /\ W[j].cache = c /\ W[j].key = k
                                 /\ e = ResponseForQuery(ctx.resp, ctx.rewrites, k, W[j].start)
    BY <1>4, <1>6, <1>8 DEF KeptOrWritten
  <2>3. PICK w \in Write : w = W[j]
    BY <1>5
  <2>4. QED
    BY <1>1, <1>2, <1>6, <2>1, <2>2, <2>3
<1>9. QED
  BY <1>7, <1>8

(* What is written is the run's own. *)
LEMMA StoreKeeps ==
  ASSUME Core, pc # "idle"
  PROVE  /\ Stored(StoreWrites(Top.writes))
         /\ \A c \in Cache : \A k \in DOMAIN StoreWrites(Top.writes)[c] :
              \/ k \in DOMAIN store[c] /\ StoreWrites(Top.writes)[c][k] = store[c][k]
              \/ StoreWrites(Top.writes)[c][k].run = run
<1>1. PICK s : s = StoreWrites(Top.writes)
  OBVIOUS
<1>2. DOMAIN s = Cache
  BY <1>1 DEF StoreWrites
<1>3. ASSUME NEW c \in Cache, NEW k \in DOMAIN s[c]
      PROVE  /\ k \in Query /\ s[c][k] \in Resp
             /\ s[c][k].name = k.name /\ (s[c][k].edns => k.edns) /\ ~ s[c][k].private
             /\ \/ k \in DOMAIN store[c] /\ s[c][k] = store[c][k]
                \/ s[c][k].run = run
  <2>1. CASE k \in DOMAIN store[c] /\ s[c][k] = store[c][k]
    BY <2>1 DEF Core, Stored
  <2>2. CASE ~ (k \in DOMAIN store[c] /\ s[c][k] = store[c][k])
    <3>1. PICK w \in Write : /\ w.key = k
                             /\ s[c][k] = ResponseForQuery(ctx.resp, ctx.rewrites, k, w.start)
      BY <1>1, <1>3, <2>2, StoreWritesFacts
    <3>2. Storable(ctx)
      BY <1>1, <1>3, <2>2, StoreWritesFacts
    <3>3. k \in Query /\ w.start \in Nat
      BY <3>1 DEF Write
    <3>4. ctx.resp \in Resp /\ ctx.rewrites \in Seq(Alias)
      BY ContextFields DEF Core
    <3>5. PICK e : e = ResponseForQuery(ctx.resp, ctx.rewrites, k, w.start)
      OBVIOUS
    <3>6. /\ e \in Resp /\ e.name = k.name /\ (e.edns => k.edns)
          /\ (e.private => ctx.resp.private) /\ e.run = ctx.resp.run
      <4>1. PICK r \in Resp, rw \in Seq(Alias), q \in Query, n \in Nat :
              r = ctx.resp /\ rw = ctx.rewrites /\ q = k /\ n = w.start
        BY <3>3, <3>4
      <4>2. PICK f : f = ResponseForQuery(r, rw, q, n)
        OBVIOUS
      <4>3. /\ f \in Resp /\ f.name = q.name /\ (f.edns => q.edns)
            /\ (f.private => r.private) /\ f.run = r.run
        BY <4>2, ResponseFacts
      <4>4. QED
        BY <3>5, <4>1, <4>2, <4>3
    <3>7. ctx.resp.run = run /\ ~ ctx.resp.private
      BY <3>2 DEF Core, OwnAnswer, HasResp, Storable
    <3>8. QED
      BY <3>1, <3>3, <3>5, <3>6, <3>7
  <2>3. QED
    BY <2>1, <2>2
<1>4. QED
  BY <1>1, <1>2, <1>3 DEF Stored

LEMMA CoreEnds ==
  ASSUME Core, Ends, UNCHANGED << prog, run >>
  PROVE  Core'
<1>1. PICK a \in {"accept", "continue"} : Finish(a)
  BY DEF Ends
<1>2. pc # "idle"
  BY DEF Ends
<1>3. /\ store' \in {StoreWrites(Top.writes), store} /\ frames' = Front(frames) /\ ret' = a
      /\ pc' = IF Len(frames) = 1 THEN "idle" ELSE "ret"
      /\ ctx' = IF Len(frames) = 1 THEN Finalize(ctx) ELSE ctx
      /\ pending' = pending
  BY <1>1 DEF Finish
<1>4. Stored(store')
  BY <1>2, <1>3, StoreKeeps DEF Core
<1>5. frames' \in Seq(FrameRec) /\ Len(frames') = Len(frames) - 1 /\ Len(frames) \in Nat \ {0}
  BY <1>2, <1>3, FrontFacts, TopFacts
<1>6. Finalize(ctx) \in Context /\ ctx \in Context
  BY FinalizeFacts DEF Core
<1>7. ctx' \in Context /\ (pc' # "idle" => Len(frames') >= 1)
  BY <1>3, <1>5, <1>6
<1>8. OwnAnswer'
  BY <1>2, <1>3 DEF Core, OwnAnswer, HasResp
<1>9. \A p \in pending' : Restart(p)'
  BY <1>3 DEF Core, Restart
<1>10. QED
  BY <1>3, <1>4, <1>5, <1>7, <1>8, <1>9 DEF Core

(* A refresh that is asked for restarts where the query entered. *)
LEMMA KickedFacts ==
  ASSUME Core, NEW t, NEW p \in Kicked(t)
  PROVE  Restart(p)
<1>1. p.ctx = CloneForLazy(ctx) /\ ctx.original \in Query /\ ctx.public \in BOOLEAN
  BY ContextFields DEF Kicked, Core
<1>2. QED
  BY <1>1 DEF Restart, CloneForLazy

LEMMA SnapshotFacts ==
  ASSUME Core, NEW t \in Cache
  PROVE  /\ Snapshot(t) \in Seq(Write)
         /\ \A j \in 1 .. Len(Snapshot(t)) :
              Snapshot(t)[j] = [cache |-> t, key |-> ctx.query, start |-> Len(ctx.rewrites)]
<1>1. ctx.query \in Query /\ Len(ctx.rewrites) \in Nat
  <2>1. ctx.query \in Query /\ ctx.rewrites \in Seq(Alias)
    BY ContextFields DEF Core
  <2>2. QED
    BY <2>1
<1>2. PICK w \in Write : w = [cache |-> t, key |-> ctx.query, start |-> Len(ctx.rewrites)]
  BY <1>1 DEF Write
<1>3. CASE Snapshot(t) = << >>
  <2>1. Snapshot(t) \in Seq(Write) /\ Len(Snapshot(t)) = 0
    BY <1>3, NoWrites
  <2>2. QED
    BY <2>1
<1>4. CASE Snapshot(t) = << w >>
  <2>1. Snapshot(t) \in Seq(Write) /\ Len(Snapshot(t)) = 1 /\ Snapshot(t)[1] = w
    BY <1>4
  <2>2. QED
    BY <1>2, <2>1
<1>5. QED
  BY <1>2, <1>3, <1>4 DEF Snapshot

LEMMA ConcatElements ==
  ASSUME NEW S, NEW s \in Seq(S), NEW t \in Seq(S)
  PROVE  /\ s \o t \in Seq(S) /\ Len(s \o t) = Len(s) + Len(t)
         /\ \A j \in 1 .. Len(s) : (s \o t)[j] = s[j]
         /\ \A j \in 1 .. Len(t) : (s \o t)[Len(s) + j] = t[j]
         /\ \A j \in 1 .. (Len(s) + Len(t)) : j \in 1 .. Len(s) \/ j - Len(s) \in 1 .. Len(t)
         /\ \A j \in 1 .. (Len(s) + Len(t)) : ~ (j \in 1 .. Len(s)) => (s \o t)[j] = t[j - Len(s)]
<1>1. s \o t \in Seq(S)
  OBVIOUS
<1>2. Len(s \o t) = Len(s) + Len(t) /\ Len(s) \in Nat /\ Len(t) \in Nat
  OBVIOUS
<1>3. \A j \in 1 .. Len(s) : (s \o t)[j] = s[j]
  OBVIOUS
<1>4. \A j \in 1 .. Len(t) : (s \o t)[Len(s) + j] = t[j]
  OBVIOUS
<1>5. \A j \in 1 .. (Len(s) + Len(t)) : j \in 1 .. Len(s) \/ j - Len(s) \in 1 .. Len(t)
  BY <1>2
<1>6. \A j \in 1 .. (Len(s) + Len(t)) : ~ (j \in 1 .. Len(s)) => (s \o t)[j] = t[j - Len(s)]
  <2>1. ASSUME NEW j \in 1 .. (Len(s) + Len(t)), ~ (j \in 1 .. Len(s)) PROVE (s \o t)[j] = t[j - Len(s)]
    <3>1. PICK a \in Nat, b \in Nat : a = Len(s) /\ b = Len(t)
      BY <1>2
    <3>2. j - a \in 1 .. b /\ j = a + (j - a)
      BY <2>1, <3>1
    <3>3. QED
      BY <1>4, <3>1, <3>2
  <2>2. QED
    BY <2>1
<1>7. QED
  BY <1>1, <1>2, <1>3, <1>4, <1>5, <1>6

(* The frames after a cache step, its lookup remembered. *)
LEMMA CacheFrames ==
  ASSUME Core, NEW t \in Cache, CacheStep(t)
  PROVE  /\ frames' \in Seq(FrameRec) /\ Len(frames') = Len(frames)
         /\ frames'[Len(frames)].i = Top.i + 1 /\ frames'[Len(frames)].goto = Top.goto
         /\ \A j \in 1 .. Len(frames) : j # Len(frames) => frames'[j] = frames[j]
         /\ \A j \in 1 .. Len(frames) : frames'[j].seq = frames[j].seq
         /\ \A j \in 1 .. Len(frames'[Len(frames)].writes) :
              \/ \E m \in 1 .. Len(Top.writes) : frames'[Len(frames)].writes[j] = Top.writes[m]
              \/ frames'[Len(frames)].writes[j]
                   = [cache |-> t, key |-> ctx.query, start |-> Len(ctx.rewrites)]
<1>1. pc # "idle" /\ SetTop([Top EXCEPT !.i = Top.i + 1, !.writes = Top.writes \o Snapshot(t)])
  BY DEF CacheStep, At
<1>2. Top \in FrameRec /\ Top.writes \in Seq(Write) /\ Top = frames[Len(frames)]
  BY <1>1, TopFacts DEF FrameRec
<1>3. PICK W : W = Top.writes \o Snapshot(t)
  OBVIOUS
<1>4. Snapshot(t) \in Seq(Write)
  BY SnapshotFacts
<1>5. /\ W \in Seq(Write) /\ Len(W) = Len(Top.writes) + Len(Snapshot(t))
      /\ \A j \in 1 .. Len(Top.writes) : W[j] = Top.writes[j]
      /\ \A j \in 1 .. Len(W) : ~ (j \in 1 .. Len(Top.writes)) =>
           W[j] = Snapshot(t)[j - Len(Top.writes)] /\ j - Len(Top.writes) \in 1 .. Len(Snapshot(t))
  <2>1. PICK A \in Seq(Write), B \in Seq(Write) : A = Top.writes /\ B = Snapshot(t)
    BY <1>2, <1>4
  <2>2. /\ A \o B \in Seq(Write) /\ Len(A \o B) = Len(A) + Len(B)
        /\ \A j \in 1 .. Len(A) : (A \o B)[j] = A[j]
        /\ \A j \in 1 .. (Len(A) + Len(B)) : j \in 1 .. Len(A) \/ j - Len(A) \in 1 .. Len(B)
        /\ \A j \in 1 .. (Len(A) + Len(B)) : ~ (j \in 1 .. Len(A)) => (A \o B)[j] = B[j - Len(A)]
    BY ConcatElements
  <2>3. W = A \o B
    BY <1>3, <2>1
  <2>4. QED
    BY <2>1, <2>2, <2>3
<1>6. PICK f : f = [Top EXCEPT !.i = Top.i + 1, !.writes = W]
  OBVIOUS
<1>7. f \in FrameRec /\ f.writes = W /\ f.i = Top.i + 1 /\ f.seq = Top.seq /\ f.goto = Top.goto
  <2>1. PICK n \in Nat : n = Top.i + 1
    BY <1>2 DEF FrameRec
  <2>2. W \in Seq(Write)
    BY <1>5
  <2>3. f = [Top EXCEPT !.i = n, !.writes = W]
    BY <1>6, <2>1
  <2>4. QED
    BY <1>2, <2>1, <2>2, <2>3 DEF FrameRec
<1>8. SetTop(f)
  BY <1>1, <1>3, <1>6
<1>9. /\ frames' \in Seq(FrameRec) /\ Len(frames') = Len(frames)
      /\ frames'[Len(frames)] = f
      /\ \A j \in 1 .. Len(frames) : j # Len(frames) => frames'[j] = frames[j]
  BY <1>1, <1>7, <1>8, SetTopFacts
<1>10. \A j \in 1 .. Len(W) :
         \/ \E m \in 1 .. Len(Top.writes) : W[j] = Top.writes[m]
         \/ W[j] = [cache |-> t, key |-> ctx.query, start |-> Len(ctx.rewrites)]
  BY <1>5, SnapshotFacts
<1>11. QED
  BY <1>2, <1>7, <1>9, <1>10

LEMMA CoreCacheStep ==
  ASSUME Core, NEW t \in Cache, CacheStep(t), UNCHANGED << prog, run >>
  PROVE  Core'
<1>1. frames' \in Seq(FrameRec) /\ Len(frames') = Len(frames)
  BY CacheFrames
<1>2. pc = "run" /\ UNCHANGED << store, pc, ret >>
  BY DEF CacheStep, At
<1>3. Len(frames) >= 1 /\ ret \in {"accept", "continue"} /\ ctx \in Context
      /\ (HasResp /\ ~ ctx.served => ctx.resp.run = run)
  BY <1>2 DEF Core, OwnAnswer
<1>4. \/ ctx' = ctx
      \/ ctx.query \in DOMAIN store[t] /\ ctx' = Hit(t)
  BY DEF CacheStep
<1>5. pending' = pending \/ pending' = pending \cup Kicked(t)
  BY DEF CacheStep
<1>6. \A p \in pending' : Restart(p)
  BY <1>5, KickedFacts DEF Core
<1>7. ctx' \in Context /\ (ctx'.resp.rcode # "absent" /\ ~ ctx'.served => ctx'.resp.run = run)
  <2>1. CASE ctx' = ctx
    BY <1>3, <2>1 DEF HasResp
  <2>2. CASE ctx.query \in DOMAIN store[t] /\ ctx' = Hit(t)
    BY <2>2, HitFacts
  <2>3. QED
    BY <1>4, <2>1, <2>2
<1>8. QED
  BY <1>1, <1>2, <1>3, <1>6, <1>7, CoreNext

LEMMA CoreStep ==
  ASSUME Core, Step
  PROVE  Core'
<1>1. UNCHANGED << prog, run >> /\ run \in Nat
  BY PipelineAssumption DEF Step, Core
<1>2. ctx \in Context /\ (pc # "idle" /\ HasResp /\ ~ ctx.served => ctx.resp.run = run)
  BY DEF Core, OwnAnswer
<1>3. CASE Passes
  BY <1>1, <1>2, <1>3, CoreContinue DEF Passes, Running, HasResp
<1>4. CASE Answers
  <2>1. PICK r : Made(r) /\ Running /\ Continue(SetResponse(ctx, r))
    BY <1>4 DEF Answers
  <2>2. r \in Resp /\ (r.rcode # "absent" => r.run = run) /\ pc = "run"
    BY <2>1 DEF Made, Running
  <2>3. PICK d \in Context : d = SetResponse(ctx, r) /\ d.resp = r
    BY <1>2, <2>2, SetResponseFacts
  <2>4. QED
    BY <1>1, <2>1, <2>2, <2>3, CoreContinue
<1>5. CASE Rewrites
  <2>1. PICK d \in Context : d = Redirected(ctx) /\ d.resp = ctx.resp /\ d.served = ctx.served
    BY <1>2, RedirectedFacts
  <2>2. QED
    BY <1>1, <1>2, <1>5, <2>1, CoreContinue DEF Rewrites, At, HasResp
<1>6. CASE Attaches
  <2>1. PICK d \in Context : d = WithSubnet(ctx) /\ d.resp = ctx.resp /\ d.served = ctx.served
    BY <1>2, WithSubnetFacts
  <2>2. QED
    BY <1>1, <1>2, <1>6, <2>1, CoreContinue DEF Attaches, At, HasResp
<1>7. CASE Detaches
  <2>1. PICK d \in Context : d = WithoutSubnet(ctx) /\ d.resp = ctx.resp /\ d.served = ctx.served
    BY <1>2, WithoutSubnetFacts
  <2>2. QED
    BY <1>1, <1>2, <1>7, <2>1, CoreContinue DEF Detaches, At, HasResp
<1>8. CASE Marks
  <2>1. PICK d \in Context : d = Marked(ctx) /\ d.resp = ctx.resp /\ d.served = ctx.served
    BY <1>2, MarkedFacts
  <2>2. QED
    BY <1>1, <1>2, <1>8, <2>1, CoreContinue DEF Marks, At, HasResp
<1>9. CASE \E t \in Cache : CacheStep(t)
  BY <1>1, <1>9, CoreCacheStep
<1>10. CASE Ends
  BY <1>1, <1>10, CoreEnds
<1>11. PICK r \in Resp : r = Skeleton(ctx.query, "fail", run) /\ r.run = run
  BY <1>1, <1>2, ContextFields, SkeletonFacts
<1>12. CASE TimesOut
  <2>1. /\ frames' = << >> /\ pc' = "idle" /\ ctx' = Finalize(SetResponse(ctx, r))
        /\ UNCHANGED << store, ret, pending >>
    BY <1>11, <1>12 DEF TimesOut, Abort, Reject
  <2>2. PICK d \in Context : d = SetResponse(ctx, r)
    BY <1>2, SetResponseFacts
  <2>3. ctx' \in Context
    BY <2>1, <2>2, FinalizeFacts
  <2>4. frames' \in Seq(FrameRec)
    BY <2>1, NoFrames
  <2>5. OwnAnswer'
    BY <2>1 DEF OwnAnswer
  <2>6. Stored(store') /\ \A p \in pending' : Restart(p)'
    BY <2>1 DEF Core, Stored, Restart
  <2>7. QED
    BY <1>1, <2>1, <2>3, <2>4, <2>5, <2>6 DEF Core
<1>13. CASE Rejects
  <2>1. PICK rcode \in {"ok", "nx", "fail"} : RejectStep(rcode)
    BY <1>13 DEF Rejects
  <2>2. PICK s \in Resp : s = Skeleton(ctx.query, rcode, run) /\ s.run = run
    BY <1>1, <1>2, ContextFields, SkeletonFacts
  <2>3. /\ pc = "run" /\ ctx' = SetResponse(ctx, s) /\ pc' = "ret" /\ ret' = "accept"
        /\ UNCHANGED << store, frames, pending >>
    BY <2>1, <2>2 DEF RejectStep, Reject, At
  <2>4. ctx' \in Context /\ ctx'.resp = s
    BY <1>2, <2>3, SetResponseFacts
  <2>5. frames \in Seq(FrameRec) /\ Len(frames) >= 1 /\ \A p \in pending : Restart(p)
    BY <2>3 DEF Core
  <2>6. QED
    BY <1>1, <2>2, <2>3, <2>4, <2>5, CoreNext
<1>14. CASE \E goto \in BOOLEAN : Call(goto)
  <2>1. PICK goto \in BOOLEAN : Call(goto)
    BY <1>14
  <2>2. /\ pc = "run"
        /\ frames' = Append([frames EXCEPT ![Len(frames)].goto = goto], Frame("sub"))
        /\ UNCHANGED << store, pc, ret, ctx, pending >>
    BY <2>1 DEF Call, At
  <2>3. frames' \in Seq(FrameRec) /\ Len(frames') = Len(frames) + 1 /\ Len(frames) \in Nat
    BY <2>2, CallFacts, TopFacts
  <2>4. /\ Len(frames) >= 1 /\ ret \in {"accept", "continue"} /\ \A p \in pending : Restart(p)
        /\ (HasResp /\ ~ ctx.served => ctx.resp.run = run)
    BY <1>2, <2>2 DEF Core
  <2>5. QED
    BY <1>1, <1>2, <2>2, <2>3, <2>4, CoreNext DEF HasResp
<1>15. CASE Resumes
  <2>1. pc = "ret" /\ Advance /\ pc' = "run" /\ UNCHANGED << store, ret, ctx, pending >>
    BY <1>15 DEF Resumes
  <2>2. frames' \in Seq(FrameRec) /\ Len(frames') = Len(frames)
    BY <2>1, AdvanceFacts
  <2>3. /\ Len(frames) >= 1 /\ ret \in {"accept", "continue"} /\ \A p \in pending : Restart(p)
        /\ (HasResp /\ ~ ctx.served => ctx.resp.run = run)
    BY <1>2, <2>1 DEF Core
  <2>4. QED
    BY <1>1, <1>2, <2>1, <2>2, <2>3, CoreNext DEF HasResp
<1>16. QED
  BY <1>3, <1>4, <1>5, <1>6, <1>7, <1>8, <1>9, <1>10, <1>12, <1>13, <1>14, <1>15, StepKinds

(* A context at the entry of the pipeline. *)
FreshContext(c) ==
  /\ c \in Context /\ c.original = c.query /\ c.rewrites = << >>
  /\ c.resp.rcode = "absent" /\ c.resp.ecs = c.query.ecs /\ c.strip = FALSE /\ c.mark = FALSE

(* A client's query or a refresh enters. *)
Enters ==
  /\ pc = "idle" /\ pc' = "run" /\ frames' = << Frame("main") >>
  /\ FreshContext(ctx') /\ run < MaxRuns /\ run' = run + 1
  /\ pending' \subseteq pending
  /\ UNCHANGED << prog, store, ret >>

(* A message is answered on the spot. *)
Refuses ==
  /\ pc = "idle" /\ run < MaxRuns /\ run' = run + 1
  /\ \E q \in Query, b \in BOOLEAN : \E r :
       r = Skeleton(q, "fail", run) /\ ctx' = Finalize(SetResponse(NewContext(q, b), r))
  /\ UNCHANGED << prog, store, pc, ret, frames, pending >>

LEMMA ClientFields ==
  ASSUME NEW d \in Clients
  PROVE  d.query \in Query /\ d.public \in BOOLEAN
  BY PipelineAssumption DEF Client

LEMMA NextKinds ==
  ASSUME Core, Next
  PROVE  Enters \/ Refuses \/ Step \/ UNCHANGED vars
<1>1. ASSUME NEW d \in Clients, Arrive(d) PROVE Enters
  <2>1. PICK q \in Query, b \in BOOLEAN : q = d.query /\ b = d.public
    BY ClientFields
  <2>2. PICK x : x = NewContext(q, b)
    OBVIOUS
  <2>3. /\ x \in Context /\ x.query = q /\ x.original = q /\ x.mark = FALSE
        /\ x.rewrites = << >> /\ x.strip = FALSE
        /\ x.resp.rcode = "absent" /\ x.resp.ecs = q.ecs
    BY <2>2, NewContextFacts
  <2>4. FreshContext(x)
    BY <2>3 DEF FreshContext
  <2>5. Enter(x) /\ pc' = "run" /\ frames' = << Frame("main") >> /\ pending' = pending
    BY <1>1, <2>1, <2>2, Zenon DEF Arrive
  <2>6. QED
    BY <2>4, <2>5 DEF Enter, Enters
<1>2. ASSUME NEW d \in Clients, ArriveNotImp(d) PROVE Refuses
  <2>1. PICK q \in Query, b \in BOOLEAN : q = d.query /\ b = d.public
    BY ClientFields
  <2>2. PICK c : c = NewContext(q, b)
    OBVIOUS
  <2>3. c.query = q
    BY <2>2, NewContextFacts
  <2>4. Reject(c, "fail") = SetResponse(c, Skeleton(q, "fail", run))
    BY <2>3 DEF Reject
  <2>5. /\ Enter(Finalize(SetResponse(NewContext(q, b), Skeleton(q, "fail", run))))
        /\ UNCHANGED << pc, frames, pending >>
    BY <1>2, <2>1, <2>2, <2>4, Zenon DEF ArriveNotImp
  <2>6. QED
    BY <2>5 DEF Enter, Refuses
<1>3. ASSUME NEW p \in pending, Refresh(p) PROVE Enters
  <2>1. PICK q \in Query, b \in BOOLEAN : p.ctx = [NewContext(q, b) EXCEPT !.skip = TRUE]
    BY <1>3 DEF Core, Restart
  <2>2. FreshContext(p.ctx)
    <3>1. PICK x : x = [NewContext(q, b) EXCEPT !.skip = TRUE]
      OBVIOUS
    <3>2. /\ x \in Context /\ x.query = q /\ x.original = q /\ x.mark = FALSE
          /\ x.rewrites = << >> /\ x.strip = FALSE
          /\ x.resp.rcode = "absent" /\ x.resp.ecs = q.ecs
      BY <3>1, CloneFacts
    <3>3. QED
      BY <2>1, <3>1, <3>2 DEF FreshContext
  <2>3. QED
    BY <1>3, <2>2 DEF Refresh, Enter, Enters
<1>4. QED
  BY <1>1, <1>2, <1>3 DEF Next, Done

LEMMA MainFrame ==
  /\ << Frame("main") >> \in Seq(FrameRec) /\ Len(<< Frame("main") >>) = 1
  /\ << Frame("main") >>[1] = Frame("main")
<1>1. PICK f \in FrameRec : f = Frame("main")
  BY FrameFacts DEF Tag
<1>2. << f >> \in Seq(FrameRec) /\ Len(<< f >>) = 1 /\ << f >>[1] = f
  OBVIOUS
<1>3. QED
  BY <1>1, <1>2

LEMMA RunNext ==
  ASSUME run \in 0 .. MaxRuns, run < MaxRuns, run' = run + 1
  PROVE  run' \in 0 .. MaxRuns
  BY PipelineAssumption

LEMMA CoreInit == Init => Core
<1>1. SUFFICES ASSUME Init PROVE Core
  OBVIOUS
<1>2. NoQuery \in Query
  BY PipelineAssumption DEF NoQuery, Query
<1>3. ctx \in Context
  BY <1>1, <1>2, NewContextFacts DEF Init
<1>4. \A c \in Cache : DOMAIN store[c] = {}
  <2>1. DOMAIN << >> = {}
    OBVIOUS
  <2>2. \A c \in Cache : store[c] = << >>
    BY <1>1 DEF Init
  <2>3. QED
    BY <2>1, <2>2
<1>5. Stored(store)
  BY <1>1, <1>4 DEF Stored, Init
<1>6. frames \in Seq(FrameRec)
  BY <1>1, NoFrames DEF Init
<1>7. prog \in Programs /\ pc = "idle" /\ ret = "continue" /\ pending = {} /\ run = 0
  BY <1>1 DEF Init
<1>8. run \in 0 .. MaxRuns
  BY <1>7, PipelineAssumption
<1>9. QED
  BY <1>3, <1>5, <1>6, <1>7, <1>8 DEF Core, OwnAnswer

LEMMA CoreInductive ==
  ASSUME Core, [Next]_vars
  PROVE  Core'
<1>1. CASE Enters
  <2>1. /\ pc' = "run" /\ frames' = << Frame("main") >> /\ ctx' \in Context
        /\ ctx'.resp.rcode = "absent"
        /\ pending' \subseteq pending /\ UNCHANGED << prog, store, ret >>
    BY <1>1 DEF Enters, FreshContext
  <2>2. frames' \in Seq(FrameRec) /\ Len(frames') >= 1
    BY <2>1, MainFrame
  <2>3. run' \in 0 .. MaxRuns
    BY <1>1, RunNext DEF Enters, Core
  <2>4. OwnAnswer'
    BY <2>1 DEF OwnAnswer, HasResp
  <2>5. Stored(store')
    BY <2>1 DEF Core, Stored
  <2>6. \A p \in pending' : Restart(p)'
    BY <2>1 DEF Core, Restart
  <2>7. QED
    BY <2>1, <2>2, <2>3, <2>4, <2>5, <2>6 DEF Core
<1>2. CASE Refuses
  <2>1. PICK q \in Query, b \in BOOLEAN :
          ctx' = Finalize(SetResponse(NewContext(q, b), Skeleton(q, "fail", run)))
    BY <1>2 DEF Refuses
  <2>2. pc = "idle" /\ UNCHANGED << prog, store, pc, ret, frames, pending >>
    BY <1>2 DEF Refuses
  <2>3. run \in Nat
    BY PipelineAssumption DEF Core
  <2>4. PICK r \in Resp : r = Skeleton(q, "fail", run)
    BY <2>3, SkeletonFacts
  <2>5. PICK c \in Context : c = SetResponse(NewContext(q, b), r)
    BY NewContextFacts, SetResponseFacts
  <2>6. ctx' \in Context
    BY <2>1, <2>4, <2>5, FinalizeFacts
  <2>7. run' \in 0 .. MaxRuns
    BY <1>2, RunNext DEF Refuses, Core
  <2>8. OwnAnswer'
    BY <2>2 DEF OwnAnswer
  <2>9. Stored(store') /\ \A p \in pending' : Restart(p)'
    BY <2>2 DEF Core, Stored, Restart
  <2>10. QED
    BY <2>2, <2>6, <2>7, <2>8, <2>9 DEF Core
<1>3. CASE Step
  BY <1>3, CoreStep
<1>4. CASE UNCHANGED vars
  BY <1>4 DEF Core, Stored, OwnAnswer, HasResp, Restart, vars
<1>5. QED
  BY <1>1, <1>2, <1>3, <1>4, NextKinds

LEMMA CoreAlways == Spec => []Core
<1>1. Init => Core
  BY CoreInit
<1>2. Core /\ [Next]_vars => Core'
  BY CoreInductive
<1>3. QED
  BY <1>1, <1>2, PTL DEF Spec

(* Whatever the configuration, every variable keeps its type: entries,     *)
(* frames and the context stay well-formed through redirects, hits, calls, *)
(* jumps, timeouts and refreshes.                                          *)
THEOREM TypeCorrect == Spec => []TypeOK
<1>1. Core => TypeOK
  <2>1. SUFFICES ASSUME Core PROVE TypeOK
    OBVIOUS
  <2>2. /\ ctx.query \in Query /\ ctx.original \in Query /\ ctx.resp \in Resp
        /\ ctx.rewrites \in Seq(Alias)
    BY <2>1, ContextFields DEF Core
  <2>3. \A i \in DOMAIN frames : frames[i].seq \in Tag /\ frames[i].i \in Nat
    <3>1. \A i \in DOMAIN frames : frames[i] \in FrameRec
      <4>1. frames \in Seq(FrameRec)
        BY <2>1 DEF Core
      <4>2. QED
        BY <4>1
    <3>2. QED
      BY <3>1 DEF FrameRec
  <2>4. QED
    BY <2>1, <2>2, <2>3 DEF Core, Stored, TypeOK
<1>2. QED
  BY <1>1, CoreAlways, PTL

(* Only the end of a sequence changes what the caches hold. *)
LEMMA StoreUnchanged ==
  ASSUME Core, Step, ~ Ends
  PROVE  UNCHANGED store
<1>1. \/ Passes \/ Answers \/ Rewrites \/ Attaches \/ Detaches \/ Marks
      \/ \E t \in Cache : CacheStep(t)
      \/ TimesOut \/ Rejects \/ (\E goto \in BOOLEAN : Call(goto)) \/ Resumes
  BY StepKinds
<1>2. QED
  BY <1>1 DEF Passes, Answers, Rewrites, Attaches, Detaches, Marks, Continue, CacheStep,
              TimesOut, Abort, Rejects, RejectStep, Call, Resumes

(* Whatever the configuration, no run writes to a cache what it did not    *)
(* obtain itself: an answer one cache served is written to no other cache  *)
(* and not back (cache.rs: store_lookup, served_from_cache).               *)
THEOREM RestoreCorrect == Spec => NeverRestored
<1>1. ASSUME Core, [Next]_vars
      PROVE  [\A c \in Cache : \A k \in DOMAIN store'[c] :
                \/ k \in DOMAIN store[c] /\ store'[c][k] = store[c][k]
                \/ store'[c][k].run = run]_vars
  <2>1. CASE Ends
    <3>1. pc # "idle" /\ store' \in {StoreWrites(Top.writes), store}
      BY <2>1 DEF Ends, Finish
    <3>2. QED
      BY <1>1, <3>1, StoreKeeps
  <2>2. CASE UNCHANGED store
    BY <2>2
  <2>3. CASE UNCHANGED vars
    BY <2>3
  <2>4. Enters \/ Refuses => UNCHANGED store
    BY DEF Enters, Refuses
  <2>5. QED
    BY <1>1, <2>1, <2>2, <2>3, <2>4, NextKinds, StoreUnchanged
<1>2. QED
  BY <1>1, CoreAlways, PTL DEF Spec, NeverRestored

-----------------------------------------------------------------------------
(* Aliases.  Where the redirects lead nowhere twice, every name has a rank *)
(* that grows along them.                                                  *)

Ranked(rank) ==
  /\ rank \in [Name -> Nat]
  /\ \A n \in DOMAIN Rule : Rule[n] # n => rank[n] < rank[Rule[n]]

RedirectsEnd == \E rank : Ranked(rank)

Rank == CHOOSE rank : Ranked(rank)

LEMMA RankFacts ==
  ASSUME RedirectsEnd
  PROVE  /\ \A n \in Name : Rank[n] \in Nat
         /\ \A n \in DOMAIN Rule : Rule[n] # n => Rank[n] < Rank[Rule[n]]
<1>1. Ranked(Rank)
  BY DEF RedirectsEnd, Rank
<1>2. QED
  BY <1>1 DEF Ranked

(* s leads from n to m, *)
Joins(n, s, m) ==
  /\ Len(s) = 0 => m = n
  /\ Len(s) # 0 => s[1][1] = n /\ s[Len(s)][2] = m
  /\ \A i \in 1 .. (Len(s) - 1) : s[i][2] = s[i + 1][1]

(* and each alias is one the redirect plugin makes. *)
Walk(n, s, m) ==
  /\ n \in Name /\ m \in Name /\ s \in Seq(Alias) /\ Joins(n, s, m)
  /\ \A i \in 1 .. Len(s) :
       /\ s[i][1] \in DOMAIN Rule /\ s[i][2] = Rule[s[i][1]]
       /\ Rank[n] <= Rank[s[i][1]] /\ Rank[s[i][1]] < Rank[s[i][2]] /\ Rank[s[i][2]] <= Rank[m]
  /\ \A i, j \in 1 .. Len(s) : i < j => Rank[s[i][2]] <= Rank[s[j][1]]

(* It passes m. *)
Via(n, s, m, z) == \E u, v : s = u \o v /\ Walk(n, u, m) /\ Walk(m, v, z)

LEMMA AliasParts ==
  ASSUME NEW s \in Seq(Alias), NEW i \in 1 .. Len(s)
  PROVE  s[i] \in Alias /\ s[i][1] \in Name /\ s[i][2] \in Name /\ s[i] = << s[i][1], s[i][2] >>
<1>1. s[i] \in Alias
  OBVIOUS
<1>2. QED
  BY <1>1 DEF Alias

LEMMA WalkLeads ==
  ASSUME NEW r \in Resp, NEW n, Walk(n, r.chain, r.own)
  PROVE  Leads(n, r)
<1>1. r.chain \in Seq(Alias) /\ Joins(n, r.chain, r.own)
  BY DEF Walk
<1>2. r.chain = << >> <=> Len(r.chain) = 0
  BY <1>1
<1>3. QED
  BY <1>1, <1>2 DEF Leads, Joins

LEMMA WalkNone ==
  ASSUME NEW n \in Name
  PROVE  Walk(n, << >>, n)
<1>1. PICK s \in Seq(Alias) : s = << >> /\ Len(s) = 0
  BY NoAliases
<1>2. \A i \in 1 .. Len(s) : FALSE
  BY <1>1
<1>3. \A i \in 1 .. (Len(s) - 1) : FALSE
  BY <1>1
<1>4. Walk(n, s, n)
  BY <1>1, <1>2, <1>3 DEF Walk, Joins
<1>5. QED
  BY <1>1, <1>4

LEMMA WalkBounds ==
  ASSUME RedirectsEnd, NEW n, NEW s, NEW m, Walk(n, s, m)
  PROVE  Rank[n] \in Nat /\ Rank[m] \in Nat /\ Rank[n] <= Rank[m]
<1>1. Rank[n] \in Nat /\ Rank[m] \in Nat /\ s \in Seq(Alias)
  BY RankFacts DEF Walk
<1>2. CASE Len(s) = 0
  <2>1. n = m
    BY <1>2 DEF Walk, Joins
  <2>2. QED
    BY <1>1, <2>1
<1>3. CASE Len(s) # 0
  <2>1. 1 \in 1 .. Len(s)
    BY <1>1, <1>3
  <2>2. PICK a \in Nat, b \in Nat : a = Rank[s[1][1]] /\ b = Rank[s[1][2]]
    BY <1>1, <2>1, AliasParts, RankFacts
  <2>3. Rank[n] <= a /\ a < b /\ b <= Rank[m]
    BY <2>1, <2>2 DEF Walk
  <2>4. QED
    BY <1>1, <2>2, <2>3
<1>4. QED
  BY <1>2, <1>3

LEMMA Singleton ==
  ASSUME NEW S, NEW e \in S
  PROVE  << e >> \in Seq(S) /\ Len(<< e >>) = 1 /\ << e >>[1] = e
  OBVIOUS

LEMMA WalkOne ==
  ASSUME RedirectsEnd, NEW n \in DOMAIN Rule, Rule[n] # n
  PROVE  Walk(n, << << n, Rule[n] >> >>, Rule[n])
<1>1. n \in Name /\ Rule[n] \in Name
  BY PipelineAssumption
<1>2. PICK m \in Name : m = Rule[n]
  BY <1>1
<1>3. PICK e \in Alias : e = << n, m >> /\ e[1] = n /\ e[2] = m
  <2>1. << n, m >> \in Alias
    BY <1>1 DEF Alias
  <2>2. << n, m >>[1] = n /\ << n, m >>[2] = m
    OBVIOUS
  <2>3. QED
    BY <2>1, <2>2
<1>4. PICK s \in Seq(Alias) : s = << e >> /\ Len(s) = 1 /\ s[1] = e
  BY <1>3, Singleton
<1>5. Rank[n] \in Nat /\ Rank[m] \in Nat /\ Rank[n] < Rank[m]
  BY <1>1, <1>2, RankFacts
<1>6. Joins(n, s, m)
  BY <1>3, <1>4 DEF Joins
<1>7. \A i \in 1 .. Len(s) :
        /\ s[i][1] \in DOMAIN Rule /\ s[i][2] = Rule[s[i][1]]
        /\ Rank[n] <= Rank[s[i][1]] /\ Rank[s[i][1]] < Rank[s[i][2]] /\ Rank[s[i][2]] <= Rank[m]
  BY <1>2, <1>3, <1>4, <1>5
<1>8. Walk(n, s, m)
  <2>1. \A i, j \in 1 .. Len(s) : ~ (i < j)
    BY <1>4
  <2>2. QED
    BY <1>1, <1>6, <1>7, <2>1 DEF Walk
<1>9. QED
  BY <1>2, <1>3, <1>4, <1>8

(* Two walks make one, and share no alias. *)
LEMMA WalkConcat ==
  ASSUME RedirectsEnd, NEW n, NEW s, NEW m, NEW t, NEW z, Walk(n, s, m), Walk(m, t, z)
  PROVE  /\ Walk(n, s \o t, z)
         /\ \A i \in 1 .. Len(s) : s[i] \notin Range(t)
<1>1. /\ n \in Name /\ m \in Name /\ z \in Name /\ s \in Seq(Alias) /\ t \in Seq(Alias)
      /\ Joins(n, s, m) /\ Joins(m, t, z)
  BY DEF Walk
<1>2. PICK a \in Nat, b \in Nat : a = Len(s) /\ b = Len(t)
  BY <1>1
<1>3. PICK u : u = s \o t
  OBVIOUS
<1>4. /\ u \in Seq(Alias) /\ Len(u) = a + b
      /\ \A j \in 1 .. a : u[j] = s[j]
      /\ \A j \in 1 .. b : u[a + j] = t[j]
      /\ \A j \in 1 .. (a + b) : j \in 1 .. a \/ j - a \in 1 .. b
      /\ \A j \in 1 .. (a + b) : ~ (j \in 1 .. a) => u[j] = t[j - a]
  BY <1>1, <1>2, <1>3, ConcatElements
<1>5. /\ Rank[n] \in Nat /\ Rank[m] \in Nat /\ Rank[z] \in Nat
      /\ Rank[n] <= Rank[m] /\ Rank[m] <= Rank[z]
  BY WalkBounds
<1>6. ASSUME NEW i \in 1 .. a
      PROVE  /\ s[i][1] \in DOMAIN Rule /\ s[i][2] = Rule[s[i][1]]
             /\ Rank[s[i][1]] \in Nat /\ Rank[s[i][2]] \in Nat
             /\ Rank[n] <= Rank[s[i][1]] /\ Rank[s[i][1]] < Rank[s[i][2]]
             /\ Rank[s[i][2]] <= Rank[m]
  <2>1. s[i][1] \in Name /\ s[i][2] \in Name
    BY <1>1, <1>2, <1>6, AliasParts
  <2>2. QED
    BY <1>2, <1>6, <2>1, RankFacts DEF Walk
<1>7. ASSUME NEW i \in 1 .. b
      PROVE  /\ t[i][1] \in DOMAIN Rule /\ t[i][2] = Rule[t[i][1]]
             /\ Rank[t[i][1]] \in Nat /\ Rank[t[i][2]] \in Nat
             /\ Rank[m] <= Rank[t[i][1]] /\ Rank[t[i][1]] < Rank[t[i][2]]
             /\ Rank[t[i][2]] <= Rank[z]
  <2>1. t[i][1] \in Name /\ t[i][2] \in Name
    BY <1>1, <1>2, <1>7, AliasParts
  <2>2. QED
    BY <1>2, <1>7, <2>1, RankFacts DEF Walk
<1>8. ASSUME NEW i \in 1 .. Len(u)
      PROVE  /\ u[i][1] \in DOMAIN Rule /\ u[i][2] = Rule[u[i][1]]
             /\ Rank[n] <= Rank[u[i][1]] /\ Rank[u[i][1]] < Rank[u[i][2]]
             /\ Rank[u[i][2]] <= Rank[z]
  <2>1. CASE i \in 1 .. a
    <3>1. u[i] = s[i]
      BY <1>4, <2>1
    <3>2. QED
      BY <1>5, <1>6, <2>1, <3>1
  <2>2. CASE ~ (i \in 1 .. a)
    <3>1. PICK j \in 1 .. b : u[i] = t[j]
      BY <1>4, <1>8, <2>2
    <3>2. QED
      BY <1>5, <1>7, <3>1
  <2>3. QED
    BY <2>1, <2>2
<1>9. Joins(n, u, z)
  <2>1. Len(u) = 0 => z = n
    <3>1. ASSUME Len(u) = 0 PROVE a = 0 /\ b = 0
      BY <1>4, <3>1
    <3>2. QED
      BY <1>1, <1>2, <3>1 DEF Joins
  <2>2. ASSUME Len(u) # 0 PROVE u[1][1] = n
    <3>1. CASE a # 0
      <4>1. 1 \in 1 .. a /\ s[1][1] = n
        BY <1>1, <1>2, <3>1 DEF Joins
      <4>2. QED
        BY <1>4, <4>1
    <3>2. CASE a = 0
      <4>1. b # 0 /\ m = n
        BY <1>1, <1>2, <1>4, <2>2, <3>2 DEF Joins
      <4>2. t[1][1] = n /\ 1 \in 1 .. b
        BY <1>1, <1>2, <4>1 DEF Joins
      <4>3. u[1] = t[1]
        BY <1>4, <3>2, <4>2
      <4>4. QED
        BY <4>2, <4>3
    <3>3. QED
      BY <3>1, <3>2
  <2>3. ASSUME Len(u) # 0 PROVE u[Len(u)][2] = z
    <3>1. CASE b # 0
      <4>1. b \in 1 .. b /\ t[b][2] = z
        BY <1>1, <1>2, <3>1 DEF Joins
      <4>2. u[a + b] = t[b]
        BY <1>4, <4>1
      <4>3. QED
        BY <1>4, <4>1, <4>2
    <3>2. CASE b = 0
      <4>1. a # 0 /\ m = z /\ Len(u) = a
        BY <1>1, <1>2, <1>4, <2>3, <3>2 DEF Joins
      <4>2. a \in 1 .. a /\ s[a][2] = z
        BY <1>1, <1>2, <4>1 DEF Joins
      <4>3. QED
        BY <1>4, <4>1, <4>2
    <3>3. QED
      BY <3>1, <3>2
  <2>4. ASSUME NEW i \in 1 .. (Len(u) - 1) PROVE u[i][2] = u[i + 1][1]
    <3>0. i \in 1 .. (a + b - 1)
      BY <1>4, <2>4
    <3>1. CASE i < a
      <4>1. i \in 1 .. a /\ i + 1 \in 1 .. a /\ i \in 1 .. (a - 1)
        BY <3>0, <3>1
      <4>2. s[i][2] = s[i + 1][1]
        BY <1>1, <1>2, <4>1 DEF Joins
      <4>3. QED
        BY <1>4, <4>1, <4>2
    <3>2. CASE i = a
      <4>1. i \in 1 .. a /\ 1 \in 1 .. b /\ a # 0 /\ b # 0
        BY <3>0, <3>2
      <4>2. u[i] = s[a] /\ u[i + 1] = t[1]
        BY <1>4, <3>2, <4>1
      <4>3. s[a][2] = m /\ t[1][1] = m
        BY <1>1, <1>2, <4>1 DEF Joins
      <4>4. QED
        BY <4>2, <4>3
    <3>3. CASE i > a
      <4>1. PICK j \in 1 .. (b - 1) : i = a + j
        <5>1. i - a \in 1 .. (b - 1) /\ i = a + (i - a)
          BY <3>0, <3>3
        <5>2. QED
          BY <5>1
      <4>2. j \in 1 .. b /\ j + 1 \in 1 .. b /\ i + 1 = a + (j + 1)
        BY <4>1
      <4>3. u[i] = t[j] /\ u[i + 1] = t[j + 1]
        BY <1>4, <4>1, <4>2
      <4>4. t[j][2] = t[j + 1][1]
        BY <1>1, <1>2, <4>1 DEF Joins
      <4>5. QED
        BY <4>3, <4>4
    <3>4. QED
      BY <3>0, <3>1, <3>2, <3>3
  <2>5. QED
    BY <2>1, <2>2, <2>3, <2>4 DEF Joins
<1>10. ASSUME NEW i \in 1 .. Len(s) PROVE s[i] \notin Range(t)
  <2>1. SUFFICES ASSUME s[i] \in Range(t) PROVE FALSE
    OBVIOUS
  <2>2. PICK j \in 1 .. b : s[i] = t[j]
    <3>1. DOMAIN t = 1 .. b
      BY <1>1, <1>2
    <3>2. QED
      BY <2>1, <3>1 DEF Range
  <2>3. i \in 1 .. a
    BY <1>2, <1>10
  <2>4. /\ Rank[s[i][1]] \in Nat /\ Rank[s[i][2]] \in Nat
        /\ Rank[s[i][1]] < Rank[s[i][2]] /\ Rank[s[i][2]] <= Rank[m]
    BY <1>6, <2>3
  <2>5. Rank[m] <= Rank[t[j][1]]
    BY <1>7
  <2>6. QED
    BY <1>5, <2>2, <2>4, <2>5
<1>11. ASSUME NEW i \in 1 .. Len(u), NEW j \in 1 .. Len(u), i < j
       PROVE  Rank[u[i][2]] <= Rank[u[j][1]]
  <2>1. i \in 1 .. (a + b) /\ j \in 1 .. (a + b)
    BY <1>4, <1>11
  <2>2. CASE j \in 1 .. a
    <3>1. i \in 1 .. a /\ u[i] = s[i] /\ u[j] = s[j]
      BY <1>4, <1>11, <2>1, <2>2
    <3>2. QED
      BY <1>2, <1>11, <2>2, <3>1 DEF Walk
  <2>3. CASE i \in 1 .. a /\ ~ (j \in 1 .. a)
    <3>1. PICK l \in 1 .. b : u[j] = t[l]
      BY <1>4, <2>1, <2>3
    <3>2. u[i] = s[i]
      BY <1>4, <2>3
    <3>3. /\ Rank[u[i][2]] \in Nat /\ Rank[u[i][2]] <= Rank[m]
          /\ Rank[u[j][1]] \in Nat /\ Rank[m] <= Rank[u[j][1]]
      BY <1>6, <1>7, <2>3, <3>1, <3>2
    <3>4. QED
      BY <1>5, <3>3
  <2>4. CASE ~ (i \in 1 .. a)
    <3>1. ~ (j \in 1 .. a) /\ i - a < j - a
      BY <1>11, <2>1, <2>4
    <3>2. /\ u[i] = t[i - a] /\ i - a \in 1 .. b
          /\ u[j] = t[j - a] /\ j - a \in 1 .. b
      BY <1>4, <2>1, <2>4, <3>1
    <3>3. QED
      BY <1>2, <3>1, <3>2 DEF Walk
  <2>5. QED
    BY <2>2, <2>3, <2>4
<1>12. QED
  BY <1>1, <1>3, <1>4, <1>8, <1>9, <1>10, <1>11 DEF Walk

LEMMA ConcatAssoc ==
  ASSUME NEW S, NEW s \in Seq(S), NEW t \in Seq(S), NEW u \in Seq(S)
  PROVE  /\ (s \o t) \o u = s \o (t \o u)
         /\ s \o t \in Seq(S) /\ t \o u \in Seq(S)
         /\ s \o << >> = s /\ << >> \o s = s
  OBVIOUS

(* The first alias of a walk that gets somewhere. *)
LEMMA WalkFirst ==
  ASSUME RedirectsEnd, NEW n, NEW s, NEW m, Walk(n, s, m), n # m
  PROVE  /\ n \in DOMAIN Rule /\ Rule[n] # n
         /\ \E t : s = << << n, Rule[n] >> >> \o t /\ Walk(Rule[n], t, m)
<1>1. n \in Name /\ m \in Name /\ s \in Seq(Alias) /\ Joins(n, s, m)
  BY DEF Walk
<1>2. PICK a \in Nat : a = Len(s)
  BY <1>1
<1>3. a # 0 /\ 1 \in 1 .. a
  BY <1>1, <1>2 DEF Joins
<1>4. s[1][1] = n /\ s[a][2] = m
  BY <1>1, <1>2, <1>3 DEF Joins
<1>5. s[1] = << s[1][1], s[1][2] >> /\ s[1][2] \in Name
  BY <1>1, <1>2, <1>3, AliasParts
<1>6. n \in DOMAIN Rule /\ s[1][2] = Rule[n] /\ Rank[n] < Rank[Rule[n]]
  BY <1>2, <1>3, <1>4 DEF Walk
<1>7. Rule[n] # n
  BY <1>1, <1>6, RankFacts
<1>8. PICK t : t = SubSeq(s, 2, a)
  OBVIOUS
<1>9. t \in Seq(Alias) /\ Len(t) = a - 1 /\ \A j \in 1 .. (a - 1) : t[j] = s[j + 1]
  <2>1. t = [j \in 1 .. (a - 1) |-> s[j + 1]]
    BY <1>1, <1>2, <1>3, <1>8
  <2>2. \A j \in 1 .. (a - 1) : j + 1 \in 1 .. a
    OBVIOUS
  <2>3. \A j \in 1 .. (a - 1) : s[j + 1] \in Alias
    BY <1>1, <1>2, <2>2
  <2>4. a - 1 \in Nat /\ t \in [1 .. (a - 1) -> Alias]
    BY <1>3, <2>1, <2>3
  <2>5. QED
    BY <2>1, <2>4
<1>10. s = << s[1] >> \o t
  <2>1. PICK e \in Alias : e = s[1]
    BY <1>1, <1>2, <1>3, AliasParts
  <2>2. PICK f \in Seq(Alias) : f = << e >> /\ Len(f) = 1 /\ f[1] = e
    BY Singleton
  <2>3. PICK u : u = f \o t
    OBVIOUS
  <2>4. /\ u \in Seq(Alias) /\ Len(u) = 1 + (a - 1) /\ u[1] = e
        /\ \A j \in 1 .. (1 + (a - 1)) : ~ (j \in 1 .. 1) => u[j] = t[j - 1] /\ j - 1 \in 1 .. (a - 1)
    BY <1>9, <2>2, <2>3, ConcatElements
  <2>5. Len(u) = a
    BY <2>4
  <2>6. ASSUME NEW j \in 1 .. a PROVE u[j] = s[j]
    <3>1. CASE j = 1
      BY <2>1, <2>4, <3>1
    <3>2. CASE j # 1
      <4>1. j \in 1 .. (1 + (a - 1)) /\ ~ (j \in 1 .. 1) /\ (j - 1) + 1 = j
        BY <2>6, <3>2
      <4>2. u[j] = t[j - 1] /\ j - 1 \in 1 .. (a - 1)
        BY <2>4, <4>1
      <4>3. QED
        BY <1>9, <4>1, <4>2
    <3>3. QED
      BY <3>1, <3>2
  <2>7. u = s
    BY <1>1, <1>2, <2>4, <2>5, <2>6
  <2>8. QED
    BY <2>1, <2>2, <2>3, <2>7
<1>11. Joins(Rule[n], t, m)
  <2>1. CASE a = 1
    <3>1. Len(t) = 0 /\ m = Rule[n]
      BY <1>4, <1>6, <1>9, <2>1
    <3>2. QED
      BY <3>1 DEF Joins
  <2>2. CASE a # 1
    <3>1. a - 1 \in Nat \ {0} /\ 1 \in 1 .. (a - 1) /\ a - 1 \in 1 .. (a - 1)
      BY <1>3, <2>2
    <3>2. t[1] = s[2] /\ t[a - 1] = s[a]
      BY <1>9, <3>1
    <3>3. s[1][2] = s[2][1]
      BY <1>1, <1>2, <3>1 DEF Joins
    <3>4. \A i \in 1 .. ((a - 1) - 1) : t[i][2] = t[i + 1][1]
      <4>1. ASSUME NEW i \in 1 .. ((a - 1) - 1) PROVE t[i][2] = t[i + 1][1]
        <5>1. i \in 1 .. (a - 1) /\ i + 1 \in 1 .. (a - 1)
          BY <3>1, <4>1
        <5>2. t[i] = s[i + 1] /\ t[i + 1] = s[(i + 1) + 1]
          BY <1>9, <5>1
        <5>3. s[i + 1][2] = s[(i + 1) + 1][1]
          BY <1>1, <1>2, <5>1 DEF Joins
        <5>4. QED
          BY <5>2, <5>3
      <4>2. QED
        BY <4>1
    <3>5. QED
      BY <1>4, <1>6, <1>9, <3>1, <3>2, <3>3, <3>4 DEF Joins
  <2>3. QED
    BY <2>1, <2>2
<1>12. ASSUME NEW i \in 1 .. Len(t)
       PROVE  /\ t[i][1] \in DOMAIN Rule /\ t[i][2] = Rule[t[i][1]]
              /\ Rank[Rule[n]] <= Rank[t[i][1]] /\ Rank[t[i][1]] < Rank[t[i][2]]
              /\ Rank[t[i][2]] <= Rank[m]
  <2>1. i \in 1 .. (a - 1) /\ i + 1 \in 1 .. a
    BY <1>9, <1>12
  <2>2. t[i] = s[i + 1]
    BY <1>9, <2>1
  <2>3. QED
    <3>1. /\ t[i][1] \in DOMAIN Rule /\ t[i][2] = Rule[t[i][1]]
          /\ Rank[t[i][1]] < Rank[t[i][2]] /\ Rank[t[i][2]] <= Rank[m]
          /\ Rank[n] <= Rank[t[i][1]]
      BY <1>2, <2>1, <2>2 DEF Walk
    <3>2. Rank[s[1][2]] <= Rank[s[i + 1][1]]
      <4>1. 1 < i + 1
        BY <2>1
      <4>2. QED
        BY <1>2, <1>3, <2>1, <4>1 DEF Walk
    <3>3. QED
      BY <1>6, <2>2, <3>1, <3>2
<1>13. ASSUME NEW i \in 1 .. Len(t), NEW j \in 1 .. Len(t), i < j
       PROVE  Rank[t[i][2]] <= Rank[t[j][1]]
  <2>1. i \in 1 .. (a - 1) /\ j \in 1 .. (a - 1)
    BY <1>9, <1>13
  <2>2. i + 1 \in 1 .. a /\ j + 1 \in 1 .. a /\ i + 1 < j + 1
    BY <1>13, <2>1
  <2>3. t[i] = s[i + 1] /\ t[j] = s[j + 1]
    BY <1>9, <2>1
  <2>4. QED
    BY <1>2, <2>2, <2>3 DEF Walk
<1>14. Rule[n] \in Name
  BY <1>6, PipelineAssumption
<1>15. Walk(Rule[n], t, m)
  BY <1>1, <1>9, <1>11, <1>12, <1>13, <1>14 DEF Walk
<1>16. s = << << n, Rule[n] >> >> \o t
  BY <1>4, <1>5, <1>6, <1>10
<1>17. QED
  BY <1>6, <1>7, <1>15, <1>16

(* Of the aliases u \o v, those in v are there already. *)
LEMMA MissingPrefix ==
  ASSUME NEW S, NEW u \in Seq(S), NEW v \in Seq(S), NEW R,
         \A i \in 1 .. Len(u) : u[i] \notin R,
         \A i \in 1 .. Len(v) : v[i] \in R
  PROVE  Missing(u \o v, R) = u
<1>1. PICK a \in Nat, b \in Nat : a = Len(u) /\ b = Len(v)
  OBVIOUS
<1>2. PICK s \in Seq(S) : s = u \o v
  <2>1. u \o v \in Seq(S)
    BY ConcatElements
  <2>2. QED
    BY <2>1
<1>3. /\ Len(s) = a + b
      /\ \A j \in 1 .. a : s[j] = u[j]
      /\ \A j \in 1 .. (a + b) : ~ (j \in 1 .. a) => s[j] = v[j - a] /\ j - a \in 1 .. b
  BY <1>1, <1>2, ConcatElements
<1>4. PICK n \in Nat : n = a + b
  OBVIOUS
<1>5. PICK f : f = [i \in 0 .. Len(s) |-> MissingAt(f, s, R, i)] /\ Missing(s, R) = f[Len(s)]
  BY MissingRounds
<1>6. f[0] = << >> /\ \A i \in 1 .. n : f[i] = IF s[i] \in R THEN f[i - 1] ELSE Append(f[i - 1], s[i])
  <2>1. \A i \in 0 .. n : f[i] = MissingAt(f, s, R, i)
    BY <1>3, <1>4, <1>5
  <2>2. 0 \in 0 .. n /\ \A i \in 1 .. n : i \in 0 .. n /\ i # 0
    OBVIOUS
  <2>3. QED
    BY <2>1, <2>2 DEF MissingAt
<1>7. PICK P : P = {i \in 0 .. n : (i <= a => f[i] = SubSeq(u, 1, i)) /\ (~ (i <= a) => f[i] = u)}
  OBVIOUS
<1>8. SubSeq(u, 1, a) = u /\ SubSeq(u, 1, 0) = << >>
  BY <1>1
<1>9. 0 \in P
  <2>1. f[0] = SubSeq(u, 1, 0) /\ 0 <= a /\ 0 \in 0 .. n
    BY <1>6, <1>8
  <2>2. QED
    BY <1>7, <2>1
<1>10. ASSUME NEW i \in 1 .. n, i - 1 \in P PROVE i \in P
  <2>1. CASE i <= a
    <3>1. i \in 1 .. a /\ i - 1 <= a
      BY <1>10, <2>1
    <3>2. s[i] = u[i] /\ u[i] \notin R
      BY <1>1, <1>3, <3>1
    <3>3. f[i - 1] = SubSeq(u, 1, i - 1)
      BY <1>7, <1>10, <3>1
    <3>4. f[i] = Append(SubSeq(u, 1, i - 1), u[i])
      BY <1>6, <1>10, <3>2, <3>3
    <3>5. Append(SubSeq(u, 1, i - 1), u[i]) = SubSeq(u, 1, i)
      BY <1>1, <3>1
    <3>6. f[i] = SubSeq(u, 1, i) /\ i \in 0 .. n
      BY <3>4, <3>5
    <3>7. QED
      BY <1>7, <2>1, <3>6
  <2>2. CASE ~ (i <= a)
    <3>1. ~ (i \in 1 .. a) /\ i \in 1 .. (a + b) /\ (i - 1 <= a => i - 1 = a)
      BY <1>4, <1>10, <2>2
    <3>2. s[i] \in R
      BY <1>1, <1>3, <3>1
    <3>3. f[i] = f[i - 1]
      BY <1>6, <1>10, <3>2
    <3>4. f[i - 1] = u
      BY <1>7, <1>8, <1>10, <3>1
    <3>5. QED
      BY <1>7, <2>2, <3>3, <3>4
  <2>3. QED
    BY <2>1, <2>2
<1>11. n \in P
  <2>1. \A i \in 0 .. n : i \in P
    BY <1>9, <1>10, UpTo
  <2>2. QED
    BY <2>1
<1>12. f[n] = u
  BY <1>4, <1>7, <1>8, <1>11
<1>13. QED
  BY <1>2, <1>3, <1>4, <1>5, <1>12

(* What response_for_query makes of an answer: the aliases that lead to it *)
(* are put in front of those it has, none twice.                           *)
LEMMA MissingWalk ==
  ASSUME RedirectsEnd, NEW n, NEW u, NEW m, NEW v, NEW q, NEW t, NEW z,
         Walk(n, u, m), Walk(m, v, q), Walk(q, t, z)
  PROVE  /\ Missing(u \o v, Range(v \o t)) = u
         /\ Walk(n, u \o (v \o t), z)
<1>1. u \in Seq(Alias) /\ v \in Seq(Alias) /\ t \in Seq(Alias)
  BY DEF Walk
<1>2. PICK r : r = v \o t
  OBVIOUS
<1>3. Walk(m, r, z) /\ r \in Seq(Alias)
  <2>1. Walk(m, r, z)
    BY <1>2, WalkConcat
  <2>2. QED
    BY <2>1 DEF Walk
<1>4. Walk(n, u \o r, z) /\ \A i \in 1 .. Len(u) : u[i] \notin Range(r)
  BY <1>3, WalkConcat
<1>5. \A i \in 1 .. Len(v) : v[i] \in Range(r)
  <2>1. ASSUME NEW i \in 1 .. Len(v) PROVE v[i] \in Range(r)
    <3>1. Len(r) = Len(v) + Len(t) /\ r[i] = v[i]
      BY <1>1, <1>2, <2>1, ConcatElements
    <3>2. i \in DOMAIN r
      <4>1. PICK a \in Nat, b \in Nat : a = Len(v) /\ b = Len(t)
        BY <1>1
      <4>2. i \in 1 .. (a + b)
        BY <2>1, <4>1
      <4>3. QED
        BY <1>3, <3>1, <4>1, <4>2
    <3>3. QED
      BY <3>1, <3>2 DEF Range
  <2>2. QED
    BY <2>1
<1>6. Missing(u \o v, Range(r)) = u
  BY <1>1, <1>4, <1>5, MissingPrefix
<1>7. QED
  BY <1>2, <1>4, <1>6

-----------------------------------------------------------------------------
(* Configurations whose redirects settle. *)

Settled == \A P \in Programs : RedirectsSettle(P)

(* The steps of "main" that come before its own answers. *)
Limit(P) == CHOOSE n \in 0 .. Len(P["main"]) : SettledAfter(P, n)

Hop(P, p, n) == IF P["main"][p].do = "redirect" THEN Target(n) ELSE n

(* d[p][n]: what the redirects from step p up to the limit make of n. *)
Brings(P, d) ==
  /\ d \in [Nat -> [Name -> Name]]
  /\ \A p \in Nat, n \in Name :
       /\ Rank[n] <= Rank[d[p][n]]
       /\ p > Limit(P) => d[p][n] = n
       /\ p \in 1 .. Limit(P) => d[p][n] = d[p + 1][Hop(P, p, n)]

Dest(P) == CHOOSE d : Brings(P, d)

(* The name that what cache c holds under a question for n has passed. *)
Goal(P, c, n) ==
  IF \E i \in 1 .. Limit(P) : P["main"][i].do = c
    THEN Dest(P)[(CHOOSE i \in 1 .. Limit(P) : P["main"][i].do = c) + 1][n]
    ELSE n

LEMMA ProgramFacts ==
  ASSUME NEW P \in Programs
  PROVE  /\ Len(P["main"]) \in Nat /\ Len(P["sub"]) \in Nat
         /\ \A t \in Tag : \A i \in 1 .. Len(P[t]) : P[t][i].when \in Matcher /\ P[t][i].do \in Exec
<1>1. PICK Step0 : Step0 = [when : Matcher, do : Exec]
  OBVIOUS
<1>2. P \in [Tag -> Seq(Step0)]
  BY <1>1, PipelineAssumption
<1>3. \A t \in Tag : P[t] \in Seq(Step0)
  BY <1>2
<1>4. \A t \in Tag : Len(P[t]) \in Nat /\ \A i \in 1 .. Len(P[t]) : P[t][i] \in Step0
  BY <1>3
<1>5. QED
  BY <1>1, <1>4 DEF Tag

LEMMA LimitFacts ==
  ASSUME Settled, NEW P \in Programs
  PROVE  /\ Limit(P) \in Nat /\ Limit(P) <= Len(P["main"]) /\ Len(P["main"]) \in Nat
         /\ SettledAfter(P, Limit(P))
<1>1. Limit(P) \in 0 .. Len(P["main"]) /\ SettledAfter(P, Limit(P))
  BY DEF Settled, RedirectsSettle, Limit
<1>2. QED
  BY <1>1, ProgramFacts

LEMMA HopFacts ==
  ASSUME RedirectsEnd, NEW P, NEW p, NEW n \in Name
  PROVE  /\ Hop(P, p, n) \in Name /\ Rank[n] \in Nat /\ Rank[Hop(P, p, n)] \in Nat
         /\ Rank[n] <= Rank[Hop(P, p, n)]
<1>1. Target(n) \in Name /\ Rank[n] \in Nat /\ Rank[Target(n)] \in Nat
  BY TargetName, RankFacts
<1>2. Rank[n] <= Rank[Target(n)]
  <2>1. CASE n \in DOMAIN Rule /\ Rule[n] # n
    BY <1>1, <2>1, RankFacts DEF Target
  <2>2. CASE ~ (n \in DOMAIN Rule /\ Rule[n] # n)
    <3>1. Target(n) = n
      BY <2>2 DEF Target
    <3>2. QED
      BY <1>1, <3>1
  <2>3. QED
    BY <2>1, <2>2
<1>3. QED
  BY <1>1, <1>2 DEF Hop

LEMMA DestFacts ==
  ASSUME Settled, RedirectsEnd, NEW P \in Programs
  PROVE  Brings(P, Dest(P))
<1>1. PICK L \in Nat : L = Limit(P)
  BY LimitFacts
<1>2. PICK K : K = {k \in 0 .. L : \E d \in [Nat -> [Name -> Name]] : \A p \in Nat, n \in Name :
                       /\ Rank[n] <= Rank[d[p][n]]
                       /\ p > L => d[p][n] = n
                       /\ p \in 1 .. L /\ p > L - k => d[p][n] = d[p + 1][Hop(P, p, n)]}
  OBVIOUS
<1>3. 0 \in K
  <2>1. PICK d : d = [p \in Nat |-> [n \in Name |-> n]]
    OBVIOUS
  <2>2. d \in [Nat -> [Name -> Name]] /\ \A p \in Nat, n \in Name : d[p][n] = n
    BY <2>1
  <2>3. \A p \in Nat, n \in Name :
          /\ Rank[n] <= Rank[d[p][n]]
          /\ p > L => d[p][n] = n
          /\ p \in 1 .. L /\ p > L - 0 => d[p][n] = d[p + 1][Hop(P, p, n)]
    <3>1. \A n \in Name : Rank[n] <= Rank[n]
      BY RankFacts
    <3>2. \A p \in Nat : ~ (p \in 1 .. L /\ p > L - 0)
      OBVIOUS
    <3>3. QED
      BY <2>2, <3>1, <3>2
  <2>4. 0 \in 0 .. L
    OBVIOUS
  <2>5. QED
    BY <1>2, <2>2, <2>3, <2>4
<1>4. ASSUME NEW k \in 1 .. L, k - 1 \in K PROVE k \in K
  <2>1. PICK d \in [Nat -> [Name -> Name]] : \A p \in Nat, n \in Name :
          /\ Rank[n] <= Rank[d[p][n]]
          /\ p > L => d[p][n] = n
          /\ p \in 1 .. L /\ p > L - (k - 1) => d[p][n] = d[p + 1][Hop(P, p, n)]
    BY <1>2, <1>4
  <2>2. PICK x \in Nat : x = (L - k) + 1 /\ x \in 1 .. L
    BY <1>4
  <2>3. PICK e : e = [p \in Nat |-> IF p = x THEN [n \in Name |-> d[x + 1][Hop(P, x, n)]] ELSE d[p]]
    OBVIOUS
  <2>4. \A n \in Name : d[x + 1][Hop(P, x, n)] \in Name
    BY HopFacts
  <2>5. e \in [Nat -> [Name -> Name]]
    BY <2>3, <2>4
  <2>6. ASSUME NEW p \in Nat, NEW n \in Name
        PROVE  /\ Rank[n] <= Rank[e[p][n]]
               /\ p > L => e[p][n] = n
               /\ p \in 1 .. L /\ p > L - k => e[p][n] = e[p + 1][Hop(P, p, n)]
    <3>1. CASE p = x
      <4>1. e[p][n] = d[x + 1][Hop(P, x, n)]
        BY <2>3, <3>1
      <4>2. e[p + 1] = d[x + 1]
        BY <2>3, <3>1
      <4>3. PICK m \in Name : m = Hop(P, x, n) /\ Rank[m] \in Nat /\ Rank[n] \in Nat /\ Rank[n] <= Rank[m]
        BY HopFacts
      <4>4. d[x + 1][m] \in Name /\ Rank[m] <= Rank[d[x + 1][m]]
        BY <2>1
      <4>5. Rank[d[x + 1][m]] \in Nat
        BY <4>4, RankFacts
      <4>6. Rank[n] <= Rank[e[p][n]]
        BY <4>1, <4>3, <4>4, <4>5
      <4>7. ~ (p > L)
        BY <2>2, <3>1
      <4>8. QED
        BY <3>1, <4>1, <4>2, <4>6, <4>7
    <3>2. CASE p # x
      <4>1. e[p] = d[p]
        BY <2>3, <3>2
      <4>2. ASSUME p \in 1 .. L, p > L - k PROVE e[p][n] = e[p + 1][Hop(P, p, n)]
        <5>1. p > L - (k - 1) /\ p + 1 # x /\ p + 1 \in Nat
          BY <2>2, <3>2, <4>2
        <5>2. e[p + 1] = d[p + 1]
          BY <2>3, <5>1
        <5>3. d[p][n] = d[p + 1][Hop(P, p, n)]
          BY <2>1, <4>2, <5>1
        <5>4. QED
          BY <4>1, <5>2, <5>3
      <4>3. QED
        BY <2>1, <4>1, <4>2
    <3>3. QED
      BY <3>1, <3>2
  <2>7. k \in 0 .. L
    BY <1>4
  <2>8. QED
    BY <1>2, <2>5, <2>6, <2>7
<1>5. L \in K
  <2>1. \A k \in 0 .. L : k \in K
    BY <1>3, <1>4, UpTo
  <2>2. QED
    BY <2>1
<1>6. PICK d \in [Nat -> [Name -> Name]] : \A p \in Nat, n \in Name :
        /\ Rank[n] <= Rank[d[p][n]]
        /\ p > L => d[p][n] = n
        /\ p \in 1 .. L /\ p > L - L => d[p][n] = d[p + 1][Hop(P, p, n)]
  BY <1>2, <1>5
<1>7. \A p \in 1 .. L : p > L - L
  OBVIOUS
<1>8. Brings(P, d)
  BY <1>1, <1>6, <1>7 DEF Brings
<1>9. QED
  BY <1>8 DEF Dest

LEMMA DestName ==
  ASSUME Settled, RedirectsEnd, NEW P \in Programs, NEW p \in Nat, NEW n \in Name
  PROVE  /\ Dest(P)[p][n] \in Name /\ Rank[n] <= Rank[Dest(P)[p][n]]
         /\ p > Limit(P) => Dest(P)[p][n] = n
         /\ p \in 1 .. Limit(P) => Dest(P)[p][n] = Dest(P)[p + 1][Hop(P, p, n)]
<1>1. Brings(P, Dest(P))
  BY DestFacts
<1>2. QED
  BY <1>1 DEF Brings

(* A cache that is used before the limit is used nowhere else. *)
LEMMA GoalFacts ==
  ASSUME Settled, RedirectsEnd, NEW P \in Programs, NEW c \in Cache, NEW n \in Name
  PROVE  /\ \A p \in 1 .. Limit(P) : P["main"][p].do = c => Goal(P, c, n) = Dest(P)[p + 1][n]
         /\ \A p \in 1 .. Len(P["main"]) : P["main"][p].do = c /\ p > Limit(P) => Goal(P, c, n) = n
         /\ \A p \in 1 .. Len(P["sub"]) : P["sub"][p].do = c => Goal(P, c, n) = n
<1>1. PICK L \in Nat, M \in Nat : L = Limit(P) /\ M = Len(P["main"]) /\ L <= M
  BY LimitFacts
<1>2. ASSUME NEW i \in 1 .. L, P["main"][i].do = c
      PROVE  /\ \A j \in 1 .. M : P["main"][j].do = c => j = i
             /\ \A j \in 1 .. Len(P["sub"]) : P["sub"][j].do # c
  <2>1. SettledAfter(P, L)
    BY <1>1, LimitFacts
  <2>2. QED
    BY <1>1, <1>2, <2>1 DEF SettledAfter
<1>3. ASSUME NEW p \in 1 .. L, P["main"][p].do = c PROVE Goal(P, c, n) = Dest(P)[p + 1][n]
  <2>1. \A i \in 1 .. L : P["main"][i].do = c => i = p
    <3>1. \A i \in 1 .. L : i \in 1 .. M
      BY <1>1
    <3>2. QED
      BY <1>2, <1>3, <3>1
  <2>2. (CHOOSE i \in 1 .. L : P["main"][i].do = c) = p
    BY <1>3, <2>1
  <2>3. QED
    BY <1>1, <1>3, <2>2 DEF Goal
<1>4. ASSUME NEW p \in 1 .. M, P["main"][p].do = c, p > L PROVE Goal(P, c, n) = n
  <2>1. ~ \E i \in 1 .. L : P["main"][i].do = c
    <3>1. SUFFICES ASSUME NEW i \in 1 .. L, P["main"][i].do = c PROVE FALSE
      OBVIOUS
    <3>2. p = i
      BY <1>2, <1>4, <3>1
    <3>3. QED
      BY <1>4, <3>2
  <2>2. QED
    BY <1>1, <2>1 DEF Goal
<1>5. ASSUME NEW p \in 1 .. Len(P["sub"]), P["sub"][p].do = c PROVE Goal(P, c, n) = n
  <2>1. ~ \E i \in 1 .. L : P["main"][i].do = c
    BY <1>2, <1>5
  <2>2. QED
    BY <1>1, <2>1 DEF Goal
<1>6. QED
  BY <1>1, <1>3, <1>4, <1>5

LEMMA ViaFacts ==
  ASSUME RedirectsEnd, NEW n, NEW s, NEW z
  PROVE  /\ Walk(n, s, z) => Via(n, s, n, z) /\ Via(n, s, z, z)
         /\ \A m : Via(n, s, m, z) => Walk(n, s, z)
         /\ \A m, t, y : Via(n, s, m, z) /\ Walk(z, t, y) => Via(n, s \o t, m, y)
<1>1. ASSUME Walk(n, s, z) PROVE Via(n, s, n, z) /\ Via(n, s, z, z)
  <2>1. n \in Name /\ z \in Name /\ s \in Seq(Alias)
    BY <1>1 DEF Walk
  <2>2. Walk(n, << >>, n) /\ Walk(z, << >>, z)
    BY <2>1, WalkNone
  <2>3. s = << >> \o s /\ s = s \o << >>
    BY <2>1, ConcatAssoc
  <2>4. QED
    BY <1>1, <2>2, <2>3 DEF Via
<1>2. ASSUME NEW m, Via(n, s, m, z) PROVE Walk(n, s, z)
  BY <1>2, WalkConcat DEF Via
<1>3. ASSUME NEW m, NEW t, NEW y, Via(n, s, m, z), Walk(z, t, y) PROVE Via(n, s \o t, m, y)
  <2>1. PICK u, v : s = u \o v /\ Walk(n, u, m) /\ Walk(m, v, z)
    BY <1>3 DEF Via
  <2>2. Walk(m, v \o t, y)
    BY <1>3, <2>1, WalkConcat
  <2>3. u \in Seq(Alias) /\ v \in Seq(Alias) /\ t \in Seq(Alias)
    BY <1>3, <2>1 DEF Walk
  <2>4. s \o t = u \o (v \o t)
    BY <2>1, <2>3, ConcatAssoc
  <2>5. QED
    BY <2>1, <2>2, <2>4 DEF Via
<1>4. QED
  BY <1>1, <1>2, <1>3

-----------------------------------------------------------------------------
(* The parts of the invariant, for configuration P, the position p of      *)
(* "main" and the context c.                                               *)

(* The rewrites lead from the client's question to the query as it is now. *)
TrailOK(c) == Walk(c.original.name, c.rewrites, c.query.name)

(* So does the response go on from where it was found, along the rewrites  *)
(* since then, past all that are still to come before the limit.           *)
FoundOK(P, p, c) ==
  c.resp.rcode # "absent" =>
    \E u, m, v, t :
      /\ c.rewrites = u \o v /\ c.resp.chain = v \o t
      /\ Walk(c.original.name, u, m) /\ Walk(m, v, c.query.name)
      /\ Via(c.query.name, t, Dest(P)[p][c.query.name], c.resp.own)

(* A response no cache served came after the limit, to the query as it is. *)
OwnOK(P, p, c) ==
  c.resp.rcode # "absent" /\ ~ c.served =>
    p > Limit(P) /\ Walk(c.query.name, c.resp.chain, c.resp.own)

(* The rewrites since lookup w lead from its key to the query, past the    *)
(* name its cache is to pass.                                              *)
LookupOK(P, p, c, w) ==
  /\ w.start <= Len(c.rewrites)
  /\ p <= Limit(P) => /\ Walk(w.key.name, Since(c.rewrites, w.start), c.query.name)
                      /\ Goal(P, w.cache, w.key.name) = Dest(P)[p][c.query.name]
  /\ p > Limit(P) => Via(w.key.name, Since(c.rewrites, w.start),
                         Goal(P, w.cache, w.key.name), c.query.name)

EntryOK(P, c, k, r) == Via(k.name, r.chain, Goal(P, c, k.name), r.own)

ReplyOK(c) ==
  c.resp.rcode \in {"ok", "nx"} =>
    c.resp.name = c.original.name /\ Walk(c.original.name, c.resp.chain, c.resp.own)

(* "main" goes from step p to step q past nothing that redirects n. *)
Moves(P, p, q, n) ==
  /\ p <= Limit(P) => q = p + 1 /\ Hop(P, p, n) = n
  /\ p > Limit(P) => q > Limit(P)

LEMMA CarryDest ==
  ASSUME Settled, RedirectsEnd, NEW P \in Programs, NEW p \in Nat \ {0}, NEW q \in Nat \ {0},
         NEW n \in Name, Moves(P, p, q, n)
  PROVE  Dest(P)[q][n] = Dest(P)[p][n] /\ (q <= Limit(P) => p <= Limit(P))
<1>1. Limit(P) \in Nat
  BY LimitFacts
<1>2. CASE p <= Limit(P)
  <2>1. p \in 1 .. Limit(P) /\ q = p + 1 /\ Hop(P, p, n) = n
    BY <1>1, <1>2 DEF Moves
  <2>2. QED
    BY <1>2, <2>1, DestName
<1>3. CASE p > Limit(P)
  <2>1. q > Limit(P)
    BY <1>3 DEF Moves
  <2>2. QED
    BY <1>1, <1>3, <2>1, DestName
<1>4. QED
  BY <1>1, <1>2, <1>3

LEMMA Carry ==
  ASSUME Settled, RedirectsEnd, NEW P \in Programs, NEW p \in Nat \ {0}, NEW q \in Nat \ {0},
         NEW c \in Context, NEW d \in Context, Moves(P, p, q, c.query.name),
         d.query.name = c.query.name, d.original = c.original, d.rewrites = c.rewrites
  PROVE  /\ TrailOK(c) => TrailOK(d)
         /\ \A w \in Write : LookupOK(P, p, c, w) => LookupOK(P, q, d, w)
         /\ d.resp = c.resp /\ FoundOK(P, p, c) => FoundOK(P, q, d)
         /\ d.resp = c.resp /\ d.served = c.served /\ OwnOK(P, p, c) => OwnOK(P, q, d)
<1>1. PICK n \in Name : n = c.query.name /\ n = d.query.name
  BY ContextFields, QueryFields
<1>2. Limit(P) \in Nat
  BY LimitFacts
<1>3. Dest(P)[q][n] = Dest(P)[p][n] /\ (q <= Limit(P) => p <= Limit(P))
  BY <1>1, CarryDest
<1>4. TrailOK(c) => TrailOK(d)
  BY DEF TrailOK
<1>5. ASSUME NEW w \in Write, LookupOK(P, p, c, w) PROVE LookupOK(P, q, d, w)
  <2>1. CASE q <= Limit(P)
    BY <1>1, <1>2, <1>3, <1>5, <2>1 DEF LookupOK
  <2>2. CASE q > Limit(P) /\ p <= Limit(P)
    <3>1. Walk(w.key.name, Since(c.rewrites, w.start), n)
      BY <1>1, <1>5, <2>2 DEF LookupOK
    <3>2. Goal(P, w.cache, w.key.name) = Dest(P)[p][n]
      BY <1>1, <1>5, <2>2 DEF LookupOK
    <3>3. Dest(P)[q][n] = n
      BY <2>2, DestName
    <3>4. Via(w.key.name, Since(c.rewrites, w.start), n, n)
      BY <3>1, ViaFacts
    <3>5. w.start <= Len(c.rewrites)
      BY <1>5 DEF LookupOK
    <3>6. ~ (q <= Limit(P))
      BY <1>2, <2>2
    <3>7. Goal(P, w.cache, w.key.name) = n
      BY <1>3, <3>2, <3>3
    <3>8. QED
      BY <1>1, <3>4, <3>5, <3>6, <3>7 DEF LookupOK
  <2>3. CASE q > Limit(P) /\ p > Limit(P)
    <3>1. ~ (q <= Limit(P))
      BY <1>2, <2>3
    <3>2. QED
      BY <1>1, <1>5, <2>3, <3>1 DEF LookupOK
  <2>4. QED
    BY <1>2, <2>1, <2>2, <2>3
<1>6. ASSUME d.resp = c.resp, FoundOK(P, p, c) PROVE FoundOK(P, q, d)
  <2>1. SUFFICES ASSUME d.resp.rcode # "absent"
                 PROVE  \E u, m, v, t :
                          /\ d.rewrites = u \o v /\ d.resp.chain = v \o t
                          /\ Walk(d.original.name, u, m) /\ Walk(m, v, n)
                          /\ Via(n, t, Dest(P)[q][n], d.resp.own)
    BY <1>1 DEF FoundOK
  <2>2. PICK u, m, v, t :
          /\ c.rewrites = u \o v /\ c.resp.chain = v \o t
          /\ Walk(c.original.name, u, m) /\ Walk(m, v, n)
          /\ Via(n, t, Dest(P)[p][n], c.resp.own)
    BY <1>1, <1>6, <2>1 DEF FoundOK
  <2>3. QED
    BY <1>3, <1>6, <2>2
<1>7. d.resp = c.resp /\ d.served = c.served /\ OwnOK(P, p, c) => OwnOK(P, q, d)
  BY <1>2 DEF OwnOK, Moves
<1>8. QED
  BY <1>4, <1>5, <1>6, <1>7

(* A response made for the query as it is, after the limit, or none. *)
LEMMA MadeOK ==
  ASSUME Settled, RedirectsEnd, NEW P \in Programs, NEW p \in Nat \ {0}, NEW c \in Context,
         TrailOK(c),
         c.resp.rcode # "absent" => /\ p > Limit(P)
                                    /\ c.resp.chain = << >> /\ c.resp.own = c.query.name
  PROVE  FoundOK(P, p, c) /\ OwnOK(P, p, c)
<1>1. PICK n \in Name : n = c.query.name
  BY ContextFields, QueryFields
<1>2. CASE c.resp.rcode = "absent"
  BY <1>2 DEF FoundOK, OwnOK
<1>3. CASE c.resp.rcode # "absent"
  <2>1. Walk(n, << >>, n)
    BY WalkNone
  <2>2. Dest(P)[p][n] = n
    BY <1>3, DestName
  <2>3. Via(n, << >>, n, n)
    BY <2>1, ViaFacts
  <2>4. c.rewrites \in Seq(Alias) /\ c.rewrites = c.rewrites \o << >>
    BY ContextFields, ConcatAssoc
  <2>5. << >> = << >> \o << >>
    BY NoAliases, ConcatAssoc
  <2>6. OwnOK(P, p, c)
    BY <1>1, <1>3, <2>1 DEF OwnOK
  <2>7. FoundOK(P, p, c)
    <3>1. PICK e : e = << >>
      OBVIOUS
    <3>2. /\ c.rewrites = c.rewrites \o e /\ c.resp.chain = e \o e
          /\ Walk(c.original.name, c.rewrites, n) /\ Walk(n, e, n)
          /\ Via(n, e, Dest(P)[p][n], c.resp.own)
      BY <1>1, <1>3, <2>1, <2>2, <2>3, <2>4, <2>5, <3>1 DEF TrailOK
    <3>3. QED
      BY <1>1, <3>2 DEF FoundOK
  <2>8. QED
    BY <2>6, <2>7
<1>4. QED
  BY <1>2, <1>3

LEMMA SeqEqual ==
  ASSUME NEW S, NEW s \in Seq(S), NEW t \in Seq(S), NEW n \in Nat, Len(s) = n, Len(t) = n,
         \A i \in 1 .. n : s[i] = t[i]
  PROVE  s = t
  OBVIOUS

LEMMA SinceAppend ==
  ASSUME NEW R \in Seq(Alias), NEW e \in Alias
  PROVE  /\ Append(R, e) = R \o << e >> /\ Append(R, e) \in Seq(Alias)
         /\ Since(R, 0) = R /\ Since(R, Len(R)) = << >>
         /\ \A n \in Nat : n <= Len(R) => /\ n <= Len(Append(R, e))
                                          /\ Since(Append(R, e), n) = Since(R, n) \o << e >>
<1>1. PICK a \in Nat : a = Len(R)
  OBVIOUS
<1>2. PICK f \in Seq(Alias) : f = << e >> /\ Len(f) = 1 /\ f[1] = e
  BY Singleton
<1>3. PICK Q \in Seq(Alias) : /\ Q = Append(R, e) /\ Len(Q) = a + 1 /\ Q[a + 1] = e
                              /\ \A j \in 1 .. a : Q[j] = R[j]
  <2>1. PICK Q : Q = Append(R, e)
    OBVIOUS
  <2>2. Q \in Seq(Alias) /\ Len(Q) = a + 1 /\ Q[a + 1] = e /\ \A j \in 1 .. a : Q[j] = R[j]
    BY <1>1, <2>1, AppendElements
  <2>3. QED
    BY <2>1, <2>2
<1>4. Append(R, e) = R \o << e >>
  OBVIOUS
<1>5. Since(R, 0) = R /\ Since(R, Len(R)) = << >>
  BY <1>1 DEF Since
<1>6. ASSUME NEW n \in Nat, n <= a PROVE n <= Len(Q) /\ Since(Q, n) = Since(R, n) \o f
  <2>1. n <= Len(Q)
    BY <1>3, <1>6
  <2>2. PICK s \in Seq(Alias) : /\ s = Since(Q, n) /\ Len(s) = (a + 1) - n
                                /\ \A i \in 1 .. ((a + 1) - n) : s[i] = Q[n + i]
    <3>1. PICK s : s = Since(Q, n)
      OBVIOUS
    <3>2. s \in Seq(Alias) /\ Len(s) = Len(Q) - n /\ \A i \in 1 .. (Len(Q) - n) : s[i] = Q[n + i]
      BY <2>1, <3>1, SinceFacts
    <3>3. QED
      BY <1>3, <3>1, <3>2
  <2>3. PICK t \in Seq(Alias) : /\ t = Since(R, n) /\ Len(t) = a - n
                                /\ \A i \in 1 .. (a - n) : t[i] = R[n + i]
    BY <1>1, <1>6, SinceFacts
  <2>4. PICK b \in Nat : b = a - n
    BY <1>6
  <2>5. PICK u \in Seq(Alias) : /\ u = t \o f /\ Len(u) = b + 1 /\ u[b + 1] = e
                                /\ \A j \in 1 .. b : u[j] = t[j]
    <3>1. PICK u : u = t \o f
      OBVIOUS
    <3>2. /\ u \in Seq(Alias) /\ Len(u) = Len(t) + Len(f)
          /\ \A j \in 1 .. Len(t) : u[j] = t[j]
          /\ \A j \in 1 .. Len(f) : u[Len(t) + j] = f[j]
      BY <3>1, ConcatElements
    <3>3. 1 \in 1 .. 1 /\ Len(t) = b /\ Len(f) = 1
      BY <1>2, <2>3, <2>4
    <3>4. u[b + 1] = e
      BY <1>2, <3>2, <3>3
    <3>5. Len(u) = b + 1 /\ \A j \in 1 .. b : u[j] = t[j]
      BY <3>2, <3>3
    <3>6. QED
      BY <3>1, <3>2, <3>4, <3>5
  <2>6. Len(s) = b + 1
    BY <2>2, <2>4
  <2>7. ASSUME NEW i \in 1 .. (b + 1) PROVE s[i] = u[i]
    <3>1. CASE i = b + 1
      <4>1. n + i = a + 1 /\ i \in 1 .. ((a + 1) - n)
        BY <2>4, <2>7, <3>1
      <4>2. s[i] = Q[a + 1]
        BY <2>2, <4>1
      <4>3. QED
        BY <1>3, <2>5, <3>1, <4>2
    <3>2. CASE i # b + 1
      <4>1. i \in 1 .. b /\ i \in 1 .. (a - n) /\ i \in 1 .. ((a + 1) - n) /\ n + i \in 1 .. a
        BY <2>4, <2>7, <3>2
      <4>2. s[i] = Q[n + i] /\ Q[n + i] = R[n + i]
        BY <1>3, <2>2, <4>1
      <4>3. u[i] = R[n + i]
        BY <2>3, <2>5, <4>1
      <4>4. QED
        BY <4>2, <4>3
    <3>3. QED
      BY <3>1, <3>2
  <2>8. s = u
    BY <2>5, <2>6, <2>7, SeqEqual
  <2>9. QED
    BY <2>1, <2>2, <2>3, <2>5, <2>8
<1>7. QED
  BY <1>1, <1>2, <1>3, <1>4, <1>5, <1>6

(* A redirect. *)
LEMMA RedirectTrail ==
  ASSUME RedirectsEnd, NEW c \in Context, TrailOK(c),
         c.query.name \in DOMAIN Rule, Target(c.query.name) # c.query.name
  PROVE  LET d == Redirected(c)
             n == c.query.name
             m == Target(n)
         IN  /\ d \in Context /\ d.query.name = m /\ m \in Name /\ Rank[n] < Rank[m]
             /\ Walk(n, << << n, m >> >>, m) /\ << n, m >> \in Alias
             /\ d.rewrites = c.rewrites \o << << n, m >> >>
             /\ TrailOK(d)
             /\ \A w \in Write : w.start <= Len(c.rewrites) =>
                  /\ w.start <= Len(d.rewrites)
                  /\ Since(d.rewrites, w.start) = Since(c.rewrites, w.start) \o << << n, m >> >>
<1>1. PICK n \in Name, m \in Name : n = c.query.name /\ m = Target(n) /\ m = Rule[n] /\ n \in DOMAIN Rule
  <2>1. c.query.name \in Name
    BY ContextFields, QueryFields
  <2>2. QED
    BY <2>1, TargetName DEF Target
<1>2. m # n /\ Rank[n] < Rank[m]
  BY <1>1, RankFacts
<1>3. PICK e \in Alias : e = << n, m >>
  <2>1. << n, m >> \in Alias
    BY DEF Alias
  <2>2. QED
    BY <2>1
<1>4. Walk(n, << e >>, m)
  BY <1>1, <1>2, <1>3, WalkOne
<1>5. PICK R \in Seq(Alias) : R = c.rewrites
  BY ContextFields
<1>6. PICK d \in Context : /\ d = Redirected(c) /\ d.query.name = m /\ d.original = c.original
                           /\ d.rewrites = Append(R, e)
  <2>1. PICK d : d = Redirected(c)
    OBVIOUS
  <2>2. /\ d \in Context /\ d.query.name = Target(c.query.name) /\ d.original = c.original
        /\ d.rewrites = Append(c.rewrites, << c.query.name, Target(c.query.name) >>)
    BY <2>1, RedirectedFacts
  <2>3. QED
    BY <1>1, <1>3, <1>5, <2>1, <2>2
<1>7. d.rewrites = R \o << e >>
  BY <1>6, SinceAppend
<1>8. Walk(c.original.name, R \o << e >>, m)
  <2>1. Walk(c.original.name, R, n)
    BY <1>1, <1>5 DEF TrailOK
  <2>2. QED
    BY <1>4, <2>1, WalkConcat
<1>9. TrailOK(d)
  BY <1>6, <1>7, <1>8 DEF TrailOK
<1>10. ASSUME NEW w \in Write, w.start <= Len(R)
       PROVE  /\ w.start <= Len(d.rewrites)
              /\ Since(d.rewrites, w.start) = Since(R, w.start) \o << e >>
  <2>1. w.start \in Nat
    BY DEF Write
  <2>2. QED
    BY <1>6, <1>10, <2>1, SinceAppend
<1>11. QED
  BY <1>1, <1>2, <1>3, <1>4, <1>5, <1>6, <1>7, <1>9, <1>10

LEMMA RedirectLate ==
  ASSUME Settled, RedirectsEnd, NEW P \in Programs, NEW p \in Nat \ {0}, NEW q \in Nat \ {0},
         p > Limit(P), q > Limit(P), NEW c \in Context, TrailOK(c), c.resp.rcode = "absent",
         c.query.name \in DOMAIN Rule, Target(c.query.name) # c.query.name
  PROVE  LET d == Redirected(c)
         IN  /\ TrailOK(d) /\ FoundOK(P, q, d) /\ OwnOK(P, q, d)
             /\ \A w \in Write : LookupOK(P, p, c, w) => LookupOK(P, q, d, w)
<1>1. PICK d, n, m, f :
        /\ d \in Context /\ n \in Name /\ m \in Name
        /\ d = Redirected(c) /\ n = c.query.name /\ m = d.query.name
        /\ Walk(n, f, m) /\ TrailOK(d)
        /\ \A w \in Write : w.start <= Len(c.rewrites) =>
             /\ w.start <= Len(d.rewrites)
             /\ Since(d.rewrites, w.start) = Since(c.rewrites, w.start) \o f
  <2>1. c.query.name \in Name
    BY ContextFields, QueryFields
  <2>2. PICK x, k, l, g :
          x = Redirected(c) /\ k = c.query.name /\ l = Target(k) /\ g = << << k, l >> >>
    OBVIOUS
  <2>3. /\ x \in Context /\ x.query.name = l /\ l \in Name /\ Walk(k, g, l) /\ TrailOK(x)
        /\ \A w \in Write : w.start <= Len(c.rewrites) =>
             /\ w.start <= Len(x.rewrites)
             /\ Since(x.rewrites, w.start) = Since(c.rewrites, w.start) \o g
    BY <2>2, RedirectTrail
  <2>4. QED
    BY <2>1, <2>2, <2>3
<1>2. d.resp = c.resp
  BY <1>1, RedirectedFacts
<1>3. FoundOK(P, q, d) /\ OwnOK(P, q, d)
  BY <1>2 DEF FoundOK, OwnOK
<1>4. Limit(P) \in Nat
  BY LimitFacts
<1>5. ASSUME NEW w \in Write, LookupOK(P, p, c, w) PROVE LookupOK(P, q, d, w)
  <2>1. /\ w.start <= Len(c.rewrites)
        /\ Via(w.key.name, Since(c.rewrites, w.start), Goal(P, w.cache, w.key.name), n)
    BY <1>1, <1>5 DEF LookupOK
  <2>2. Via(w.key.name, Since(c.rewrites, w.start) \o f, Goal(P, w.cache, w.key.name), m)
    BY <1>1, <2>1, ViaFacts
  <2>3. ~ (q <= Limit(P))
    BY <1>4
  <2>4. QED
    BY <1>1, <2>1, <2>2, <2>3 DEF LookupOK
<1>6. QED
  BY <1>1, <1>3, <1>5

(* Before the limit, what a cache has answered lies on the same way. *)
LEMMA RedirectEarly ==
  ASSUME Settled, RedirectsEnd, NEW P \in Programs, NEW p \in 1 .. Limit(P),
         P["main"][p].do = "redirect",
         NEW c \in Context, TrailOK(c), FoundOK(P, p, c), OwnOK(P, p, c),
         c.query.name \in DOMAIN Rule, Target(c.query.name) # c.query.name
  PROVE  LET d == Redirected(c)
         IN  /\ TrailOK(d) /\ FoundOK(P, p + 1, d) /\ OwnOK(P, p + 1, d)
             /\ \A w \in Write : LookupOK(P, p, c, w) => LookupOK(P, p + 1, d, w)
<1>1. PICK n \in Name, m \in Name : n = c.query.name /\ m = Target(n) /\ m = Rule[n] /\ n \in DOMAIN Rule
  <2>1. c.query.name \in Name
    BY ContextFields, QueryFields
  <2>2. QED
    BY <2>1, TargetName DEF Target
<1>2. PICK d \in Context, e \in Alias :
        /\ d = Redirected(c) /\ e = << n, m >> /\ d.query.name = m /\ Rank[n] < Rank[m]
        /\ Walk(n, << e >>, m) /\ d.rewrites = c.rewrites \o << e >> /\ TrailOK(d)
        /\ \A w \in Write : w.start <= Len(c.rewrites) =>
             /\ w.start <= Len(d.rewrites)
             /\ Since(d.rewrites, w.start) = Since(c.rewrites, w.start) \o << e >>
  BY <1>1, RedirectTrail
<1>3. d.resp = c.resp /\ d.served = c.served /\ d.original = c.original
  BY <1>2, RedirectedFacts
<1>4. Limit(P) \in Nat /\ p \in Nat /\ p + 1 \in Nat /\ p <= Limit(P) /\ ~ (p > Limit(P))
  BY LimitFacts
<1>5. PICK D \in Name : D = Dest(P)[p][n] /\ D = Dest(P)[p + 1][m] /\ Rank[m] <= Rank[D]
  <2>1. Hop(P, p, n) = m
    BY <1>1 DEF Hop
  <2>2. QED
    BY <1>4, <2>1, DestName
<1>6. D # n
  BY <1>2, <1>5, RankFacts
<1>7. OwnOK(P, p + 1, d)
  BY <1>3, <1>4 DEF OwnOK
<1>8. ASSUME NEW w \in Write, LookupOK(P, p, c, w) PROVE LookupOK(P, p + 1, d, w)
  <2>1. /\ w.start <= Len(c.rewrites)
        /\ Walk(w.key.name, Since(c.rewrites, w.start), n)
        /\ Goal(P, w.cache, w.key.name) = D
    BY <1>1, <1>4, <1>5, <1>8 DEF LookupOK
  <2>2. PICK s : s = Since(d.rewrites, w.start) /\ Walk(w.key.name, s, m) /\ w.start <= Len(d.rewrites)
    BY <1>2, <2>1, WalkConcat
  <2>3. CASE p + 1 <= Limit(P)
    <3>1. ~ (p + 1 > Limit(P))
      BY <1>4, <2>3
    <3>2. QED
      BY <1>2, <1>5, <2>1, <2>2, <3>1 DEF LookupOK
  <2>4. CASE ~ (p + 1 <= Limit(P))
    <3>1. p + 1 > Limit(P)
      BY <1>4, <2>4
    <3>2. D = m
      BY <1>4, <1>5, <3>1, DestName
    <3>3. Via(w.key.name, s, m, m)
      BY <2>2, ViaFacts
    <3>4. QED
      BY <1>2, <2>1, <2>2, <2>4, <3>2, <3>3 DEF LookupOK
  <2>5. QED
    BY <2>3, <2>4
<1>9. ASSUME c.resp.rcode # "absent"
      PROVE  \E u, x, v, t :
               /\ d.rewrites = u \o v /\ d.resp.chain = v \o t
               /\ Walk(d.original.name, u, x) /\ Walk(x, v, m)
               /\ Via(m, t, D, d.resp.own)
  <2>1. PICK u, x, v, t :
          /\ c.rewrites = u \o v /\ c.resp.chain = v \o t
          /\ Walk(c.original.name, u, x) /\ Walk(x, v, n)
          /\ Via(n, t, D, c.resp.own)
    BY <1>1, <1>5, <1>9 DEF FoundOK
  <2>2. PICK a, b : t = a \o b /\ Walk(n, a, D) /\ Walk(D, b, c.resp.own)
    BY <2>1 DEF Via
  <2>3. PICK y : a = << e >> \o y /\ Walk(m, y, D)
    <3>1. PICK y : a = << << n, Rule[n] >> >> \o y /\ Walk(Rule[n], y, D)
      BY <1>6, <2>2, WalkFirst
    <3>2. QED
      BY <1>1, <1>2, <3>1
  <2>4. PICK f \in Seq(Alias) : f = << e >>
    BY <1>2, Singleton
  <2>5. /\ u \in Seq(Alias) /\ v \in Seq(Alias) /\ b \in Seq(Alias) /\ y \in Seq(Alias)
    BY <2>1, <2>2, <2>3 DEF Walk
  <2>6. PICK g \in Seq(Alias), h \in Seq(Alias) : g = v \o f /\ h = y \o b
    <3>1. v \o f \in Seq(Alias) /\ y \o b \in Seq(Alias)
      BY <2>4, <2>5, ConcatElements
    <3>2. QED
      BY <3>1
  <2>7. d.rewrites = u \o g
    <3>1. (u \o v) \o f = u \o (v \o f)
      BY <2>5
    <3>2. QED
      BY <1>2, <2>1, <2>4, <2>6, <3>1
  <2>8. v \o ((f \o y) \o b) = g \o h
    <3>1. (f \o y) \o b = f \o (y \o b)
      BY <2>5
    <3>2. (v \o f) \o h = v \o (f \o h)
      BY <2>5
    <3>3. QED
      BY <2>6, <3>1, <3>2
  <2>9. d.resp.chain = g \o h
    BY <1>3, <2>1, <2>2, <2>3, <2>4, <2>8
  <2>10. Walk(x, g, m)
    BY <1>2, <2>1, <2>4, <2>6, WalkConcat
  <2>11. Via(m, h, D, d.resp.own)
    BY <1>3, <2>2, <2>3, <2>6 DEF Via
  <2>12. Walk(d.original.name, u, x)
    BY <1>3, <2>1
  <2>13. QED
    BY <2>7, <2>9, <2>10, <2>11, <2>12
<1>10. FoundOK(P, p + 1, d)
  <2>1. Dest(P)[p + 1][d.query.name] = D /\ (d.resp.rcode # "absent" => c.resp.rcode # "absent")
    BY <1>2, <1>3, <1>5
  <2>2. SUFFICES ASSUME d.resp.rcode # "absent"
                 PROVE  \E u, x, v, t :
                          /\ d.rewrites = u \o v /\ d.resp.chain = v \o t
                          /\ Walk(d.original.name, u, x) /\ Walk(x, v, d.query.name)
                          /\ Via(d.query.name, t, D, d.resp.own)
    BY <2>1 DEF FoundOK
  <2>3. QED
    BY <1>2, <1>9, <2>1, <2>2
<1>11. QED
  BY <1>2, <1>7, <1>8, <1>10

(* A hit: the entry goes on from the query, past the cache's goal. *)
LEMMA HitOK ==
  ASSUME Settled, RedirectsEnd, NEW P \in Programs, NEW q \in Nat \ {0}, NEW t \in Cache,
         NEW c \in Context, NEW d \in Context, NEW e \in Resp, TrailOK(c),
         EntryOK(P, t, c.query, e),
         Goal(P, t, c.query.name) = Dest(P)[q][c.query.name],
         d.query = c.query, d.original = c.original, d.rewrites = c.rewrites,
         d.resp.chain = e.chain, d.resp.own = e.own, d.served = TRUE
  PROVE  FoundOK(P, q, d) /\ OwnOK(P, q, d)
<1>1. PICK n \in Name : n = c.query.name /\ n = d.query.name
  BY ContextFields, QueryFields
<1>2. PICK R \in Seq(Alias), E \in Seq(Alias) : R = d.rewrites /\ E = d.resp.chain
  BY ContextFields, RespFields
<1>3. PICK f : f = << >> /\ Walk(n, f, n)
  BY WalkNone
<1>4. R = R \o f /\ E = f \o E
  BY <1>3, ConcatAssoc
<1>5. Walk(d.original.name, R, n)
  BY <1>1, <1>2 DEF TrailOK
<1>6. Via(n, E, Dest(P)[q][n], d.resp.own)
  BY <1>1, <1>2 DEF EntryOK
<1>7. FoundOK(P, q, d)
  <2>1. PICK D : D = Dest(P)[q][n]
    OBVIOUS
  <2>2. Walk(n, f, n)
    BY <1>3
  <2>3. \E u, m, v, s :
          /\ R = u \o v /\ E = v \o s
          /\ Walk(d.original.name, u, m) /\ Walk(m, v, n) /\ Via(n, s, D, d.resp.own)
    BY <1>4, <1>5, <1>6, <2>1, <2>2
  <2>4. QED
    BY <1>1, <1>2, <2>1, <2>3 DEF FoundOK
<1>8. QED
  BY <1>7 DEF OwnOK

(* The lookup of a cache step. *)
LEMMA NewLookupOK ==
  ASSUME Settled, RedirectsEnd, NEW P \in Programs, NEW q \in Nat \ {0}, NEW t \in Cache,
         NEW c \in Context, NEW d \in Context,
         d.query = c.query, d.rewrites = c.rewrites,
         Goal(P, t, c.query.name) = Dest(P)[q][c.query.name]
  PROVE  LookupOK(P, q, d, [cache |-> t, key |-> c.query, start |-> Len(c.rewrites)])
<1>1. PICK n \in Name : n = c.query.name /\ n = d.query.name
  BY ContextFields, QueryFields
<1>2. PICK R \in Seq(Alias) : R = d.rewrites /\ R = c.rewrites
  BY ContextFields
<1>3. PICK w : w = [cache |-> t, key |-> c.query, start |-> Len(R)]
  OBVIOUS
<1>4. w.start = Len(R) /\ w.key.name = n /\ w.cache = t /\ w.start <= Len(R)
  BY <1>1, <1>3
<1>5. PICK s : s = Since(R, w.start) /\ Walk(n, s, n)
  <2>1. PICK x \in Alias : x = << n, n >>
    <3>1. << n, n >> \in Alias
      BY DEF Alias
    <3>2. QED
      BY <3>1
  <2>2. Since(R, w.start) = << >>
    BY <1>4, <2>1, SinceAppend
  <2>3. QED
    BY <2>2, WalkNone
<1>6. ASSUME q > Limit(P) PROVE Via(n, s, Goal(P, t, n), n)
  <2>1. Goal(P, t, n) = n
    BY <1>1, <1>6, DestName
  <2>2. QED
    BY <1>5, <2>1, ViaFacts
<1>7. LookupOK(P, q, d, w)
  BY <1>1, <1>2, <1>4, <1>5, <1>6 DEF LookupOK
<1>8. QED
  BY <1>2, <1>3, <1>7

LEMMA StoredChain ==
  ASSUME NEW c \in Context, NEW w \in Write, NEW e,
         e = ResponseForQuery(c.resp, c.rewrites, w.key, w.start)
  PROVE  /\ e.rcode = c.resp.rcode /\ e.own = c.resp.own
         /\ e.rcode \in {"ok", "nx"} =>
              e.chain = Missing(Since(c.rewrites, w.start), Range(c.resp.chain)) \o c.resp.chain
<1>1. PICK r \in Resp, R \in Seq(Alias), k \in Query, b \in Nat :
        r = c.resp /\ R = c.rewrites /\ k = w.key /\ b = w.start
  BY ContextFields DEF Write
<1>2. PICK x : x = ResponseForQuery(r, R, k, b)
  OBVIOUS
<1>3. /\ x \in Resp /\ x.rcode = r.rcode /\ x.own = r.own
      /\ x.rcode \in {"ok", "nx"} => x.chain = Missing(Since(R, b), Range(r.chain)) \o r.chain
  BY <1>2, ResponseFacts
<1>4. QED
  BY <1>1, <1>2, <1>3

(* What a sequence stores for a lookup. *)
LEMMA StoredOK ==
  ASSUME Settled, RedirectsEnd, NEW P \in Programs, NEW p \in Nat \ {0},
         NEW c \in Context, NEW w \in Write, LookupOK(P, p, c, w), OwnOK(P, p, c), Storable(c)
  PROVE  EntryOK(P, w.cache, w.key, ResponseForQuery(c.resp, c.rewrites, w.key, w.start))
<1>1. w.key \in Query /\ w.start \in Nat
  BY DEF Write
<1>2. c.resp \in Resp /\ c.rewrites \in Seq(Alias)
  BY ContextFields
<1>3. PICK n, S, G, q, C, z :
        /\ n = w.key.name /\ S = Since(c.rewrites, w.start) /\ G = Goal(P, w.cache, w.key.name)
        /\ q = c.query.name /\ C = c.resp.chain /\ z = c.resp.own
  OBVIOUS
<1>4. p > Limit(P) /\ Walk(q, C, z)
  BY <1>3 DEF OwnOK, Storable
<1>5. Via(n, S, G, q)
  BY <1>3, <1>4 DEF LookupOK
<1>6. Walk(n, S, q)
  BY <1>5, ViaFacts
<1>7. S \in Seq(Alias) /\ C \in Seq(Alias) /\ q \in Name
  BY <1>4, <1>6 DEF Walk
<1>8. PICK f \in Seq(Alias) : f = << >> /\ Len(f) = 0
  BY NoAliases
<1>9. S \o f = S
  BY <1>7, <1>8, ConcatAssoc
<1>10. Missing(S, Range(C)) = S
  <2>1. \A i \in 1 .. Len(S) : S[i] \notin Range(C)
    BY <1>4, <1>6, WalkConcat
  <2>2. \A i \in 1 .. Len(f) : f[i] \in Range(C)
    BY <1>8
  <2>3. Missing(S \o f, Range(C)) = S
    BY <1>7, <2>1, <2>2, MissingPrefix
  <2>4. QED
    BY <1>9, <2>3
<1>11. PICK e : e = ResponseForQuery(c.resp, c.rewrites, w.key, w.start)
  OBVIOUS
<1>12. /\ e.rcode = c.resp.rcode /\ e.own = c.resp.own
       /\ e.rcode \in {"ok", "nx"} =>
            e.chain = Missing(Since(c.rewrites, w.start), Range(c.resp.chain)) \o c.resp.chain
  BY <1>11, StoredChain
<1>13. e.chain = S \o C /\ e.own = z
  BY <1>3, <1>10, <1>12 DEF Storable
<1>14. Via(n, S \o C, G, z)
  BY <1>4, <1>5, ViaFacts
<1>15. QED
  BY <1>3, <1>11, <1>13, <1>14 DEF EntryOK

(* What is sent in the end. *)
LEMMA FinalOK ==
  ASSUME Settled, RedirectsEnd, NEW P \in Programs, NEW p \in Nat \ {0},
         NEW c \in Context, FoundOK(P, p, c)
  PROVE  ReplyOK(Finalize(c))
<1>1. PICK x : x = Finalize(c)
  OBVIOUS
<1>2. /\ x.original = c.original /\ x.resp.rcode = c.resp.rcode
      /\ x.resp.name = c.original.name /\ x.resp.own = c.resp.own
      /\ x.resp.rcode \in {"ok", "nx"} =>
           x.resp.chain = Missing(Since(c.rewrites, 0), Range(c.resp.chain)) \o c.resp.chain
  BY <1>1, FinalizeFacts
<1>3. SUFFICES ASSUME x.resp.rcode \in {"ok", "nx"}
               PROVE  Walk(c.original.name, x.resp.chain, c.resp.own)
  BY <1>1, <1>2 DEF ReplyOK
<1>4. PICK u, m, v, t :
        /\ c.rewrites = u \o v /\ c.resp.chain = v \o t
        /\ Walk(c.original.name, u, m) /\ Walk(m, v, c.query.name)
        /\ Via(c.query.name, t, Dest(P)[p][c.query.name], c.resp.own)
  BY <1>2, <1>3 DEF FoundOK
<1>5. Walk(c.query.name, t, c.resp.own)
  BY <1>4, ViaFacts
<1>6. /\ Missing(u \o v, Range(v \o t)) = u
      /\ Walk(c.original.name, u \o (v \o t), c.resp.own)
  BY <1>4, <1>5, MissingWalk
<1>7. Since(c.rewrites, 0) = c.rewrites
  <2>1. PICK n \in Name : n = c.query.name
    BY ContextFields, QueryFields
  <2>2. << n, n >> \in Alias
    BY DEF Alias
  <2>3. QED
    BY <2>2, ContextFields, SinceAppend
<1>8. x.resp.chain = u \o (v \o t)
  BY <1>2, <1>3, <1>4, <1>6, <1>7
<1>9. QED
  BY <1>6, <1>8

-----------------------------------------------------------------------------
(* "main" is at the bottom, the called sequences above it. *)

Nesting ==
  pc # "idle" =>
    \A j \in 1 .. Len(frames) : frames[j].i # 0 /\ frames[j].seq = IF j = 1 THEN "main" ELSE "sub"

LEMMA NestingAdvance ==
  ASSUME Core, Nesting, pc # "idle", Advance
  PROVE  /\ Nesting'
         /\ Len(frames) \in Nat \ {0} /\ Len(frames') = Len(frames)
         /\ frames[1].i \in Nat \ {0} /\ frames'[1].i \in Nat \ {0}
         /\ Len(frames) = 1 => frames'[1].i = frames[1].i + 1
         /\ Len(frames) # 1 => frames'[1].i = frames[1].i
         /\ \A j \in 1 .. Len(frames) : frames'[j].writes = frames[j].writes
<1>1. PICK n \in Nat \ {0} : n = Len(frames)
  BY TopFacts
<1>2. /\ Len(frames') = n
      /\ frames'[n] = [Top EXCEPT !.i = Top.i + 1]
      /\ \A j \in 1 .. n : j # n => frames'[j] = frames[j]
      /\ \A j \in 1 .. n : frames'[j].writes = frames[j].writes /\ frames'[j].seq = frames[j].seq
  BY <1>1, AdvanceFacts
<1>3. Top = frames[n] /\ Top \in FrameRec /\ \A j \in 1 .. n : frames[j] \in FrameRec
  BY <1>1, TopFacts
<1>4. \A j \in 1 .. n : frames[j].i \in Nat \ {0}
  BY <1>1, <1>3 DEF Nesting, FrameRec
<1>5. frames'[n].i = frames[n].i + 1
  BY <1>2, <1>3 DEF FrameRec
<1>6. n \in 1 .. n /\ 1 \in 1 .. n
  BY <1>1
<1>7. \A j \in 1 .. n : frames'[j].i # 0
  <2>1. frames'[n].i # 0
    BY <1>4, <1>5, <1>6
  <2>2. \A j \in 1 .. n : j # n => frames'[j].i = frames[j].i
    BY <1>2
  <2>3. QED
    BY <1>4, <2>1, <2>2
<1>8. Nesting'
  BY <1>1, <1>2, <1>7 DEF Nesting
<1>9. n = 1 => frames'[1].i = frames[1].i + 1
  BY <1>5
<1>10. n # 1 => frames'[1].i = frames[1].i
  BY <1>2, <1>6
<1>11. frames[1].i \in Nat \ {0} /\ frames'[1].i \in Nat \ {0}
  BY <1>4, <1>6, <1>9, <1>10
<1>12. QED
  BY <1>1, <1>2, <1>8, <1>9, <1>10, <1>11

LEMMA NestingCall ==
  ASSUME Core, Nesting, pc = "run", pc' = "run", NEW goto \in BOOLEAN,
         frames' = Append([frames EXCEPT ![Len(frames)].goto = goto], Frame("sub"))
  PROVE  /\ Nesting'
         /\ Len(frames) \in Nat \ {0} /\ Len(frames') = Len(frames) + 1
         /\ frames[1].i \in Nat \ {0} /\ frames'[1].i = frames[1].i
         /\ \A j \in 1 .. Len(frames) : frames'[j].writes = frames[j].writes
         /\ Len(frames'[Len(frames) + 1].writes) = 0
<1>1. PICK n \in Nat \ {0} : n = Len(frames)
  BY TopFacts
<1>2. /\ Len(frames') = n + 1 /\ frames'[n + 1] = Frame("sub")
      /\ \A j \in 1 .. n : /\ frames'[j].writes = frames[j].writes
                           /\ frames'[j].seq = frames[j].seq
                           /\ frames'[j].i = frames[j].i
  BY <1>1, CallFacts
<1>3. \A j \in 1 .. n : frames[j] \in FrameRec
  BY <1>1, TopFacts
<1>4. /\ Frame("sub").seq = "sub" /\ Frame("sub").i = 1 /\ Frame("sub").writes = << >>
  BY FrameFacts DEF Tag
<1>5. \A j \in 1 .. (n + 1) : j \in 1 .. n \/ (j = n + 1 /\ j # 1)
  BY <1>1
<1>6. Nesting'
  BY <1>1, <1>2, <1>4, <1>5 DEF Nesting
<1>7. 1 \in 1 .. n
  BY <1>1
<1>8. frames[1].i \in Nat \ {0}
  BY <1>1, <1>3, <1>7 DEF Nesting, FrameRec
<1>9. Len(frames'[n + 1].writes) = 0
  BY <1>2, <1>4, NoWrites
<1>10. QED
  BY <1>1, <1>2, <1>6, <1>7, <1>8, <1>9

LEMMA NestingCache ==
  ASSUME Core, Nesting, NEW t \in Cache, CacheStep(t)
  PROVE  /\ Nesting'
         /\ Len(frames) \in Nat \ {0} /\ Len(frames') = Len(frames)
         /\ frames[1].i \in Nat \ {0} /\ frames'[1].i \in Nat \ {0}
         /\ Len(frames) = 1 => frames'[1].i = frames[1].i + 1
         /\ Len(frames) # 1 => frames'[1].i = frames[1].i
<1>1. pc = "run" /\ pc' = "run"
  BY DEF CacheStep, At
<1>2. PICK n \in Nat \ {0} : n = Len(frames)
  BY <1>1, TopFacts
<1>3. /\ Len(frames') = n
      /\ frames'[n].i = Top.i + 1
      /\ \A j \in 1 .. n : j # n => frames'[j] = frames[j]
      /\ \A j \in 1 .. n : frames'[j].seq = frames[j].seq
  BY <1>2, CacheFrames
<1>4. Top = frames[n] /\ Top \in FrameRec /\ \A j \in 1 .. n : frames[j] \in FrameRec
  BY <1>1, <1>2, TopFacts
<1>5. \A j \in 1 .. n : frames[j].i \in Nat \ {0}
  BY <1>1, <1>2, <1>4 DEF Nesting, FrameRec
<1>6. n \in 1 .. n /\ 1 \in 1 .. n
  BY <1>2
<1>7. \A j \in 1 .. n : frames'[j].i # 0
  BY <1>3, <1>4, <1>5, <1>6
<1>8. Nesting'
  BY <1>1, <1>2, <1>3, <1>7 DEF Nesting
<1>9. n = 1 => frames'[1].i = frames[1].i + 1
  BY <1>3, <1>4
<1>10. n # 1 => frames'[1].i = frames[1].i
  BY <1>3, <1>6
<1>11. frames[1].i \in Nat \ {0} /\ frames'[1].i \in Nat \ {0}
  BY <1>5, <1>6, <1>9, <1>10
<1>12. QED
  BY <1>2, <1>3, <1>8, <1>9, <1>10, <1>11

LEMMA NestingEnds ==
  ASSUME Core, Nesting, Ends
  PROVE  /\ Nesting'
         /\ Len(frames) \in Nat \ {0} /\ frames[1].i \in Nat \ {0}
         /\ Len(frames) # 1 => /\ Len(frames') = Len(frames) - 1 /\ frames'[1] = frames[1]
                               /\ \A j \in 1 .. Len(frames') : /\ j \in 1 .. Len(frames)
                                                               /\ frames'[j] = frames[j]
<1>1. /\ pc # "idle" /\ frames' = Front(frames)
      /\ pc' = IF Len(frames) = 1 THEN "idle" ELSE "ret"
  BY DEF Ends, Finish
<1>2. PICK n \in Nat \ {0} : n = Len(frames)
  BY <1>1, TopFacts
<1>3. Len(frames') = n - 1 /\ \A j \in 1 .. (n - 1) : frames'[j] = frames[j]
  BY <1>1, <1>2, FrontFacts
<1>4. \A j \in 1 .. n : frames[j] \in FrameRec
  BY <1>1, <1>2, TopFacts
<1>5. 1 \in 1 .. n /\ (n # 1 => 1 \in 1 .. (n - 1)) /\ \A j \in 1 .. (n - 1) : j \in 1 .. n
  BY <1>2
<1>6. frames[1].i \in Nat \ {0}
  BY <1>1, <1>2, <1>4, <1>5 DEF Nesting, FrameRec
<1>7. Nesting'
  BY <1>1, <1>2, <1>3, <1>5 DEF Nesting
<1>8. QED
  BY <1>2, <1>3, <1>5, <1>6, <1>7

LEMMA NestingInductive ==
  ASSUME Core, Nesting, [Next]_vars
  PROVE  Nesting'
<1>1. CASE Enters
  <2>1. pc' = "run" /\ Len(frames') = 1 /\ frames'[1] = Frame("main")
    BY <1>1, MainFrame DEF Enters
  <2>2. Frame("main").i = 1 /\ Frame("main").seq = "main"
    BY FrameFacts DEF Tag
  <2>3. \A j \in 1 .. 1 : j = 1
    OBVIOUS
  <2>4. QED
    BY <2>1, <2>2, <2>3 DEF Nesting
<1>2. CASE Refuses
  BY <1>2 DEF Refuses, Nesting
<1>3. CASE UNCHANGED vars
  BY <1>3 DEF vars, Nesting
<1>4. CASE Step
  <2>1. CASE Passes \/ Answers \/ Rewrites \/ Attaches \/ Detaches \/ Marks
    <3>1. pc = "run" /\ Advance
      BY <2>1 DEF Passes, Answers, Rewrites, Attaches, Detaches, Marks, At, Running, Continue
    <3>2. QED
      BY <3>1, NestingAdvance
  <2>2. CASE \E t \in Cache : CacheStep(t)
    BY <2>2, NestingCache
  <2>3. CASE Ends
    BY <2>3, NestingEnds
  <2>4. CASE TimesOut
    BY <2>4 DEF TimesOut, Abort, Nesting
  <2>5. CASE Rejects
    BY <2>5 DEF Rejects, RejectStep, At, Nesting
  <2>6. CASE \E goto \in BOOLEAN : Call(goto)
    <3>1. PICK goto \in BOOLEAN :
            /\ pc = "run" /\ pc' = "run"
            /\ frames' = Append([frames EXCEPT ![Len(frames)].goto = goto], Frame("sub"))
      BY <2>6 DEF Call, At
    <3>2. QED
      BY <3>1, NestingCall
  <2>7. CASE Resumes
    <3>1. pc = "ret" /\ Advance
      BY <2>7 DEF Resumes
    <3>2. QED
      BY <3>1, NestingAdvance
  <2>8. QED
    BY <1>4, <2>1, <2>2, <2>3, <2>4, <2>5, <2>6, <2>7, StepKinds
<1>5. QED
  BY <1>1, <1>2, <1>3, <1>4, NextKinds

LEMMA NestingAlways == Spec => []Nesting
<1>1. Init => Nesting
  BY DEF Init, Nesting
<1>2. Core /\ Nesting /\ [Next]_vars => Nesting'
  BY NestingInductive
<1>3. QED
  BY <1>1, <1>2, CoreAlways, PTL DEF Spec

(* The step being executed. *)
LEMMA Place ==
  ASSUME Core, Nesting, Running
  PROVE  /\ Len(frames) = 1 => /\ frames[1].i \in 1 .. Len(prog["main"])
                               /\ Current = prog["main"][frames[1].i]
         /\ Len(frames) # 1 => /\ Top.i \in 1 .. Len(prog["sub"])
                               /\ Current = prog["sub"][Top.i]
<1>1. pc = "run" /\ Top.i <= Len(Steps)
  BY DEF Running
<1>2. PICK n \in Nat \ {0} : n = Len(frames) /\ Top = frames[n] /\ Top \in FrameRec
  BY <1>1, TopFacts
<1>3. n \in 1 .. n
  BY <1>2
<1>4. Top.i \in Nat \ {0} /\ Top.seq = IF n = 1 THEN "main" ELSE "sub"
  BY <1>1, <1>2, <1>3 DEF Nesting, FrameRec
<1>5. Len(prog["main"]) \in Nat /\ Len(prog["sub"]) \in Nat
  BY ProgramFacts DEF Core
<1>6. CASE n = 1
  BY <1>1, <1>2, <1>4, <1>5, <1>6 DEF Steps, Current
<1>7. CASE n # 1
  BY <1>1, <1>2, <1>4, <1>5, <1>7 DEF Steps, Current
<1>8. QED
  BY <1>2, <1>6, <1>7

-----------------------------------------------------------------------------
(* The invariant: what the caches hold has passed the names it has to,     *)
(* and so has the query that is under way.                                 *)

Entries(P, s) == \A c \in Cache : \A k \in DOMAIN s[c] : EntryOK(P, c, k, s[c][k])

PathsRun ==
  /\ frames[1].i <= Limit(prog) => pc = "run" /\ Len(frames) = 1
  /\ TrailOK(ctx) /\ FoundOK(prog, frames[1].i, ctx) /\ OwnOK(prog, frames[1].i, ctx)
  /\ \A j \in 1 .. Len(frames) : \A l \in 1 .. Len(frames[j].writes) :
       LookupOK(prog, frames[1].i, ctx, frames[j].writes[l])

Paths ==
  /\ Entries(prog, store)
  /\ pc = "idle" => ReplyOK(ctx)
  /\ pc # "idle" => PathsRun

(* The query goes on; its lookups are the ones it had, or in order. *)
LEMMA PathsOnward ==
  ASSUME Core, Paths, pc # "idle", pc' # "idle", prog' = prog,
         NEW p, NEW q, p = frames[1].i, q = frames'[1].i,
         q <= Limit(prog) => pc' = "run" /\ Len(frames') = 1,
         Entries(prog, store'),
         TrailOK(ctx'), FoundOK(prog, q, ctx'), OwnOK(prog, q, ctx'),
         \A w \in Write : LookupOK(prog, p, ctx, w) => LookupOK(prog, q, ctx', w),
         \A j \in 1 .. Len(frames') : \A l \in 1 .. Len(frames'[j].writes) :
           \/ \E i \in 1 .. Len(frames) : \E m \in 1 .. Len(frames[i].writes) :
                frames'[j].writes[l] = frames[i].writes[m]
           \/ LookupOK(prog, q, ctx', frames'[j].writes[l])
  PROVE  Paths'
<1>1. PathsRun
  BY DEF Paths
<1>2. ASSUME NEW i \in 1 .. Len(frames), NEW m \in 1 .. Len(frames[i].writes)
      PROVE  LookupOK(prog, q, ctx', frames[i].writes[m])
  <2>1. frames[i] \in FrameRec
    BY TopFacts
  <2>2. frames[i].writes \in Seq(Write)
    BY <2>1 DEF FrameRec
  <2>3. PICK w \in Write : w = frames[i].writes[m]
    BY <2>2
  <2>4. LookupOK(prog, p, ctx, w)
    BY <1>1, <2>3 DEF PathsRun
  <2>5. LookupOK(prog, q, ctx', w)
    BY <2>4
  <2>6. QED
    BY <2>3, <2>5
<1>3. \A j \in 1 .. Len(frames') : \A l \in 1 .. Len(frames'[j].writes) :
        LookupOK(prog, q, ctx', frames'[j].writes[l])
  BY <1>2
<1>4. PathsRun'
  BY <1>3 DEF PathsRun
<1>5. Entries(prog, store)'
  BY DEF Entries
<1>6. QED
  BY <1>4, <1>5 DEF Paths

(* A step that only advances. *)
LEMMA PathsAdvance ==
  ASSUME Settled, RedirectsEnd, Core, Nesting, Paths, pc # "idle", Advance, pc' = "run",
         UNCHANGED << prog, store >>,
         TrailOK(ctx'), FoundOK(prog, frames'[1].i, ctx'), OwnOK(prog, frames'[1].i, ctx'),
         \A w \in Write : LookupOK(prog, frames[1].i, ctx, w) => LookupOK(prog, frames'[1].i, ctx', w)
  PROVE  Paths'
<1>1. PICK n \in Nat \ {0}, p \in Nat \ {0}, q \in Nat \ {0} :
        /\ n = Len(frames) /\ n = Len(frames') /\ p = frames[1].i /\ q = frames'[1].i
        /\ n = 1 => q = p + 1
        /\ n # 1 => q = p
        /\ \A j \in 1 .. n : frames'[j].writes = frames[j].writes
  BY NestingAdvance
<1>2. p <= Limit(prog) => n = 1
  BY <1>1 DEF Paths, PathsRun
<1>3. Limit(prog) \in Nat
  BY LimitFacts DEF Core
<1>4. q <= Limit(prog) => pc' = "run" /\ Len(frames') = 1
  BY <1>1, <1>2, <1>3
<1>5. Entries(prog, store')
  BY DEF Paths
<1>6. \A j \in 1 .. Len(frames') : \A l \in 1 .. Len(frames'[j].writes) :
        \E i \in 1 .. Len(frames) : \E m \in 1 .. Len(frames[i].writes) :
          frames'[j].writes[l] = frames[i].writes[m]
  BY <1>1
<1>7. QED
  BY <1>1, <1>4, <1>5, <1>6, PathsOnward

(* A step that redirects nothing where "main" is before its limit. *)
LEMMA StepMoves ==
  ASSUME Settled, Core, Nesting, Paths, pc # "idle", pc = "run" => Running,
         NEW n, NEW p \in Nat \ {0}, NEW q \in Nat \ {0}, p = frames[1].i,
         Len(frames) = 1 => q = p + 1,
         Len(frames) # 1 => q = p,
         Running /\ Current.do = "redirect" /\ Current.when = "any" => Target(n) = n
  PROVE  Moves(prog, p, q, n)
<1>1. Limit(prog) \in Nat /\ SettledAfter(prog, Limit(prog))
  BY LimitFacts DEF Core
<1>2. CASE p > Limit(prog)
  BY <1>1, <1>2 DEF Moves
<1>3. CASE p <= Limit(prog)
  <2>1. pc = "run" /\ Len(frames) = 1
    BY <1>3 DEF Paths, PathsRun
  <2>2. Current = prog["main"][p]
    BY <2>1, Place
  <2>3. p \in 1 .. Limit(prog)
    BY <1>1, <1>3
  <2>4. prog["main"][p].do = "redirect" => prog["main"][p].when = "any"
    BY <1>1, <2>3 DEF SettledAfter
  <2>5. Hop(prog, p, n) = n
    BY <2>1, <2>2, <2>4 DEF Hop
  <2>6. QED
    BY <1>1, <1>3, <2>1, <2>5 DEF Moves
<1>4. QED
  BY <1>1, <1>2, <1>3

LEMMA PathsNow ==
  ASSUME Settled, Core, Paths, pc # "idle"
  PROVE  /\ prog \in Programs /\ ctx \in Context /\ ctx.query \in Query /\ ctx.query.name \in Name
         /\ Limit(prog) \in Nat
         /\ Entries(prog, store) /\ TrailOK(ctx)
         /\ FoundOK(prog, frames[1].i, ctx) /\ OwnOK(prog, frames[1].i, ctx)
         /\ frames[1].i <= Limit(prog) => pc = "run" /\ Len(frames) = 1
         /\ \A j \in 1 .. Len(frames) : \A l \in 1 .. Len(frames[j].writes) :
              LookupOK(prog, frames[1].i, ctx, frames[j].writes[l])
<1>1. prog \in Programs /\ ctx \in Context
  BY DEF Core
<1>2. ctx.query \in Query /\ ctx.query.name \in Name /\ Limit(prog) \in Nat
  BY <1>1, ContextFields, QueryFields, LimitFacts
<1>3. QED
  BY <1>1, <1>2 DEF Paths, PathsRun

(* The context keeps the name asked for and the answer. *)
LEMMA PathsSame ==
  ASSUME Settled, RedirectsEnd, Core, Nesting, Paths, pc # "idle", Advance, pc' = "run",
         UNCHANGED << prog, store >>, pc = "run" => Running,
         Running /\ Current.do = "redirect" /\ Current.when = "any" =>
           Target(ctx.query.name) = ctx.query.name,
         NEW d \in Context, ctx' = d,
         d.query.name = ctx.query.name, d.original = ctx.original,
         d.rewrites = ctx.rewrites, d.resp = ctx.resp, d.served = ctx.served
  PROVE  Paths'
<1>1. PICK c \in Context, P \in Programs : c = ctx /\ P = prog
  BY DEF Core
<1>2. PICK p \in Nat \ {0}, q \in Nat \ {0} :
        /\ p = frames[1].i /\ q = frames'[1].i
        /\ Len(frames) = 1 => q = p + 1
        /\ Len(frames) # 1 => q = p
  BY NestingAdvance
<1>3. Moves(P, p, q, c.query.name)
  BY <1>1, <1>2, StepMoves
<1>4. TrailOK(c) /\ FoundOK(P, p, c) /\ OwnOK(P, p, c)
  BY <1>1, <1>2, PathsNow
<1>5. /\ TrailOK(d) /\ FoundOK(P, q, d) /\ OwnOK(P, q, d)
      /\ \A w \in Write : LookupOK(P, p, c, w) => LookupOK(P, q, d, w)
  BY <1>1, <1>3, <1>4, Carry
<1>6. QED
  BY <1>1, <1>2, <1>5, PathsAdvance

LEMMA PathsAnswers ==
  ASSUME Settled, RedirectsEnd, Core, Nesting, Paths, Answers, prog' = prog
  PROVE  Paths'
<1>1. PICK r : /\ Made(r) /\ (r.rcode # "absent" => Current.do \in Answerers)
               /\ Running /\ Continue(SetResponse(ctx, r)) /\ Current.do # "redirect"
  BY DEF Answers
<1>2. PICK d : d = SetResponse(ctx, r)
  OBVIOUS
<1>3. /\ pc = "run" /\ pc' = "run" /\ Advance /\ UNCHANGED << prog, store >> /\ ctx' = d
  BY <1>1, <1>2 DEF Running, Continue
<1>4. PICK c \in Context, P \in Programs : c = ctx /\ P = prog
  BY DEF Core
<1>5. r \in Resp /\ r.own = c.query.name /\ r.chain = << >>
  BY <1>1, <1>4 DEF Made
<1>6. d \in Context /\ d.resp = r /\ d.query = c.query /\ d.original = c.original
      /\ d.rewrites = c.rewrites
  BY <1>2, <1>4, <1>5, SetResponseFacts
<1>7. PICK p \in Nat \ {0}, q \in Nat \ {0} :
        /\ p = frames[1].i /\ q = frames'[1].i
        /\ Len(frames) = 1 => q = p + 1
        /\ Len(frames) # 1 => q = p
  BY <1>3, NestingAdvance
<1>8. Moves(P, p, q, c.query.name)
  BY <1>1, <1>3, <1>4, <1>7, StepMoves
<1>9. r.rcode # "absent" => q > Limit(P)
  <2>1. SUFFICES ASSUME r.rcode # "absent", p <= Limit(P) PROVE FALSE
    BY <1>7, <1>8, LimitFacts DEF Moves
  <2>2. Len(frames) = 1
    BY <1>3, <1>4, <1>7, <2>1, PathsNow
  <2>3. Current = prog["main"][p]
    BY <1>1, <1>7, <2>2, Place
  <2>4. Limit(P) \in Nat /\ SettledAfter(P, Limit(P))
    BY LimitFacts
  <2>5. p \in 1 .. Limit(P)
    BY <2>1, <2>4
  <2>6. P["main"][p].do \notin {"forward", "hosts", "black_hole", "reject", "call", "goto"}
    BY <2>4, <2>5 DEF SettledAfter
  <2>7. QED
    BY <1>1, <1>4, <2>1, <2>3, <2>6 DEF Answerers
<1>10. TrailOK(c)
  BY <1>3, <1>4, PathsNow
<1>11. /\ TrailOK(d)
       /\ \A w \in Write : LookupOK(P, p, c, w) => LookupOK(P, q, d, w)
  BY <1>6, <1>8, <1>10, Carry
<1>12. FoundOK(P, q, d) /\ OwnOK(P, q, d)
  BY <1>5, <1>6, <1>9, <1>11, MadeOK
<1>13. QED
  BY <1>3, <1>4, <1>7, <1>11, <1>12, PathsAdvance

LEMMA PathsRewrites ==
  ASSUME Settled, RedirectsEnd, Core, Nesting, Paths, Rewrites, prog' = prog
  PROVE  Paths'
<1>1. /\ Target(ctx.query.name) # ctx.query.name /\ ctx.query.name \in DOMAIN Rule
      /\ Running /\ Current.do = "redirect" /\ Matches(Current.when)
      /\ Continue(Redirected(ctx))
  BY DEF Rewrites, At, Running
<1>2. PICK c, P, d : c \in Context /\ P \in Programs /\ c = ctx /\ P = prog /\ d = Redirected(c)
  BY DEF Core
<1>3. /\ pc = "run" /\ pc' = "run" /\ Advance /\ UNCHANGED << prog, store >> /\ ctx' = d
  BY <1>1, <1>2 DEF Running, Continue
<1>4. PICK p \in Nat \ {0}, q \in Nat \ {0} :
        /\ p = frames[1].i /\ q = frames'[1].i
        /\ Len(frames) = 1 => q = p + 1
        /\ Len(frames) # 1 => q = p
  BY <1>3, NestingAdvance
<1>5. TrailOK(c) /\ FoundOK(P, p, c) /\ OwnOK(P, p, c) /\ (p <= Limit(P) => Len(frames) = 1)
  BY <1>2, <1>3, <1>4, PathsNow
<1>6. Limit(P) \in Nat /\ SettledAfter(P, Limit(P)) /\ Len(P["main"]) \in Nat /\ Limit(P) <= Len(P["main"])
  BY <1>2, LimitFacts
<1>7. /\ TrailOK(d) /\ FoundOK(P, q, d) /\ OwnOK(P, q, d)
      /\ \A w \in Write : LookupOK(P, p, c, w) => LookupOK(P, q, d, w)
  <2>1. CASE p <= Limit(P)
    <3>1. Len(frames) = 1 /\ p \in 1 .. Limit(P) /\ q = p + 1
      BY <1>4, <1>5, <1>6, <2>1
    <3>2. P["main"][p].do = "redirect"
      BY <1>1, <1>2, <1>4, <3>1, Place
    <3>3. QED
      BY <1>1, <1>2, <1>5, <3>1, <3>2, RedirectEarly
  <2>2. CASE p > Limit(P)
    <3>1. Current.when = "!has_resp"
      <4>1. CASE Len(frames) = 1
        <5>1. p \in 1 .. Len(P["main"]) /\ Current = P["main"][p]
          BY <1>1, <1>2, <1>4, <4>1, Place
        <5>2. p \in Limit(P) + 1 .. Len(P["main"])
          BY <1>6, <2>2, <5>1
        <5>3. QED
          BY <1>1, <1>6, <5>1, <5>2 DEF SettledAfter
      <4>2. CASE Len(frames) # 1
        <5>1. Top.i \in 1 .. Len(P["sub"]) /\ Current = P["sub"][Top.i]
          BY <1>1, <1>2, <4>2, Place
        <5>2. QED
          BY <1>1, <1>6, <5>1 DEF SettledAfter
      <4>3. QED
        BY <4>1, <4>2
    <3>2. c.resp.rcode = "absent"
      BY <1>1, <1>2, <3>1 DEF Matches, HasResp
    <3>3. q > Limit(P)
      BY <1>4, <1>6, <2>2
    <3>4. QED
      BY <1>1, <1>2, <1>5, <2>2, <3>2, <3>3, RedirectLate
  <2>3. QED
    BY <1>6, <2>1, <2>2
<1>8. QED
  BY <1>2, <1>3, <1>4, <1>7, PathsAdvance

(* The name a cache step's cache is to pass is the one the query will. *)
LEMMA CacheGoal ==
  ASSUME Settled, RedirectsEnd, Core, Nesting, Paths, NEW t \in Cache, CacheStep(t),
         NEW p \in Nat \ {0}, NEW q \in Nat \ {0}, p = frames[1].i,
         Len(frames) = 1 => q = p + 1,
         Len(frames) # 1 => q = p
  PROVE  Goal(prog, t, ctx.query.name) = Dest(prog)[q][ctx.query.name]
<1>1. pc = "run" /\ Running /\ Current.do = t
  BY DEF CacheStep, At, Running
<1>2. PICK P \in Programs, n \in Name : P = prog /\ n = ctx.query.name
  BY <1>1, PathsNow
<1>3. PICK L \in Nat : L = Limit(P)
  BY LimitFacts
<1>4. p <= L => Len(frames) = 1
  BY <1>1, <1>2, <1>3, PathsNow
<1>5. CASE p <= L
  <2>1. p \in 1 .. Limit(P) /\ P["main"][p].do = t /\ q = p + 1
    BY <1>1, <1>2, <1>3, <1>4, <1>5, Place
  <2>2. QED
    BY <1>2, <2>1, GoalFacts
<1>6. CASE p > L
  <2>1. q > Limit(P)
    BY <1>3, <1>6
  <2>2. Dest(P)[q][n] = n
    BY <2>1, DestName
  <2>3. CASE Len(frames) = 1
    <3>1. p \in 1 .. Len(P["main"]) /\ P["main"][p].do = t /\ p > Limit(P)
      BY <1>1, <1>2, <1>3, <1>6, <2>3, Place
    <3>2. Goal(P, t, n) = n
      BY <3>1, GoalFacts
    <3>3. QED
      BY <1>2, <2>2, <3>2
  <2>4. CASE Len(frames) # 1
    <3>1. Top.i \in 1 .. Len(P["sub"]) /\ P["sub"][Top.i].do = t
      BY <1>1, <1>2, <2>4, Place
    <3>2. Goal(P, t, n) = n
      BY <3>1, GoalFacts
    <3>3. QED
      BY <1>2, <2>2, <3>2
  <2>5. QED
    BY <2>3, <2>4
<1>7. QED
  BY <1>3, <1>5, <1>6

LEMMA PathsCache ==
  ASSUME Settled, RedirectsEnd, Core, Nesting, Paths, NEW t \in Cache, CacheStep(t), prog' = prog
  PROVE  Paths'
<1>1. pc = "run" /\ Running /\ Current.do = t /\ UNCHANGED << store, pc >>
  BY DEF CacheStep, At, Running
<1>2. PICK c \in Context, P \in Programs : c = ctx /\ P = prog
  BY DEF Core
<1>3. PICK n \in Nat \ {0}, p \in Nat \ {0}, q \in Nat \ {0} :
        /\ n = Len(frames) /\ n = Len(frames') /\ p = frames[1].i /\ q = frames'[1].i
        /\ n = 1 => q = p + 1
        /\ n # 1 => q = p
  BY NestingCache
<1>4. Goal(P, t, c.query.name) = Dest(P)[q][c.query.name]
  BY <1>2, <1>3, CacheGoal
<1>5. Current.do # "redirect"
  BY <1>1, PipelineAssumption DEF Plugin
<1>6. Moves(P, p, q, c.query.name)
  BY <1>1, <1>2, <1>3, <1>5, StepMoves
<1>7. /\ TrailOK(c) /\ FoundOK(P, p, c) /\ OwnOK(P, p, c) /\ Entries(P, store)
      /\ (p <= Limit(P) => n = 1) /\ Limit(P) \in Nat
  BY <1>1, <1>2, <1>3, PathsNow
<1>8. PICK d : d = ctx'
  OBVIOUS
<1>9. /\ d \in Context /\ d.query = c.query /\ d.original = c.original /\ d.rewrites = c.rewrites
      /\ \/ d = c
         \/ /\ c.query \in DOMAIN store[t] /\ store[t][c.query] \in Resp
            /\ d.resp.chain = store[t][c.query].chain /\ d.resp.own = store[t][c.query].own
            /\ d.served = TRUE
  <2>1. \/ d = c
        \/ c.query \in DOMAIN store[t] /\ d = Hit(t)
    BY <1>2, <1>8 DEF CacheStep
  <2>2. CASE d = c
    BY <2>2
  <2>3. CASE c.query \in DOMAIN store[t] /\ d = Hit(t)
    BY <1>2, <2>3, HitFacts
  <2>4. QED
    BY <2>1, <2>2, <2>3
<1>10. /\ TrailOK(d)
       /\ \A w \in Write : LookupOK(P, p, c, w) => LookupOK(P, q, d, w)
  BY <1>6, <1>7, <1>9, Carry
<1>11. FoundOK(P, q, d) /\ OwnOK(P, q, d)
  <2>1. CASE d = c
    BY <1>6, <1>7, <2>1, Carry
  <2>2. CASE d # c
    <3>1. PICK e \in Resp : /\ c.query \in DOMAIN store[t] /\ e = store[t][c.query]
                            /\ d.resp.chain = e.chain /\ d.resp.own = e.own /\ d.served = TRUE
      BY <1>9, <2>2
    <3>2. EntryOK(P, t, c.query, e)
      BY <1>7, <3>1 DEF Entries
    <3>3. QED
      BY <1>4, <1>7, <1>9, <3>1, <3>2, HitOK
  <2>3. QED
    BY <2>1, <2>2
<1>12. LookupOK(P, q, d, [cache |-> t, key |-> c.query, start |-> Len(c.rewrites)])
  BY <1>4, <1>9, NewLookupOK
<1>13. ASSUME NEW j \in 1 .. n, NEW l \in 1 .. Len(frames'[j].writes)
       PROVE  \/ \E i \in 1 .. n : \E m \in 1 .. Len(frames[i].writes) :
                   frames'[j].writes[l] = frames[i].writes[m]
              \/ LookupOK(P, q, d, frames'[j].writes[l])
  <2>1. CASE j # n
    <3>1. frames'[j] = frames[j]
      BY <1>3, <2>1, CacheFrames
    <3>2. QED
      BY <1>13, <3>1
  <2>2. CASE j = n
    <3>1. \/ \E m \in 1 .. Len(Top.writes) : frames'[n].writes[l] = Top.writes[m]
          \/ frames'[n].writes[l] = [cache |-> t, key |-> ctx.query, start |-> Len(ctx.rewrites)]
      BY <1>3, <1>13, <2>2, CacheFrames
    <3>2. Top = frames[n] /\ n \in 1 .. n
      BY <1>3 DEF Top
    <3>3. QED
      BY <1>2, <1>12, <2>2, <3>1, <3>2
  <2>3. QED
    BY <2>1, <2>2
<1>14. q <= Limit(P) => pc' = "run" /\ Len(frames') = 1
  BY <1>1, <1>3, <1>7
<1>15. QED
  BY <1>1, <1>2, <1>3, <1>7, <1>8, <1>10, <1>11, <1>13, <1>14, PathsOnward

(* What the innermost sequence stores. *)
LEMMA PathsStored ==
  ASSUME Settled, RedirectsEnd, Core, Nesting, Paths, pc # "idle", NEW p \in Nat \ {0}, p = frames[1].i
  PROVE  Entries(prog, StoreWrites(Top.writes))
<1>1. PICK c, P, s :
        c \in Context /\ P \in Programs /\ c = ctx /\ P = prog /\ s = StoreWrites(Top.writes)
  BY DEF Core
<1>2. SUFFICES ASSUME NEW t \in Cache, NEW k \in DOMAIN s[t]
               PROVE  EntryOK(P, t, k, s[t][k])
  BY <1>1 DEF Entries
<1>3. CASE k \in DOMAIN store[t] /\ s[t][k] = store[t][k]
  <2>1. EntryOK(P, t, k, store[t][k])
    BY <1>1, <1>3, PathsNow DEF Entries
  <2>2. QED
    BY <1>3, <2>1
<1>4. CASE ~ (k \in DOMAIN store[t] /\ s[t][k] = store[t][k])
  <2>1. PICK w \in Write :
          /\ \E j \in 1 .. Len(Top.writes) : w = Top.writes[j]
          /\ w.cache = t /\ w.key = k
          /\ s[t][k] = ResponseForQuery(c.resp, c.rewrites, w.key, w.start)
    BY <1>1, <1>4, StoreWritesFacts
  <2>2. Storable(c)
    BY <1>1, <1>4, StoreWritesFacts
  <2>3. Len(frames) \in 1 .. Len(frames) /\ Top = frames[Len(frames)]
    BY TopFacts
  <2>4. LookupOK(P, p, c, w) /\ OwnOK(P, p, c)
    BY <1>1, <2>1, <2>3, PathsNow
  <2>5. EntryOK(P, w.cache, w.key, ResponseForQuery(c.resp, c.rewrites, w.key, w.start))
    BY <1>1, <2>2, <2>4, StoredOK
  <2>6. QED
    BY <2>1, <2>5
<1>5. QED
  BY <1>3, <1>4

LEMMA PathsEnds ==
  ASSUME Settled, RedirectsEnd, Core, Nesting, Paths, Ends, prog' = prog
  PROVE  Paths'
<1>1. /\ pc # "idle" /\ store' \in {StoreWrites(Top.writes), store}
      /\ pc' = IF Len(frames) = 1 THEN "idle" ELSE "ret"
      /\ ctx' = IF Len(frames) = 1 THEN Finalize(ctx) ELSE ctx
  BY DEF Ends, Finish
<1>2. PICK n \in Nat \ {0}, p \in Nat \ {0} : n = Len(frames) /\ p = frames[1].i
  BY NestingEnds
<1>3. Entries(prog, store')
  BY <1>1, <1>2, PathsStored DEF Paths
<1>4. /\ prog \in Programs /\ ctx \in Context /\ Limit(prog) \in Nat
      /\ TrailOK(ctx) /\ FoundOK(prog, p, ctx) /\ OwnOK(prog, p, ctx)
      /\ (p <= Limit(prog) => n = 1)
  BY <1>1, <1>2, PathsNow
<1>5. CASE n = 1
  <2>1. pc' = "idle" /\ ctx' = Finalize(ctx)
    BY <1>1, <1>2, <1>5
  <2>2. ReplyOK(Finalize(ctx))
    BY <1>4, FinalOK
  <2>3. QED
    BY <1>3, <2>1, <2>2 DEF Paths, Entries
<1>6. CASE n # 1
  <2>1. pc' = "ret" /\ ctx' = ctx
    BY <1>1, <1>2, <1>6
  <2>2. /\ frames'[1] = frames[1]
        /\ \A j \in 1 .. Len(frames') : j \in 1 .. Len(frames) /\ frames'[j] = frames[j]
    BY <1>2, <1>6, NestingEnds
  <2>3. p = frames'[1].i /\ ~ (p <= Limit(prog))
    BY <1>2, <1>4, <1>6, <2>2
  <2>4. \A j \in 1 .. Len(frames') : \A l \in 1 .. Len(frames'[j].writes) :
          \E i \in 1 .. Len(frames) : \E m \in 1 .. Len(frames[i].writes) :
            frames'[j].writes[l] = frames[i].writes[m]
    BY <2>2
  <2>5. QED
    BY <1>1, <1>2, <1>3, <1>4, <2>1, <2>3, <2>4, PathsOnward
<1>7. QED
  BY <1>5, <1>6

(* An error is no answer. *)
LEMMA PathsFails ==
  ASSUME Paths, pc' = "idle", UNCHANGED << prog, store >>,
         NEW c \in Context, c.resp.rcode = "fail", ctx' = Finalize(c)
  PROVE  Paths'
<1>1. ctx'.resp.rcode = "fail"
  BY FinalizeFacts
<1>2. ReplyOK(ctx')
  BY <1>1 DEF ReplyOK
<1>3. QED
  BY <1>2 DEF Paths, Entries

LEMMA PathsReject ==
  ASSUME Settled, RedirectsEnd, Core, Nesting, Paths, prog' = prog,
         NEW rcode \in {"ok", "nx", "fail"}, RejectStep(rcode)
  PROVE  Paths'
<1>1. /\ pc = "run" /\ Running /\ Current.do = "reject"
      /\ ctx' = Reject(ctx, rcode) /\ pc' = "ret" /\ UNCHANGED << store, frames >>
  BY DEF RejectStep, At, Running
<1>2. PICK c \in Context, P \in Programs : c = ctx /\ P = prog
  BY DEF Core
<1>3. PICK n \in Nat \ {0}, p \in Nat \ {0} : n = Len(frames) /\ p = frames[1].i
  <2>1. PICK n \in Nat \ {0} : n = Len(frames) /\ \A j \in 1 .. n : frames[j] \in FrameRec
    BY <1>1, TopFacts
  <2>2. 1 \in 1 .. n
    OBVIOUS
  <2>3. QED
    BY <1>1, <2>1, <2>2 DEF Nesting, FrameRec
<1>4. TrailOK(c) /\ Entries(P, store) /\ Limit(P) \in Nat /\ (p <= Limit(P) => n = 1)
  BY <1>1, <1>2, <1>3, PathsNow
<1>5. p > Limit(P)
  <2>1. SUFFICES ASSUME p <= Limit(P) PROVE FALSE
    BY <1>4
  <2>2. P["main"][p].do = "reject"
    BY <1>1, <1>2, <1>3, <1>4, <2>1, Place
  <2>3. SettledAfter(P, Limit(P))
    BY LimitFacts
  <2>4. p \in 1 .. Limit(P)
    BY <1>4, <2>1
  <2>5. QED
    BY <2>2, <2>3, <2>4 DEF SettledAfter
<1>6. PICK r : r = Skeleton(c.query, rcode, run)
  OBVIOUS
<1>7. Made(r)
  <2>1. run \in Nat
    BY PipelineAssumption DEF Core
  <2>2. Made(Skeleton(ctx.query, rcode, run))
    BY <2>1, MadeFacts
  <2>3. QED
    BY <1>2, <1>6, <2>2
<1>8. r \in Resp /\ r.own = c.query.name /\ r.chain = << >>
  BY <1>2, <1>7 DEF Made
<1>9. PICK d \in Context : /\ d = SetResponse(c, r) /\ d.resp = r /\ d.query = c.query
                           /\ d.original = c.original /\ d.rewrites = c.rewrites
  BY <1>8, SetResponseFacts
<1>10. ctx' = d
  BY <1>1, <1>2, <1>6, <1>9 DEF Reject
<1>11. Moves(P, p, p, c.query.name)
  BY <1>4, <1>5 DEF Moves
<1>12. /\ TrailOK(d)
       /\ \A w \in Write : LookupOK(P, p, c, w) => LookupOK(P, p, d, w)
  BY <1>4, <1>9, <1>11, Carry
<1>13. FoundOK(P, p, d) /\ OwnOK(P, p, d)
  BY <1>5, <1>8, <1>9, <1>12, MadeOK
<1>14. ~ (p <= Limit(P))
  BY <1>4, <1>5
<1>15. QED
  BY <1>1, <1>2, <1>3, <1>4, <1>10, <1>12, <1>13, <1>14, PathsOnward

LEMMA PathsCall ==
  ASSUME Settled, RedirectsEnd, Core, Nesting, Paths, NEW goto \in BOOLEAN, Call(goto), prog' = prog
  PROVE  Paths'
<1>1. /\ pc = "run" /\ Running /\ Current.do \in {"goto", "call"}
      /\ frames' = Append([frames EXCEPT ![Len(frames)].goto = goto], Frame("sub"))
      /\ UNCHANGED << store, pc, ctx >>
  BY DEF Call, At, Running
<1>2. PICK P \in Programs : P = prog
  BY DEF Core
<1>3. PICK n \in Nat \ {0}, p \in Nat \ {0} :
        /\ n = Len(frames) /\ p = frames[1].i /\ p = frames'[1].i /\ Len(frames') = n + 1
        /\ \A j \in 1 .. n : frames'[j].writes = frames[j].writes
        /\ Len(frames'[n + 1].writes) = 0
  BY <1>1, NestingCall
<1>4. /\ TrailOK(ctx) /\ FoundOK(P, p, ctx) /\ OwnOK(P, p, ctx) /\ Entries(P, store)
      /\ Limit(P) \in Nat /\ (p <= Limit(P) => n = 1)
  BY <1>1, <1>2, <1>3, PathsNow
<1>5. ~ (p <= Limit(P))
  <2>1. SUFFICES ASSUME p <= Limit(P) PROVE FALSE
    OBVIOUS
  <2>2. P["main"][p].do \in {"goto", "call"}
    BY <1>1, <1>2, <1>3, <1>4, <2>1, Place
  <2>3. SettledAfter(P, Limit(P))
    BY LimitFacts
  <2>4. p \in 1 .. Limit(P)
    BY <1>4, <2>1
  <2>5. QED
    BY <2>2, <2>3, <2>4 DEF SettledAfter
<1>6. ASSUME NEW j \in 1 .. Len(frames'), NEW l \in 1 .. Len(frames'[j].writes)
      PROVE  \E i \in 1 .. n : \E m \in 1 .. Len(frames[i].writes) :
               frames'[j].writes[l] = frames[i].writes[m]
  <2>1. j \in 1 .. n \/ j = n + 1
    BY <1>3, <1>6
  <2>2. CASE j \in 1 .. n
    BY <1>3, <1>6, <2>2
  <2>3. CASE j = n + 1
    BY <1>3, <1>6, <2>3
  <2>4. QED
    BY <2>1, <2>2, <2>3
<1>7. pc # "idle" /\ pc' # "idle" /\ store' = store /\ ctx' = ctx
  BY <1>1
<1>8. QED
  BY <1>2, <1>3, <1>4, <1>5, <1>6, <1>7, PathsOnward

LEMMA PathsEnters ==
  ASSUME Settled, RedirectsEnd, Core, Paths, Enters
  PROVE  Paths'
<1>1. /\ pc' = "run" /\ frames' = << Frame("main") >> /\ FreshContext(ctx')
      /\ UNCHANGED << prog, store >>
  BY DEF Enters
<1>2. Len(frames') = 1 /\ frames'[1] = Frame("main")
  BY <1>1, MainFrame
<1>3. frames'[1].i = 1 /\ Len(frames'[1].writes) = 0
  BY <1>2, FrameFacts, NoWrites DEF Tag
<1>4. PICK d : d = ctx'
  OBVIOUS
<1>5. d \in Context /\ d.original = d.query /\ d.rewrites = << >> /\ d.resp.rcode = "absent"
  BY <1>1, <1>4 DEF FreshContext
<1>6. d.query.name \in Name
  BY <1>5, ContextFields, QueryFields
<1>7. TrailOK(d)
  BY <1>5, <1>6, WalkNone DEF TrailOK
<1>8. PICK P \in Programs : P = prog
  BY DEF Core
<1>9. FoundOK(P, 1, d) /\ OwnOK(P, 1, d)
  BY <1>5 DEF FoundOK, OwnOK
<1>10. \A j \in 1 .. Len(frames') : \A l \in 1 .. Len(frames'[j].writes) : FALSE
  BY <1>2, <1>3
<1>11. PathsRun'
  BY <1>1, <1>2, <1>3, <1>4, <1>7, <1>8, <1>9, <1>10 DEF PathsRun
<1>12. Entries(prog, store)'
  BY <1>1 DEF Paths, Entries
<1>13. QED
  BY <1>1, <1>11, <1>12 DEF Paths

LEMMA PathsStep ==
  ASSUME Settled, RedirectsEnd, Core, Nesting, Paths, Step
  PROVE  Paths'
<1>1. prog' = prog /\ ctx \in Context
  BY DEF Step, Core
<1>2. CASE Passes
  <2>1. /\ Running /\ pc = "run" /\ pc' = "run" /\ Advance /\ ctx' = ctx
        /\ UNCHANGED << prog, store >>
    BY <1>1, <1>2 DEF Passes, Running, Continue
  <2>2. Running /\ Current.do = "redirect" /\ Current.when = "any" =>
          Target(ctx.query.name) = ctx.query.name
    BY <1>2 DEF Passes
  <2>3. QED
    BY <1>1, <2>1, <2>2, PathsSame
<1>3. CASE Attaches \/ Detaches \/ Marks
  <2>1. PICK d : /\ Continue(d) /\ d \in {WithSubnet(ctx), WithoutSubnet(ctx), Marked(ctx)}
                 /\ Running /\ Current.do # "redirect"
    BY <1>3 DEF Attaches, Detaches, Marks, At, Running
  <2>2. /\ d \in Context /\ d.query.name = ctx.query.name /\ d.original = ctx.original
        /\ d.rewrites = ctx.rewrites /\ d.resp = ctx.resp /\ d.served = ctx.served
    <3>1. CASE d = WithSubnet(ctx)
      BY <1>1, <3>1, WithSubnetFacts
    <3>2. CASE d = WithoutSubnet(ctx)
      BY <1>1, <3>2, WithoutSubnetFacts
    <3>3. CASE d = Marked(ctx)
      BY <1>1, <3>3, MarkedFacts
    <3>4. QED
      BY <2>1, <3>1, <3>2, <3>3
  <2>3. pc = "run" /\ pc' = "run" /\ Advance /\ ctx' = d /\ UNCHANGED << prog, store >>
    BY <1>1, <2>1 DEF Running, Continue
  <2>4. QED
    BY <2>1, <2>2, <2>3, PathsSame
<1>4. CASE Answers
  BY <1>1, <1>4, PathsAnswers
<1>5. CASE Rewrites
  BY <1>1, <1>5, PathsRewrites
<1>6. CASE \E t \in Cache : CacheStep(t)
  BY <1>1, <1>6, PathsCache
<1>7. CASE Ends
  BY <1>1, <1>7, PathsEnds
<1>8. CASE TimesOut
  <2>1. PICK r : r = Skeleton(ctx.query, "fail", run)
    OBVIOUS
  <2>2. ctx.query \in Query /\ run \in Nat
    BY <1>1, ContextFields, PipelineAssumption DEF Core
  <2>3. r \in Resp /\ r.rcode = "fail"
    BY <2>1, <2>2, SkeletonFacts
  <2>4. PICK d \in Context : d = SetResponse(ctx, r) /\ d.resp = r
    BY <1>1, <2>3, SetResponseFacts
  <2>5. pc' = "idle" /\ store' = store /\ ctx' = Finalize(d)
    BY <1>8, <2>1, <2>4 DEF TimesOut, Abort, Reject
  <2>6. QED
    BY <1>1, <2>3, <2>4, <2>5, PathsFails
<1>9. CASE Rejects
  BY <1>1, <1>9, PathsReject DEF Rejects
<1>10. CASE \E goto \in BOOLEAN : Call(goto)
  BY <1>1, <1>10, PathsCall
<1>11. CASE Resumes
  <2>1. /\ pc = "ret" /\ pc' = "run" /\ Advance /\ ctx' = ctx /\ UNCHANGED << prog, store >>
    BY <1>1, <1>11 DEF Resumes
  <2>2. ~ Running
    BY <2>1 DEF Running
  <2>3. QED
    BY <1>1, <2>1, <2>2, PathsSame
<1>12. QED
  BY <1>2, <1>3, <1>4, <1>5, <1>6, <1>7, <1>8, <1>9, <1>10, <1>11, StepKinds

LEMMA PathsInductive ==
  ASSUME Settled, RedirectsEnd, Core, Nesting, Paths, [Next]_vars
  PROVE  Paths'
<1>1. CASE Enters
  BY <1>1, PathsEnters
<1>2. CASE Refuses
  <2>1. PICK q, b, r :
          /\ q \in Query /\ b \in BOOLEAN /\ r = Skeleton(q, "fail", run)
          /\ ctx' = Finalize(SetResponse(NewContext(q, b), r))
    BY <1>2 DEF Refuses
  <2>2. r \in Resp /\ r.rcode = "fail"
    <3>1. run \in Nat
      BY PipelineAssumption DEF Core
    <3>2. QED
      BY <2>1, <3>1, SkeletonFacts
  <2>3. PICK c \in Context : c = NewContext(q, b)
    BY <2>1, NewContextFacts
  <2>4. PICK d \in Context : d = SetResponse(c, r) /\ d.resp = r
    BY <2>2, SetResponseFacts
  <2>5. pc' = "idle" /\ UNCHANGED << prog, store >> /\ ctx' = Finalize(d)
    BY <1>2, <2>1, <2>3, <2>4 DEF Refuses
  <2>6. QED
    BY <2>2, <2>4, <2>5, PathsFails
<1>3. CASE Step
  BY <1>3, PathsStep
<1>4. CASE UNCHANGED vars
  BY <1>4 DEF vars, Paths, PathsRun, Entries
<1>5. QED
  BY <1>1, <1>2, <1>3, <1>4, NextKinds

LEMMA PathsInit ==
  ASSUME Init
  PROVE  Paths
<1>1. NoQuery \in Query
  BY PipelineAssumption DEF NoQuery, Query
<1>2. ctx.resp.rcode = "absent"
  BY <1>1, NewContextFacts DEF Init
<1>3. ReplyOK(ctx)
  BY <1>2 DEF ReplyOK
<1>4. \A c \in Cache : DOMAIN store[c] = {}
  BY DEF Init
<1>5. Entries(prog, store)
  BY <1>4 DEF Entries
<1>6. QED
  BY <1>3, <1>5 DEF Init, Paths

LEMMA PathsAlways ==
  ASSUME Settled, RedirectsEnd
  PROVE  Spec => []Paths
<1>1. Init => Paths
  BY PathsInit
<1>2. Core /\ Nesting /\ Paths /\ [Next]_vars => Paths'
  BY PathsInductive
<1>3. QED
  BY <1>1, <1>2, CoreAlways, NestingAlways, PTL DEF Spec

(* What a cache holds under a key answers that key's question, in every    *)
(* configuration whose redirects settle and lead nowhere twice: whichever  *)
(* redirects came before or after the cache step, and whichever other      *)
(* caches and sequences the query went through (context.rs:                *)
(* response_for_query; sequence.rs: the snapshot of each cache step).      *)
THEOREM CachedCorrect ==
  ASSUME Settled, RedirectsEnd
  PROVE  Spec => []CachedAnswersKey
<1>1. ASSUME Core, Paths PROVE CachedAnswersKey
  <2>1. SUFFICES ASSUME NEW c \in Cache, NEW k \in DOMAIN store[c], NEW r, r = store[c][k]
                 PROVE  /\ r.name = k.name /\ Leads(k.name, r)
                        /\ r.edns => k.edns
                        /\ ~ r.private
    BY DEF CachedAnswersKey
  <2>2. r \in Resp /\ r.name = k.name /\ (r.edns => k.edns) /\ ~ r.private
    BY <1>1, <2>1 DEF Core, Stored
  <2>3. Via(k.name, r.chain, Goal(prog, c, k.name), r.own)
    BY <1>1, <2>1 DEF Paths, Entries, EntryOK
  <2>4. Walk(k.name, r.chain, r.own)
    BY <2>3, ViaFacts
  <2>5. Leads(k.name, r)
    BY <2>2, <2>4, WalkLeads
  <2>6. QED
    BY <2>2, <2>5
<1>2. QED
  BY <1>1, CoreAlways, PathsAlways, PTL

(* What is sent answers the question the client asked, along the aliases   *)
(* of the redirects the query took, in every such configuration            *)
(* (context.rs: rewrite_name, finalize_response).                          *)
THEOREM ReplyCorrect ==
  ASSUME Settled, RedirectsEnd
  PROVE  Spec => []ReplyAnswersClient
<1>1. ASSUME Core, Paths PROVE ReplyAnswersClient
  <2>1. SUFFICES ASSUME pc = "idle", ctx.resp.rcode \in {"ok", "nx"}
                 PROVE  ctx.resp.name = ctx.original.name /\ Leads(ctx.original.name, ctx.resp)
    BY DEF ReplyAnswersClient
  <2>2. /\ ctx.resp.name = ctx.original.name
        /\ Walk(ctx.original.name, ctx.resp.chain, ctx.resp.own)
    BY <1>1, <2>1 DEF Paths, ReplyOK
  <2>3. ctx.resp \in Resp
    BY <1>1, ContextFields DEF Core
  <2>4. QED
    BY <2>2, <2>3, WalkLeads
<1>2. QED
  BY <1>1, CoreAlways, PathsAlways, PTL

-----------------------------------------------------------------------------
(* The client subnet, in configurations that settle it in time. *)

EcsSettled == \A P \in Programs : EcsFirst(P)

(* No step of "main" before step p answers, or is a cache; none from step  *)
(* p on looks anything up.                                                 *)
Early(P, p) == \A j \in 1 .. (p - 1) : P["main"][j].do \notin Answering
Unkeyed(P, p) == \A j \in 1 .. (p - 1) : P["main"][j].do \notin Cache
Late(P, p) == \A j \in p .. Len(P["main"]) : P["main"][j].do \notin Cache \cup {"call", "goto"}

(* What a cache holds for questions without a subnet has none. *)
Plain(s) == \A c \in Cache : \A k \in DOMAIN s[c] : k.ecs = "none" => s[c][k].ecs = "none"

(* Where nothing is to be stripped, there is nothing to strip. *)
StripOK(c) ==
  ~ c.strip /\ c.original.ecs = "none" => c.query.ecs = "none" /\ c.resp.ecs = "none"

(* What the cache of lookup w would be given fits its key. *)
KeyOK(c, w) ==
  w.key.ecs = "none" => /\ c.query.ecs = "none"
                        /\ c.resp.rcode # "absent" => c.resp.ecs = "none"

(* An answer has a subnet the query has lost only past all lookups. *)
LostOK(P, n, p, c) ==
  c.resp.rcode # "absent" /\ c.query.ecs = "none" /\ c.resp.ecs # "none" => n = 1 /\ Late(P, p)

SubnetsRun ==
  /\ StripOK(ctx) /\ LostOK(prog, Len(frames), frames[1].i, ctx)
  /\ \A j \in 1 .. Len(frames) : \A l \in 1 .. Len(frames[j].writes) : KeyOK(ctx, frames[j].writes[l])
  /\ Unkeyed(prog, frames[1].i) => Len(frames[1].writes) = 0
  /\ pc = "run" /\ Len(frames) = 1 /\ Early(prog, frames[1].i) => ctx.resp.rcode = "absent"
  /\ ~ (pc = "run" /\ Len(frames) = 1) => ~ Early(prog, frames[1].i + 1)

Subnets ==
  /\ Plain(store)
  /\ pc = "idle" /\ ctx.original.ecs = "none" => ctx.resp.ecs = "none"
  /\ pc # "idle" => SubnetsRun

LEMMA EarlyLate ==
  ASSUME NEW P \in Programs, NEW p \in Nat \ {0}
  PROVE  /\ Early(P, p + 1) => Early(P, p) /\ P["main"][p].do \notin Answering
         /\ Early(P, p) => Unkeyed(P, p)
         /\ Unkeyed(P, p + 1) => Unkeyed(P, p) /\ P["main"][p].do \notin Cache
         /\ Late(P, p) => Late(P, p + 1)
         /\ Late(P, p) /\ p <= Len(P["main"]) => P["main"][p].do \notin Cache \cup {"call", "goto"}
<1>1. PICK L \in Nat : L = Len(P["main"])
  BY ProgramFacts
<1>2. ASSUME Early(P, p + 1) PROVE Early(P, p) /\ P["main"][p].do \notin Answering
  <2>1. p \in 1 .. (p + 1 - 1) /\ \A j \in 1 .. (p - 1) : j \in 1 .. (p + 1 - 1)
    OBVIOUS
  <2>2. QED
    BY <1>2, <2>1 DEF Early
<1>3. ASSUME Late(P, p) PROVE Late(P, p + 1)
  <2>1. \A j \in (p + 1) .. L : j \in p .. L
    OBVIOUS
  <2>2. QED
    BY <1>1, <1>3, <2>1 DEF Late
<1>4. ASSUME Late(P, p), p <= L PROVE P["main"][p].do \notin Cache \cup {"call", "goto"}
  <2>1. p \in p .. L
    BY <1>4
  <2>2. QED
    BY <1>1, <1>4, <2>1 DEF Late
<1>5. ASSUME Unkeyed(P, p + 1) PROVE Unkeyed(P, p) /\ P["main"][p].do \notin Cache
  <2>1. p \in 1 .. (p + 1 - 1) /\ \A j \in 1 .. (p - 1) : j \in 1 .. (p + 1 - 1)
    OBVIOUS
  <2>2. QED
    BY <1>5, <2>1 DEF Unkeyed
<1>6. Early(P, p) => Unkeyed(P, p)
  BY DEF Early, Unkeyed, Answering
<1>7. QED
  BY <1>1, <1>2, <1>3, <1>4, <1>5, <1>6

LEMMA SubnetsNow ==
  ASSUME Core, Subnets, pc # "idle"
  PROVE  /\ prog \in Programs /\ ctx \in Context /\ Plain(store)
         /\ StripOK(ctx) /\ LostOK(prog, Len(frames), frames[1].i, ctx)
         /\ \A j \in 1 .. Len(frames) : \A l \in 1 .. Len(frames[j].writes) :
              KeyOK(ctx, frames[j].writes[l])
         /\ Unkeyed(prog, frames[1].i) => Len(frames[1].writes) = 0
         /\ pc = "run" /\ Len(frames) = 1 /\ Early(prog, frames[1].i) =>
              ctx.resp.rcode = "absent"
         /\ ~ (pc = "run" /\ Len(frames) = 1) => ~ Early(prog, frames[1].i + 1)
  BY DEF Core, Subnets, SubnetsRun

(* A step that changes the context alone.  An answer that it makes, it     *)
(* makes at a step that may.                                               *)
LEMMA SubnetsAdvance ==
  ASSUME Core, Nesting, Subnets, Running, Advance, pc' = "run", UNCHANGED << prog, store >>,
         NEW d \in Context, ctx' = d,
         StripOK(d), LostOK(prog, Len(frames), frames'[1].i, d),
         \A j \in 1 .. Len(frames) : \A l \in 1 .. Len(frames[j].writes) :
           KeyOK(d, frames[j].writes[l]),
         d.resp.rcode # "absent" => ctx.resp.rcode # "absent" \/ Current.do \in Answering
  PROVE  Subnets'
<1>1. pc = "run"
  BY DEF Running
<1>2. PICK n \in Nat \ {0}, p \in Nat \ {0}, q \in Nat \ {0} :
        /\ n = Len(frames) /\ n = Len(frames') /\ p = frames[1].i /\ q = frames'[1].i
        /\ n = 1 => q = p + 1
        /\ n # 1 => q = p
        /\ \A j \in 1 .. n : frames'[j].writes = frames[j].writes
  BY <1>1, NestingAdvance
<1>3. PICK P \in Programs : P = prog
  BY DEF Core
<1>4. 1 \in 1 .. n
  BY <1>2
<1>5. ASSUME n = 1, Early(P, q) PROVE d.resp.rcode = "absent"
  <2>1. Early(P, p) /\ P["main"][p].do \notin Answering
    BY <1>2, <1>5, EarlyLate
  <2>2. Current = P["main"][p]
    BY <1>2, <1>3, <1>5, Place
  <2>3. ctx.resp.rcode = "absent"
    BY <1>1, <1>2, <1>3, <1>5, <2>1, SubnetsNow
  <2>4. QED
    BY <2>1, <2>2, <2>3
<1>6. ASSUME n # 1 PROVE ~ Early(P, q + 1)
  BY <1>1, <1>2, <1>3, <1>6, SubnetsNow
<1>7. \A j \in 1 .. n : \A l \in 1 .. Len(frames'[j].writes) : KeyOK(d, frames'[j].writes[l])
  BY <1>2
<1>8. Unkeyed(P, q) => Len(frames'[1].writes) = 0
  <2>1. Unkeyed(P, q) => Unkeyed(P, p)
    BY <1>2, EarlyLate
  <2>2. QED
    BY <1>1, <1>2, <1>3, <1>4, <2>1, SubnetsNow
<1>9. SubnetsRun'
  BY <1>2, <1>3, <1>5, <1>6, <1>7, <1>8 DEF SubnetsRun
<1>10. Plain(store')
  BY DEF Subnets
<1>11. QED
  BY <1>9, <1>10 DEF Subnets

(* It keeps the subnet and the answer. *)
LEMMA SubnetsSame ==
  ASSUME Core, Nesting, Subnets, Running, Advance, pc' = "run", UNCHANGED << prog, store >>,
         NEW d \in Context, ctx' = d, d.query.ecs = ctx.query.ecs, d.original = ctx.original,
         d.resp = ctx.resp, d.strip = ctx.strip
  PROVE  Subnets'
<1>1. pc # "idle"
  BY DEF Running
<1>2. PICK n \in Nat \ {0}, p \in Nat \ {0}, q \in Nat \ {0} :
        /\ n = Len(frames) /\ p = frames[1].i /\ q = frames'[1].i
        /\ n = 1 => q = p + 1
  BY <1>1, NestingAdvance
<1>3. PICK P \in Programs : P = prog
  BY DEF Core
<1>4. /\ StripOK(ctx) /\ LostOK(P, n, p, ctx)
      /\ \A j \in 1 .. Len(frames) : \A l \in 1 .. Len(frames[j].writes) :
           KeyOK(ctx, frames[j].writes[l])
  BY <1>1, <1>2, <1>3, SubnetsNow
<1>5. n = 1 /\ Late(P, p) => Late(P, q)
  BY <1>2, EarlyLate
<1>6. StripOK(d) /\ LostOK(P, n, q, d)
  BY <1>4, <1>5 DEF StripOK, LostOK
<1>7. \A j \in 1 .. Len(frames) : \A l \in 1 .. Len(frames[j].writes) :
        KeyOK(d, frames[j].writes[l])
  BY <1>4 DEF KeyOK
<1>8. QED
  BY <1>2, <1>3, <1>6, <1>7, SubnetsAdvance

LEMMA SubnetsAnswers ==
  ASSUME Core, Nesting, Subnets, Answers, prog' = prog
  PROVE  Subnets'
<1>1. PICK r : /\ Made(r) /\ (r.rcode # "absent" => Current.do \in Answerers)
               /\ Running /\ Continue(SetResponse(ctx, r))
  BY DEF Answers
<1>2. PICK d : d = SetResponse(ctx, r)
  OBVIOUS
<1>3. pc = "run" /\ pc' = "run" /\ Advance /\ UNCHANGED << prog, store >> /\ ctx' = d
  BY <1>1, <1>2 DEF Running, Continue
<1>4. r \in Resp /\ r.ecs = ctx.query.ecs
  BY <1>1 DEF Made
<1>5. /\ d \in Context /\ d.resp = r /\ d.query = ctx.query /\ d.original = ctx.original
      /\ d.strip = ctx.strip
  BY <1>2, <1>4, SetResponseFacts DEF Core
<1>6. /\ StripOK(ctx)
      /\ \A j \in 1 .. Len(frames) : \A l \in 1 .. Len(frames[j].writes) :
           KeyOK(ctx, frames[j].writes[l])
  BY <1>3, SubnetsNow
<1>7. StripOK(d) /\ LostOK(prog, Len(frames), frames'[1].i, d)
  BY <1>4, <1>5, <1>6 DEF StripOK, LostOK
<1>8. \A j \in 1 .. Len(frames) : \A l \in 1 .. Len(frames[j].writes) :
        KeyOK(d, frames[j].writes[l])
  BY <1>4, <1>5, <1>6 DEF KeyOK
<1>9. d.resp.rcode # "absent" => Current.do \in Answering
  BY <1>1, <1>5 DEF Answerers, Answering
<1>10. QED
  BY <1>1, <1>3, <1>5, <1>7, <1>8, <1>9, SubnetsAdvance

LEMMA EcsPlace ==
  ASSUME EcsSettled, Core, Nesting, Running, Current.do \in {"ecs", "no_ecs"},
         NEW p \in Nat \ {0}, p = frames[1].i
  PROVE  /\ Len(frames) = 1
         /\ Current.do = "ecs" => Unkeyed(prog, p)
         /\ Current.do = "no_ecs" => Early(prog, p) \/ Late(prog, p + 1)
<1>1. PICK P \in Programs : P = prog
  BY DEF Core
<1>2. EcsFirst(P)
  BY DEF EcsSettled
<1>3. Len(frames) = 1
  <2>1. SUFFICES ASSUME Len(frames) # 1 PROVE FALSE
    OBVIOUS
  <2>2. Top.i \in 1 .. Len(P["sub"]) /\ Current = P["sub"][Top.i]
    BY <1>1, <2>1, Place
  <2>3. QED
    BY <1>2, <2>2 DEF EcsFirst
<1>4. p \in 1 .. Len(P["main"]) /\ Current = P["main"][p]
  BY <1>1, <1>3, Place
<1>5. Current.do = "ecs" => \A j \in 1 .. (p - 1) : P["main"][j].do \notin Cache
  BY <1>2, <1>4 DEF EcsFirst
<1>6. Current.do = "no_ecs" =>
        \/ \A j \in 1 .. (p - 1) : P["main"][j].do \notin Answering
        \/ \A j \in (p + 1) .. Len(P["main"]) : P["main"][j].do \notin Cache \cup {"call", "goto"}
  BY <1>2, <1>4 DEF EcsFirst
<1>7. QED
  BY <1>1, <1>3, <1>5, <1>6 DEF Unkeyed, Early, Late

(* A step that attaches a subnet has no lookups behind it; one that takes  *)
(* it off has no answer behind it, or no lookups before it.                *)
LEMMA SubnetsSettles ==
  ASSUME EcsSettled, Core, Nesting, Subnets, Attaches \/ Detaches, prog' = prog
  PROVE  Subnets'
<1>1. PICK d : /\ Continue(d) /\ Running
               /\ \/ Current.do = "ecs" /\ d = WithSubnet(ctx)
                  \/ Current.do = "no_ecs" /\ d = WithoutSubnet(ctx)
  BY DEF Attaches, Detaches, At, Running
<1>2. pc = "run" /\ pc' = "run" /\ Advance /\ UNCHANGED << prog, store >> /\ ctx' = d
  BY <1>1 DEF Running, Continue
<1>3. PICK c \in Context, P \in Programs : c = ctx /\ P = prog
  BY DEF Core
<1>4. /\ d \in Context /\ d.strip = TRUE /\ d.resp = c.resp
      /\ Current.do = "ecs" => d.query.ecs = OurSubnet
      /\ Current.do = "no_ecs" => d.query.ecs = "none"
  <2>1. CASE Current.do = "ecs" /\ d = WithSubnet(c)
    BY <2>1, WithSubnetFacts
  <2>2. CASE Current.do = "no_ecs" /\ d = WithoutSubnet(c)
    BY <2>2, WithoutSubnetFacts
  <2>3. QED
    BY <1>1, <1>3, <2>1, <2>2
<1>5. PICK p \in Nat \ {0}, q \in Nat \ {0} :
        p = frames[1].i /\ q = frames'[1].i /\ (Len(frames) = 1 => q = p + 1)
  BY <1>2, NestingAdvance
<1>6. /\ Len(frames) = 1
      /\ Current.do = "ecs" => Unkeyed(P, p)
      /\ Current.do = "no_ecs" => Early(P, p) \/ Late(P, p + 1)
  BY <1>1, <1>3, <1>5, EcsPlace
<1>7. /\ \A j \in 1 .. Len(frames) : \A l \in 1 .. Len(frames[j].writes) :
           KeyOK(c, frames[j].writes[l])
      /\ Unkeyed(P, p) => Len(frames[1].writes) = 0
      /\ Early(P, p) => c.resp.rcode = "absent"
  BY <1>2, <1>3, <1>5, <1>6, SubnetsNow
<1>8. StripOK(d)
  BY <1>4 DEF StripOK
<1>9. LostOK(P, Len(frames), q, d)
  <2>1. CASE Current.do = "ecs"
    BY <1>4, <2>1, PipelineAssumption DEF LostOK
  <2>2. CASE Current.do = "no_ecs"
    BY <1>4, <1>5, <1>6, <1>7, <2>2 DEF LostOK
  <2>3. QED
    BY <1>1, <2>1, <2>2
<1>10. \A j \in 1 .. Len(frames) : \A l \in 1 .. Len(frames[j].writes) :
         KeyOK(d, frames[j].writes[l])
  <2>1. CASE Current.do = "ecs"
    <3>1. Len(frames) = 1 /\ Len(frames[1].writes) = 0
      BY <1>6, <1>7, <2>1
    <3>2. QED
      BY <3>1
  <2>2. CASE Current.do = "no_ecs"
    BY <1>4, <1>7, <2>2 DEF KeyOK
  <2>3. QED
    BY <1>1, <2>1, <2>2
<1>11. QED
  BY <1>1, <1>2, <1>3, <1>4, <1>5, <1>8, <1>9, <1>10, SubnetsAdvance

LEMMA SubnetsCache ==
  ASSUME Core, Nesting, Subnets, NEW t \in Cache, CacheStep(t), prog' = prog
  PROVE  Subnets'
<1>1. pc = "run" /\ Running /\ Current.do = t /\ UNCHANGED << store, pc >>
  BY DEF CacheStep, At, Running
<1>2. PICK c \in Context, P \in Programs : c = ctx /\ P = prog
  BY DEF Core
<1>3. PICK n \in Nat \ {0}, p \in Nat \ {0}, q \in Nat \ {0} :
        /\ n = Len(frames) /\ n = Len(frames') /\ p = frames[1].i /\ q = frames'[1].i
        /\ n = 1 => q = p + 1
        /\ n # 1 => q = p
  BY NestingCache
<1>4. /\ StripOK(c) /\ LostOK(P, n, p, c) /\ Plain(store)
      /\ \A j \in 1 .. n : \A l \in 1 .. Len(frames[j].writes) : KeyOK(c, frames[j].writes[l])
      /\ n # 1 => ~ Early(P, p + 1)
      /\ Unkeyed(P, p) => Len(frames[1].writes) = 0
  BY <1>1, <1>2, <1>3, SubnetsNow
<1>5. n = 1 => p <= Len(P["main"]) /\ P["main"][p].do = t
  <2>1. n = 1 => p \in 1 .. Len(P["main"]) /\ P["main"][p].do = t
    BY <1>1, <1>2, <1>3, Place
  <2>2. QED
    BY <2>1, ProgramFacts
<1>6. c.resp.rcode # "absent" /\ c.query.ecs = "none" => c.resp.ecs = "none"
  <2>1. n = 1 => ~ Late(P, p)
    BY <1>5, EarlyLate
  <2>2. QED
    BY <1>4, <2>1 DEF LostOK
<1>7. ~ Early(P, p + 1)
  <2>1. n = 1 => P["main"][p].do \in Answering
    BY <1>5 DEF Answering
  <2>2. QED
    BY <1>4, <2>1, EarlyLate
<1>8. PICK d : d = ctx'
  OBVIOUS
<1>9. /\ d \in Context /\ d.query = c.query /\ d.original = c.original /\ d.strip = c.strip
      /\ d.resp = c.resp \/ (c.query.ecs = "none" => d.resp.ecs = "none")
  <2>1. \/ d = c
        \/ c.query \in DOMAIN store[t] /\ d = Hit(t)
    BY <1>2, <1>8 DEF CacheStep
  <2>2. CASE d = c
    BY <2>2
  <2>3. CASE c.query \in DOMAIN store[t] /\ d = Hit(t)
    <3>1. /\ d \in Context /\ d.query = c.query /\ d.original = c.original /\ d.strip = c.strip
          /\ d.resp.ecs \in {store[t][c.query].ecs, "none"}
      BY <1>2, <2>3, HitFacts
    <3>2. c.query.ecs = "none" => store[t][c.query].ecs = "none"
      BY <1>4, <2>3 DEF Plain
    <3>3. QED
      BY <3>1, <3>2
  <2>4. QED
    BY <2>1, <2>2, <2>3
<1>10. d.resp.rcode # "absent" /\ d.query.ecs = "none" => d.resp.ecs = "none"
  BY <1>6, <1>9
<1>11. StripOK(d)
  BY <1>4, <1>9 DEF StripOK
<1>12. LostOK(P, n, q, d)
  BY <1>10 DEF LostOK
<1>13. ASSUME NEW j \in 1 .. n, NEW l \in 1 .. Len(frames'[j].writes)
       PROVE  KeyOK(d, frames'[j].writes[l])
  <2>1. ASSUME NEW i \in 1 .. n, NEW m \in 1 .. Len(frames[i].writes)
        PROVE  KeyOK(d, frames[i].writes[m])
    <3>1. KeyOK(c, frames[i].writes[m])
      BY <1>4, <2>1
    <3>2. QED
      BY <1>9, <1>10, <3>1 DEF KeyOK
  <2>2. CASE j # n
    <3>1. frames'[j] = frames[j]
      BY <1>3, <2>2, CacheFrames
    <3>2. QED
      BY <1>13, <2>1, <3>1
  <2>3. CASE j = n
    <3>1. \/ \E m \in 1 .. Len(Top.writes) : frames'[n].writes[l] = Top.writes[m]
          \/ frames'[n].writes[l] = [cache |-> t, key |-> ctx.query, start |-> Len(ctx.rewrites)]
      BY <1>3, <1>13, <2>3, CacheFrames
    <3>2. Top = frames[n] /\ n \in 1 .. n
      BY <1>3 DEF Top
    <3>3. PICK w : w = [cache |-> t, key |-> ctx.query, start |-> Len(ctx.rewrites)]
      OBVIOUS
    <3>4. w.key = d.query
      BY <1>2, <1>9, <3>3
    <3>5. KeyOK(d, w)
      BY <1>10, <3>4 DEF KeyOK
    <3>6. QED
      BY <2>1, <2>3, <3>1, <3>2, <3>3, <3>5
  <2>4. QED
    BY <2>2, <2>3
<1>14. ~ (n = 1 /\ Early(P, q)) /\ (n # 1 => ~ Early(P, q + 1))
  BY <1>3, <1>7
<1>15. Unkeyed(P, q) => Len(frames'[1].writes) = 0
  <2>1. CASE n = 1
    BY <1>3, <1>5, <2>1, EarlyLate
  <2>2. CASE n # 1
    <3>1. 1 \in 1 .. n /\ 1 # n
      BY <2>2
    <3>2. frames'[1] = frames[1]
      BY <1>3, <3>1, CacheFrames
    <3>3. QED
      BY <1>3, <1>4, <2>2, <3>2
  <2>3. QED
    BY <2>1, <2>2
<1>16. SubnetsRun'
  BY <1>1, <1>2, <1>3, <1>8, <1>11, <1>12, <1>13, <1>14, <1>15 DEF SubnetsRun
<1>17. Plain(store')
  BY <1>1, <1>4
<1>18. QED
  BY <1>1, <1>16, <1>17 DEF Subnets

LEMMA PlainStored ==
  ASSUME Core, Subnets, pc # "idle"
  PROVE  Plain(StoreWrites(Top.writes))
<1>1. PICK c, s : c \in Context /\ c = ctx /\ s = StoreWrites(Top.writes)
  BY DEF Core
<1>2. SUFFICES ASSUME NEW t \in Cache, NEW k \in DOMAIN s[t], k.ecs = "none"
               PROVE  s[t][k].ecs = "none"
  BY <1>1 DEF Plain
<1>3. CASE k \in DOMAIN store[t] /\ s[t][k] = store[t][k]
  BY <1>2, <1>3, SubnetsNow DEF Plain
<1>4. CASE ~ (k \in DOMAIN store[t] /\ s[t][k] = store[t][k])
  <2>1. PICK w \in Write :
          /\ \E j \in 1 .. Len(Top.writes) : w = Top.writes[j]
          /\ w.key = k /\ s[t][k] = ResponseForQuery(c.resp, c.rewrites, w.key, w.start)
    BY <1>1, <1>4, StoreWritesFacts
  <2>2. Storable(c)
    BY <1>1, <1>4, StoreWritesFacts
  <2>3. Len(frames) \in 1 .. Len(frames) /\ Top = frames[Len(frames)]
    BY TopFacts
  <2>4. KeyOK(c, w)
    BY <1>1, <2>1, <2>3, SubnetsNow
  <2>5. c.resp.ecs = "none"
    BY <1>2, <2>1, <2>2, <2>4 DEF KeyOK, Storable
  <2>6. PICK r \in Resp, R \in Seq(Alias), b \in Nat, h \in Query :
          r = c.resp /\ R = c.rewrites /\ b = w.start /\ h = w.key
    BY <1>1, ContextFields DEF Write
  <2>7. PICK x : x = ResponseForQuery(r, R, h, b)
    OBVIOUS
  <2>8. x.ecs \in {r.ecs, "none"}
    BY <2>7, ResponseFacts
  <2>9. QED
    BY <2>1, <2>5, <2>6, <2>7, <2>8
<1>5. QED
  BY <1>3, <1>4

LEMMA FinalPlain ==
  ASSUME NEW c \in Context, StripOK(c)
  PROVE  Finalize(c).original.ecs = "none" => Finalize(c).resp.ecs = "none"
<1>1. PICK x : x = Finalize(c)
  OBVIOUS
<1>2. /\ x.original = c.original /\ x.resp.ecs \in {c.resp.ecs, "none"}
      /\ c.strip => x.resp.ecs = "none"
  BY <1>1, FinalizeFacts
<1>3. QED
  BY <1>1, <1>2 DEF StripOK

LEMMA SubnetsFinal ==
  ASSUME pc' = "idle", Plain(store'), NEW c \in Context, StripOK(c), ctx' = Finalize(c)
  PROVE  Subnets'
<1>1. ctx'.original.ecs = "none" => ctx'.resp.ecs = "none"
  BY FinalPlain
<1>2. QED
  BY <1>1 DEF Subnets

LEMMA SubnetsEnds ==
  ASSUME Core, Nesting, Subnets, Ends, prog' = prog
  PROVE  Subnets'
<1>1. /\ pc # "idle" /\ store' \in {StoreWrites(Top.writes), store}
      /\ pc' = IF Len(frames) = 1 THEN "idle" ELSE "ret"
      /\ ctx' = IF Len(frames) = 1 THEN Finalize(ctx) ELSE ctx
  BY DEF Ends, Finish
<1>2. PICK n \in Nat \ {0} : n = Len(frames)
  BY NestingEnds
<1>3. Plain(store')
  BY <1>1, PlainStored DEF Subnets
<1>4. /\ ctx \in Context /\ StripOK(ctx) /\ LostOK(prog, n, frames[1].i, ctx)
      /\ \A j \in 1 .. n : \A l \in 1 .. Len(frames[j].writes) : KeyOK(ctx, frames[j].writes[l])
      /\ n # 1 => ~ Early(prog, frames[1].i + 1)
      /\ Unkeyed(prog, frames[1].i) => Len(frames[1].writes) = 0
  BY <1>1, <1>2, SubnetsNow
<1>5. CASE n = 1
  <2>1. pc' = "idle" /\ ctx' = Finalize(ctx)
    BY <1>1, <1>2, <1>5
  <2>2. QED
    BY <1>3, <1>4, <2>1, SubnetsFinal
<1>6. CASE n # 1
  <2>1. pc' = "ret" /\ ctx' = ctx
    BY <1>1, <1>2, <1>6
  <2>2. /\ frames'[1] = frames[1]
        /\ \A j \in 1 .. Len(frames') : j \in 1 .. n /\ frames'[j] = frames[j]
    BY <1>2, <1>6, NestingEnds
  <2>3. LostOK(prog, Len(frames'), frames'[1].i, ctx)
    BY <1>4, <1>6 DEF LostOK
  <2>4. \A j \in 1 .. Len(frames') : \A l \in 1 .. Len(frames'[j].writes) :
          KeyOK(ctx, frames'[j].writes[l])
    BY <1>4, <2>2
  <2>5. ~ Early(prog, frames'[1].i + 1)
    BY <1>4, <1>6, <2>2
  <2>6. SubnetsRun'
    BY <1>4, <2>1, <2>2, <2>3, <2>4, <2>5 DEF SubnetsRun
  <2>7. QED
    BY <1>3, <2>1, <2>6 DEF Subnets
<1>7. QED
  BY <1>5, <1>6

LEMMA SubnetsReject ==
  ASSUME Core, Nesting, Subnets, prog' = prog,
         NEW rcode \in {"ok", "nx", "fail"}, RejectStep(rcode)
  PROVE  Subnets'
<1>1. /\ pc = "run" /\ Running /\ Current.do = "reject"
      /\ ctx' = Reject(ctx, rcode) /\ pc' = "ret" /\ UNCHANGED << store, frames >>
  BY DEF RejectStep, At, Running
<1>2. PICK c \in Context, P \in Programs : c = ctx /\ P = prog
  BY DEF Core
<1>3. PICK n \in Nat \ {0}, p \in Nat \ {0} : n = Len(frames) /\ p = frames[1].i
  <2>1. PICK n \in Nat \ {0} : n = Len(frames) /\ \A j \in 1 .. n : frames[j] \in FrameRec
    BY <1>1, TopFacts
  <2>2. 1 \in 1 .. n
    OBVIOUS
  <2>3. QED
    BY <1>1, <2>1, <2>2 DEF Nesting, FrameRec
<1>4. /\ StripOK(c) /\ Plain(store)
      /\ \A j \in 1 .. n : \A l \in 1 .. Len(frames[j].writes) : KeyOK(c, frames[j].writes[l])
      /\ n # 1 => ~ Early(P, p + 1)
      /\ Unkeyed(P, p) => Len(frames[1].writes) = 0
  BY <1>1, <1>2, <1>3, SubnetsNow
<1>5. ~ Early(P, p + 1)
  <2>1. n = 1 => P["main"][p].do = "reject"
    BY <1>1, <1>2, <1>3, Place
  <2>2. n = 1 => P["main"][p].do \in Answering
    BY <2>1 DEF Answering
  <2>3. QED
    BY <1>4, <2>2, EarlyLate
<1>6. PICK r : r = Skeleton(c.query, rcode, run)
  OBVIOUS
<1>7. r \in Resp /\ r.ecs = c.query.ecs
  <2>1. run \in Nat /\ c.query \in Query
    BY ContextFields, PipelineAssumption DEF Core
  <2>2. QED
    BY <1>6, <2>1, SkeletonFacts
<1>8. PICK d \in Context : /\ d = SetResponse(c, r) /\ d.resp = r /\ d.query = c.query
                           /\ d.original = c.original /\ d.strip = c.strip
  BY <1>7, SetResponseFacts
<1>9. ctx' = d
  BY <1>1, <1>2, <1>6, <1>8 DEF Reject
<1>10. StripOK(d) /\ LostOK(P, n, p, d)
  BY <1>4, <1>7, <1>8 DEF StripOK, LostOK
<1>11. \A j \in 1 .. n : \A l \in 1 .. Len(frames[j].writes) : KeyOK(d, frames[j].writes[l])
  BY <1>4, <1>7, <1>8 DEF KeyOK
<1>12. SubnetsRun'
  BY <1>1, <1>2, <1>3, <1>4, <1>5, <1>9, <1>10, <1>11 DEF SubnetsRun
<1>13. QED
  BY <1>1, <1>4, <1>12 DEF Subnets

LEMMA SubnetsCall ==
  ASSUME Core, Nesting, Subnets, NEW goto \in BOOLEAN, Call(goto), prog' = prog
  PROVE  Subnets'
<1>1. /\ pc = "run" /\ Running /\ Current.do \in {"goto", "call"}
      /\ frames' = Append([frames EXCEPT ![Len(frames)].goto = goto], Frame("sub"))
      /\ UNCHANGED << store, pc, ctx >>
  BY DEF Call, At, Running
<1>2. PICK c \in Context, P \in Programs : c = ctx /\ P = prog
  BY DEF Core
<1>3. PICK n \in Nat \ {0}, p \in Nat \ {0} :
        /\ n = Len(frames) /\ p = frames[1].i /\ p = frames'[1].i /\ Len(frames') = n + 1
        /\ \A j \in 1 .. n : frames'[j].writes = frames[j].writes
        /\ Len(frames'[n + 1].writes) = 0
  BY <1>1, NestingCall
<1>4. /\ StripOK(c) /\ LostOK(P, n, p, c) /\ Plain(store)
      /\ \A j \in 1 .. n : \A l \in 1 .. Len(frames[j].writes) : KeyOK(c, frames[j].writes[l])
      /\ n # 1 => ~ Early(P, p + 1)
      /\ Unkeyed(P, p) => Len(frames[1].writes) = 0
  BY <1>1, <1>2, <1>3, SubnetsNow
<1>5. n = 1 => p <= Len(P["main"]) /\ P["main"][p].do \in {"goto", "call"}
  <2>1. n = 1 => p \in 1 .. Len(P["main"]) /\ P["main"][p].do \in {"goto", "call"}
    BY <1>1, <1>2, <1>3, Place
  <2>2. QED
    BY <2>1, ProgramFacts
<1>6. LostOK(P, n + 1, p, c)
  <2>1. n = 1 => ~ Late(P, p)
    BY <1>5, EarlyLate
  <2>2. QED
    BY <1>4, <2>1 DEF LostOK
<1>7. ~ Early(P, p + 1)
  <2>1. n = 1 => P["main"][p].do \in Answering
    BY <1>5 DEF Answering
  <2>2. QED
    BY <1>4, <2>1, EarlyLate
<1>8. ASSUME NEW j \in 1 .. (n + 1), NEW l \in 1 .. Len(frames'[j].writes)
      PROVE  KeyOK(c, frames'[j].writes[l])
  <2>1. j \in 1 .. n \/ j = n + 1
    BY <1>8
  <2>2. CASE j \in 1 .. n
    BY <1>3, <1>4, <1>8, <2>2
  <2>3. CASE j = n + 1
    BY <1>3, <1>8, <2>3
  <2>4. QED
    BY <2>1, <2>2, <2>3
<1>9. pc' = "run" /\ store' = store /\ ctx' = ctx
  BY <1>1
<1>10. n + 1 # 1 /\ 1 \in 1 .. n
  BY <1>3
<1>11. SubnetsRun'
  BY <1>2, <1>3, <1>4, <1>6, <1>7, <1>8, <1>9, <1>10 DEF SubnetsRun
<1>12. QED
  BY <1>4, <1>9, <1>11 DEF Subnets

LEMMA SubnetsResumes ==
  ASSUME Core, Nesting, Subnets, Resumes, prog' = prog
  PROVE  Subnets'
<1>1. pc = "ret" /\ pc' = "run" /\ Advance /\ UNCHANGED << store, ctx >>
  BY DEF Resumes
<1>2. PICK c \in Context, P \in Programs : c = ctx /\ P = prog
  BY DEF Core
<1>3. PICK n \in Nat \ {0}, p \in Nat \ {0}, q \in Nat \ {0} :
        /\ n = Len(frames) /\ n = Len(frames') /\ p = frames[1].i /\ q = frames'[1].i
        /\ n = 1 => q = p + 1
        /\ n # 1 => q = p
        /\ \A j \in 1 .. n : frames'[j].writes = frames[j].writes
  BY <1>1, NestingAdvance
<1>4. /\ StripOK(c) /\ LostOK(P, n, p, c) /\ Plain(store)
      /\ \A j \in 1 .. n : \A l \in 1 .. Len(frames[j].writes) : KeyOK(c, frames[j].writes[l])
      /\ ~ Early(P, p + 1)
      /\ Unkeyed(P, p) => Len(frames[1].writes) = 0
  BY <1>1, <1>2, <1>3, SubnetsNow
<1>5. LostOK(P, n, q, c)
  <2>1. n = 1 /\ Late(P, p) => Late(P, q)
    BY <1>3, EarlyLate
  <2>2. QED
    BY <1>4, <2>1 DEF LostOK
<1>6. \A j \in 1 .. n : \A l \in 1 .. Len(frames'[j].writes) : KeyOK(c, frames'[j].writes[l])
  BY <1>3, <1>4
<1>7. ~ (n = 1 /\ Early(P, q)) /\ (n # 1 => ~ Early(P, q + 1))
  BY <1>3, <1>4
<1>8. pc' = "run" /\ store' = store /\ ctx' = ctx
  BY <1>1
<1>9. Unkeyed(P, q) => Len(frames'[1].writes) = 0
  <2>1. Unkeyed(P, q) => Unkeyed(P, p)
    BY <1>3, EarlyLate
  <2>2. 1 \in 1 .. n
    BY <1>3
  <2>3. QED
    BY <1>3, <1>4, <2>1, <2>2
<1>10. SubnetsRun'
  BY <1>2, <1>3, <1>4, <1>5, <1>6, <1>7, <1>8, <1>9 DEF SubnetsRun
<1>11. QED
  BY <1>4, <1>8, <1>10 DEF Subnets

LEMMA SubnetsEnters ==
  ASSUME Core, Subnets, Enters
  PROVE  Subnets'
<1>1. /\ pc' = "run" /\ frames' = << Frame("main") >> /\ FreshContext(ctx')
      /\ UNCHANGED << prog, store >>
  BY DEF Enters
<1>2. Len(frames') = 1 /\ frames'[1] = Frame("main")
  BY <1>1, MainFrame
<1>3. frames'[1].i = 1 /\ Len(frames'[1].writes) = 0
  BY <1>2, FrameFacts, NoWrites DEF Tag
<1>4. PICK d : d = ctx'
  OBVIOUS
<1>5. d.original = d.query /\ d.resp.rcode = "absent" /\ d.resp.ecs = d.query.ecs
  BY <1>1, <1>4 DEF FreshContext
<1>6. StripOK(d) /\ LostOK(prog, 1, 1, d)
  BY <1>5 DEF StripOK, LostOK
<1>7. \A j \in 1 .. Len(frames') : \A l \in 1 .. Len(frames'[j].writes) : FALSE
  BY <1>2, <1>3
<1>8. SubnetsRun'
  BY <1>1, <1>2, <1>3, <1>4, <1>5, <1>6, <1>7 DEF SubnetsRun
<1>9. Plain(store')
  BY <1>1 DEF Subnets
<1>10. QED
  BY <1>1, <1>8, <1>9 DEF Subnets

LEMMA SubnetsStep ==
  ASSUME EcsSettled, Core, Nesting, Subnets, Step
  PROVE  Subnets'
<1>1. prog' = prog /\ ctx \in Context
  BY DEF Step, Core
<1>2. CASE Passes \/ Rewrites \/ Marks
  <2>1. PICK d : Continue(d) /\ Running /\ d \in {ctx, Redirected(ctx), Marked(ctx)}
    BY <1>2 DEF Passes, Rewrites, Marks, At, Running
  <2>2. /\ d \in Context /\ d.query.ecs = ctx.query.ecs /\ d.original = ctx.original
        /\ d.resp = ctx.resp /\ d.strip = ctx.strip
    <3>1. CASE d = ctx
      BY <1>1, <3>1
    <3>2. CASE d = Redirected(ctx)
      BY <1>1, <3>2, RedirectedFacts
    <3>3. CASE d = Marked(ctx)
      BY <1>1, <3>3, MarkedFacts
    <3>4. QED
      BY <2>1, <3>1, <3>2, <3>3
  <2>3. pc' = "run" /\ Advance /\ ctx' = d /\ UNCHANGED << prog, store >>
    BY <1>1, <2>1 DEF Running, Continue
  <2>4. QED
    BY <2>1, <2>2, <2>3, SubnetsSame
<1>3. CASE Attaches \/ Detaches
  BY <1>1, <1>3, SubnetsSettles
<1>4. CASE Answers
  BY <1>1, <1>4, SubnetsAnswers
<1>5. CASE \E t \in Cache : CacheStep(t)
  BY <1>1, <1>5, SubnetsCache
<1>6. CASE Ends
  BY <1>1, <1>6, SubnetsEnds
<1>7. CASE TimesOut
  <2>1. pc = "run" /\ pc' = "idle" /\ store' = store /\ ctx' = Finalize(Reject(ctx, "fail"))
    BY <1>7 DEF TimesOut, At, Abort
  <2>2. PICK r : r = Skeleton(ctx.query, "fail", run)
    OBVIOUS
  <2>3. ctx.query \in Query /\ run \in Nat
    BY <1>1, ContextFields, PipelineAssumption DEF Core
  <2>4. r \in Resp /\ r.ecs = ctx.query.ecs
    BY <2>2, <2>3, SkeletonFacts
  <2>5. PICK d \in Context : /\ d = SetResponse(ctx, r) /\ d.resp = r /\ d.query = ctx.query
                             /\ d.original = ctx.original /\ d.strip = ctx.strip
    BY <1>1, <2>4, SetResponseFacts
  <2>6. ctx' = Finalize(d)
    BY <2>1, <2>2, <2>5 DEF Reject
  <2>7. StripOK(ctx) /\ Plain(store)
    BY <2>1, SubnetsNow
  <2>8. StripOK(d)
    BY <2>4, <2>5, <2>7 DEF StripOK
  <2>9. QED
    BY <2>1, <2>5, <2>6, <2>7, <2>8, SubnetsFinal
<1>8. CASE Rejects
  BY <1>1, <1>8, SubnetsReject DEF Rejects
<1>9. CASE \E goto \in BOOLEAN : Call(goto)
  BY <1>1, <1>9, SubnetsCall
<1>10. CASE Resumes
  BY <1>1, <1>10, SubnetsResumes
<1>11. QED
  BY <1>2, <1>3, <1>4, <1>5, <1>6, <1>7, <1>8, <1>9, <1>10, StepKinds

LEMMA SubnetsInductive ==
  ASSUME EcsSettled, Core, Nesting, Subnets, [Next]_vars
  PROVE  Subnets'
<1>1. CASE Enters
  BY <1>1, SubnetsEnters
<1>2. CASE Refuses
  <2>1. PICK q, b, r :
          /\ q \in Query /\ b \in BOOLEAN /\ r = Skeleton(q, "fail", run)
          /\ ctx' = Finalize(SetResponse(NewContext(q, b), r))
    BY <1>2 DEF Refuses
  <2>2. r \in Resp /\ r.ecs = q.ecs
    <3>1. run \in Nat
      BY PipelineAssumption DEF Core
    <3>2. QED
      BY <2>1, <3>1, SkeletonFacts
  <2>3. PICK c \in Context : c = NewContext(q, b) /\ c.query = q /\ c.original = q
    BY <2>1, NewContextFacts
  <2>4. PICK d \in Context : /\ d = SetResponse(c, r) /\ d.resp = r
                             /\ d.query = c.query /\ d.original = c.original
    BY <2>2, SetResponseFacts
  <2>5. pc' = "idle" /\ store' = store /\ ctx' = Finalize(d)
    BY <1>2, <2>1, <2>3, <2>4 DEF Refuses
  <2>6. StripOK(d)
    BY <2>2, <2>3, <2>4 DEF StripOK
  <2>7. Plain(store')
    BY <2>5 DEF Subnets
  <2>8. QED
    BY <2>5, <2>6, <2>7, SubnetsFinal
<1>3. CASE Step
  BY <1>3, SubnetsStep
<1>4. CASE UNCHANGED vars
  BY <1>4 DEF vars, Subnets, SubnetsRun
<1>5. QED
  BY <1>1, <1>2, <1>3, <1>4, NextKinds

LEMMA SubnetsInit ==
  ASSUME Init
  PROVE  Subnets
<1>1. NoQuery \in Query /\ NoQuery.ecs = "none"
  BY PipelineAssumption DEF NoQuery, Query
<1>2. ctx.resp.ecs = "none"
  BY <1>1, NewContextFacts DEF Init
<1>3. \A c \in Cache : DOMAIN store[c] = {}
  BY DEF Init
<1>4. Plain(store)
  BY <1>3 DEF Plain
<1>5. QED
  BY <1>2, <1>4 DEF Init, Subnets

(* A client that sent no subnet never sees one in the reply, be it the     *)
(* upstream's, a cache's or an error made up on the spot, in every         *)
(* configuration that attaches it before the caches of "main", whatever    *)
(* may have answered before, and takes it off before anything answers or   *)
(* after the last cache (ecs.rs: exec; server.rs: handle).                 *)
THEOREM PrivacyCorrect ==
  ASSUME EcsSettled
  PROVE  Spec => []EcsPrivacy
<1>1. Init => Subnets
  BY SubnetsInit
<1>2. Core /\ Nesting /\ Subnets /\ [Next]_vars => Subnets'
  BY SubnetsInductive
<1>3. Subnets => EcsPrivacy
  BY DEF Subnets, EcsPrivacy
<1>4. QED
  BY <1>1, <1>2, <1>3, CoreAlways, NestingAlways, PTL DEF Spec

-----------------------------------------------------------------------------
(* Refreshes.  As long as a run has had no answer and asked no upstream,   *)
(* the step it is at, with the query, the mark and the client, determines  *)
(* its next one, caches or not.  A refresh starts where the run it was spawned by did,   *)
(* so it comes by the same steps to the cache that run had come to.        *)

UpstreamsLast == \A P \in Programs : ForwardsLast(P)

(* A frame without what it will store. *)
Seat(f) == [seq |-> f.seq, i |-> f.i, goto |-> f.goto]
Seats(fs) == [j \in 1 .. Len(fs) |-> Seat(fs[j])]

(* Where a run is. *)
Now ==
  [pc |-> pc, ret |-> IF pc = "ret" THEN ret ELSE "continue", n |-> Len(frames), at |-> Seats(frames),
   query |-> ctx.query, mark |-> ctx.mark, public |-> ctx.public]

Start(q, b) ==
  [pc |-> "run", ret |-> "continue", n |-> 1,
   at |-> [j \in 1 .. 1 |-> [seq |-> "main", i |-> 1, goto |-> FALSE]], query |-> q, mark |-> FALSE,
   public |-> b]

StepAt(P, K) == P[K.at[K.n].seq][K.at[K.n].i]

InSteps(P, K) == K.pc = "run" /\ K.at[K.n].i <= Len(P[K.at[K.n].seq])

(* The matchers, without a response. *)
Applies(K, m) ==
  m \in {"any", "!has_resp"} \/ (m = "mark" /\ K.mark) \/ (m = "ecs" /\ K.query.ecs # "none")

Acts(P, K) == InSteps(P, K) /\ Applies(K, StepAt(P, K).when)

(* The step answers nothing by itself. *)
Quiet(P, K) ==
  /\ K.pc # "idle"
  /\ Acts(P, K) => /\ StepAt(P, K).do \notin {"forward", "reject", "black_hole"}
                   /\ StepAt(P, K).do = "hosts" => K.query.name \notin Host

Going(K, q, m) ==
  [pc |-> "run", ret |-> "continue", n |-> K.n,
   at |-> [j \in 1 .. K.n |-> IF j = K.n THEN [seq |-> K.at[j].seq, i |-> K.at[j].i + 1, goto |-> K.at[j].goto]
                              ELSE K.at[j]],
   query |-> q, mark |-> m, public |-> K.public]

Leaving(K, a) ==
  [pc |-> IF K.n = 1 THEN "idle" ELSE "ret", ret |-> IF K.n = 1 THEN "continue" ELSE a, n |-> K.n - 1,
   at |-> [j \in 1 .. K.n - 1 |-> K.at[j]], query |-> K.query, mark |-> K.mark, public |-> K.public]

Calling(K, g) ==
  [pc |-> "run", ret |-> "continue", n |-> K.n + 1,
   at |-> [j \in 1 .. K.n + 1 |->
             IF j = K.n + 1 THEN [seq |-> "sub", i |-> 1, goto |-> FALSE]
             ELSE IF j = K.n THEN [seq |-> K.at[j].seq, i |-> K.at[j].i, goto |-> g] ELSE K.at[j]],
   query |-> K.query, mark |-> K.mark, public |-> K.public]

(* The query after a step that does x, for a client as b says. *)
Asked(q, b, x) ==
  IF x = "redirect" THEN [q EXCEPT !.name = Target(q.name)]
  ELSE IF x = "ecs" /\ q.ecs = "none" /\ b THEN [q EXCEPT !.edns = TRUE, !.ecs = OurSubnet]
  ELSE IF x = "no_ecs" THEN [q EXCEPT !.ecs = "none"] ELSE q

Does(K, x) ==
  IF x = "accept" THEN Leaving(K, "accept")
  ELSE IF x = "return" THEN Leaving(K, "continue")
  ELSE IF x \in {"call", "goto"} THEN Calling(K, x = "goto")
  ELSE Going(K, Asked(K.query, K.public, x), IF x = "mark" THEN TRUE ELSE K.mark)

(* The next step. *)
Move(P, K) ==
  IF K.pc = "ret"
    THEN IF K.at[K.n].goto \/ K.ret = "accept" THEN Leaving(K, K.ret) ELSE Going(K, K.query, K.mark)
  ELSE IF ~ InSteps(P, K) THEN Leaving(K, "continue")
  ELSE IF Acts(P, K) THEN Does(K, StepAt(P, K).do)
  ELSE Going(K, K.query, K.mark)

LEMMA NowFacts ==
  ASSUME Core, pc # "idle"
  PROVE  /\ Now.pc = pc /\ Now.n = Len(frames) /\ Now.n \in Nat \ {0}
         /\ Now.query = ctx.query /\ Now.mark = ctx.mark /\ Now.public = ctx.public
         /\ Now.ret = IF pc = "ret" THEN ret ELSE "continue"
         /\ Now.at[Now.n].seq = Top.seq /\ Now.at[Now.n].i = Top.i /\ Now.at[Now.n].goto = Top.goto
         /\ \A j \in 1 .. Len(frames) : Now.at[j] = Seat(frames[j])
         /\ StepAt(prog, Now) = Current
         /\ InSteps(prog, Now) <=> Running
<1>1. PICK n \in Nat \ {0} : n = Len(frames) /\ Top = frames[n]
  BY TopFacts
<1>2. PICK K : K = Now
  OBVIOUS
<1>3. /\ K.pc = pc /\ K.n = n /\ K.at = Seats(frames) /\ K.query = ctx.query /\ K.mark = ctx.mark
      /\ K.public = ctx.public /\ K.ret = IF pc = "ret" THEN ret ELSE "continue"
  BY <1>1, <1>2 DEF Now
<1>4. \A j \in 1 .. n : K.at[j] = Seat(frames[j])
  BY <1>1, <1>3 DEF Seats
<1>5. n \in 1 .. n
  BY <1>1
<1>6. K.at[n] = Seat(Top)
  BY <1>1, <1>4, <1>5
<1>7. K.at[n].seq = Top.seq /\ K.at[n].i = Top.i /\ K.at[n].goto = Top.goto
  BY <1>6 DEF Seat
<1>8. StepAt(prog, K) = Current
  BY <1>3, <1>7, Zenon DEF StepAt, Current, Steps
<1>9. InSteps(prog, K) <=> Running
  BY <1>3, <1>7, Zenon DEF InSteps, Running, Steps
<1>10. QED
  BY <1>1, <1>2, <1>3, <1>4, <1>7, <1>8, <1>9

(* Without a response, the matchers see what Applies does. *)
LEMMA AppliesRight ==
  ASSUME Core, Nesting, Running, ~ HasResp
  PROVE  Matches(Current.when) <=> Applies(Now, Current.when)
<1>1. Current.when \in Matcher
  <2>1. prog \in Programs
    BY DEF Core
  <2>2. CASE Len(frames) = 1
    BY <2>1, <2>2, Place, ProgramFacts DEF Tag
  <2>3. CASE Len(frames) # 1
    BY <2>1, <2>3, Place, ProgramFacts DEF Tag
  <2>4. QED
    BY <2>2, <2>3
<1>2. PICK m : m = Current.when
  OBVIOUS
<1>3. PICK K : K = Now
  OBVIOUS
<1>4. K.query = ctx.query /\ K.mark = ctx.mark
  BY <1>3, NowFacts, Zenon DEF Running
<1>5. CASE m = "any"
  <2>1. Matches(m)
    BY <1>5, Zenon DEF Matches
  <2>2. QED
    BY <1>2, <1>3, <1>5, <2>1, Zenon DEF Applies
<1>6. CASE m = "has_resp"
  <2>1. ~ Matches(m)
    BY <1>6 DEF Matches
  <2>2. ~ Applies(K, m)
    BY <1>6 DEF Applies
  <2>3. QED
    BY <1>2, <1>3, <2>1, <2>2, Zenon
<1>7. CASE m = "!has_resp"
  <2>1. Matches(m)
    BY <1>7 DEF Matches
  <2>2. QED
    BY <1>2, <1>3, <1>7, <2>1, Zenon DEF Applies
<1>8. CASE m = "mark"
  <2>1. Matches(m) = ctx.mark
    BY <1>8 DEF Matches
  <2>2. Applies(K, m) <=> K.mark
    BY <1>8 DEF Applies
  <2>3. QED
    BY <1>2, <1>3, <1>4, <2>1, <2>2, Zenon
<1>9. CASE m = "ecs"
  <2>1. Matches(m) = (ctx.query.ecs # "none")
    BY <1>9 DEF Matches
  <2>2. Applies(K, m) <=> K.query.ecs # "none"
    BY <1>9 DEF Applies
  <2>3. QED
    BY <1>2, <1>3, <1>4, <2>1, <2>2, Zenon
<1>10. QED
  BY <1>1, <1>2, <1>5, <1>6, <1>7, <1>8, <1>9 DEF Matcher

LEMMA NowNext ==
  Now' = [pc |-> pc', ret |-> IF pc' = "ret" THEN ret' ELSE "continue", n |-> Len(frames'),
          at |-> Seats(frames'), query |-> ctx'.query, mark |-> ctx'.mark, public |-> ctx'.public]
  BY DEF Now, Seats, Seat

LEMMA NowGoes ==
  ASSUME Core, pc # "idle", pc' = "run", Len(frames') = Len(frames),
         frames'[Len(frames)].seq = Top.seq, frames'[Len(frames)].i = Top.i + 1,
         frames'[Len(frames)].goto = Top.goto,
         \A j \in 1 .. Len(frames) : j # Len(frames) => frames'[j] = frames[j],
         ctx'.public = ctx.public
  PROVE  Now' = Going(Now, ctx'.query, ctx'.mark)
<1>1. PICK K : K = Now
  OBVIOUS
<1>2. PICK n \in Nat \ {0} : n = Len(frames) /\ K.n = n
  BY <1>1, NowFacts
<1>3. /\ K.at[n].seq = Top.seq /\ K.at[n].i = Top.i /\ K.at[n].goto = Top.goto
      /\ \A j \in 1 .. n : K.at[j] = Seat(frames[j])
      /\ K.public = ctx.public
  BY <1>1, <1>2, NowFacts
<1>4. PICK A : A = [j \in 1 .. n |-> IF j = n THEN [seq |-> K.at[j].seq, i |-> K.at[j].i + 1, goto |-> K.at[j].goto]
                                     ELSE K.at[j]]
  OBVIOUS
<1>5. Seats(frames') = A
  <2>1. Seats(frames') = [j \in 1 .. n |-> Seat(frames'[j])]
    BY <1>2 DEF Seats
  <2>2. \A j \in 1 .. n : Seat(frames'[j]) = A[j]
    <3>1. SUFFICES ASSUME NEW j \in 1 .. n PROVE Seat(frames'[j]) = A[j]
      OBVIOUS
    <3>2. CASE j = n
      BY <1>2, <1>3, <1>4, <3>2 DEF Seat
    <3>3. CASE j # n
      BY <1>2, <1>3, <1>4, <3>3 DEF Seat
    <3>4. QED
      BY <3>2, <3>3
  <2>3. QED
    BY <1>4, <2>1, <2>2
<1>6. Now' = [pc |-> "run", ret |-> "continue", n |-> n, at |-> A, query |-> ctx'.query, mark |-> ctx'.mark,
              public |-> K.public]
  BY <1>2, <1>3, <1>5, NowNext
<1>7. QED
  BY <1>1, <1>2, <1>4, <1>6, Zenon DEF Going

LEMMA NowLeaves ==
  ASSUME Core, pc # "idle", NEW a, Finish(a)
  PROVE  Now' = Leaving(Now, a) /\ ctx'.resp.rcode = ctx.resp.rcode
<1>1. PICK K : K = Now
  OBVIOUS
<1>2. PICK n \in Nat \ {0} : n = Len(frames) /\ K.n = n
  BY <1>1, NowFacts
<1>3. \A j \in 1 .. n : K.at[j] = Seat(frames[j])
  BY <1>1, <1>2, NowFacts
<1>4. Len(frames') = n - 1 /\ \A j \in 1 .. n - 1 : frames'[j] = frames[j]
  BY <1>2, FrontFacts DEF Finish
<1>5. PICK A : A = [j \in 1 .. n - 1 |-> K.at[j]]
  OBVIOUS
<1>6. Seats(frames') = A
  <2>1. Seats(frames') = [j \in 1 .. n - 1 |-> Seat(frames'[j])]
    BY <1>4 DEF Seats
  <2>2. \A j \in 1 .. n - 1 : Seat(frames'[j]) = A[j]
    BY <1>3, <1>4, <1>5 DEF Seat
  <2>3. QED
    BY <1>5, <2>1, <2>2
<1>7. /\ pc' = IF n = 1 THEN "idle" ELSE "ret"
      /\ ret' = a /\ ctx' = IF n = 1 THEN Finalize(ctx) ELSE ctx
  BY <1>2 DEF Finish
<1>8. /\ ctx'.query = ctx.query /\ ctx'.mark = ctx.mark /\ ctx'.public = ctx.public
      /\ ctx'.resp.rcode = ctx.resp.rcode
  BY <1>7, FinalizeFacts DEF Core
<1>9. Now' = [pc |-> IF n = 1 THEN "idle" ELSE "ret", ret |-> IF n = 1 THEN "continue" ELSE a, n |-> n - 1,
              at |-> A, query |-> ctx.query, mark |-> ctx.mark, public |-> ctx.public]
  BY <1>4, <1>6, <1>7, <1>8, NowNext
<1>10. K.query = ctx.query /\ K.mark = ctx.mark /\ K.public = ctx.public
  BY <1>1, NowFacts
<1>11. QED
  BY <1>1, <1>2, <1>5, <1>8, <1>9, <1>10, Zenon DEF Leaving

LEMMA NowCalls ==
  ASSUME Core, NEW goto \in BOOLEAN, Call(goto)
  PROVE  Now' = Calling(Now, goto) /\ UNCHANGED ctx
<1>0. pc = "run" /\ pc' = "run" /\ UNCHANGED ctx
      /\ frames' = Append([frames EXCEPT ![Len(frames)].goto = goto], Frame("sub"))
  BY DEF Call, At
<1>1. PICK K : K = Now
  OBVIOUS
<1>2. PICK n \in Nat \ {0} : n = Len(frames) /\ K.n = n /\ Top = frames[n] /\ Top \in FrameRec
  BY <1>0, <1>1, NowFacts, TopFacts
<1>3. /\ K.query = ctx.query /\ K.mark = ctx.mark /\ K.public = ctx.public
      /\ \A j \in 1 .. n : K.at[j] = Seat(frames[j])
  BY <1>0, <1>1, <1>2, NowFacts
<1>4. /\ Len(frames') = n + 1
      /\ frames'[n] = [Top EXCEPT !.goto = goto]
      /\ frames'[n + 1] = Frame("sub")
      /\ \A j \in 1 .. (n - 1) : frames'[j] = frames[j]
  BY <1>0, <1>2, CallFacts
<1>5. PICK A : A = [j \in 1 .. n + 1 |->
                      IF j = n + 1 THEN [seq |-> "sub", i |-> 1, goto |-> FALSE]
                      ELSE IF j = n THEN [seq |-> K.at[j].seq, i |-> K.at[j].i, goto |-> goto] ELSE K.at[j]]
  OBVIOUS
<1>6. Seats(frames') = A
  <2>1. Seats(frames') = [j \in 1 .. n + 1 |-> Seat(frames'[j])]
    BY <1>4 DEF Seats
  <2>2. \A j \in 1 .. n + 1 : Seat(frames'[j]) = A[j]
    <3>1. SUFFICES ASSUME NEW j \in 1 .. n + 1 PROVE Seat(frames'[j]) = A[j]
      OBVIOUS
    <3>2. CASE j = n + 1
      <4>1. frames'[j].seq = "sub" /\ frames'[j].i = 1 /\ frames'[j].goto = FALSE
        BY <1>4, <3>2, FrameFacts DEF Tag
      <4>2. QED
        BY <1>5, <3>2, <4>1 DEF Seat
    <3>3. CASE j = n
      <4>1. frames'[n].seq = Top.seq /\ frames'[n].i = Top.i /\ frames'[n].goto = goto
        BY <1>2, <1>4 DEF FrameRec
      <4>2. K.at[n].seq = Top.seq /\ K.at[n].i = Top.i
        BY <1>0, <1>1, <1>2, NowFacts
      <4>3. n # n + 1
        OBVIOUS
      <4>4. QED
        BY <1>5, <3>3, <4>1, <4>2, <4>3 DEF Seat
    <3>4. CASE j # n + 1 /\ j # n
      <4>1. j \in 1 .. n - 1 /\ j \in 1 .. n
        BY <3>1, <3>4
      <4>2. QED
        BY <1>3, <1>4, <1>5, <3>4, <4>1
    <3>5. QED
      BY <3>2, <3>3, <3>4
  <2>3. QED
    BY <1>5, <2>1, <2>2
<1>7. Now' = [pc |-> "run", ret |-> "continue", n |-> n + 1, at |-> A, query |-> ctx.query, mark |-> ctx.mark,
              public |-> ctx.public]
  BY <1>0, <1>4, <1>6, NowNext
<1>8. QED
  BY <1>0, <1>1, <1>2, <1>3, <1>5, <1>7, Zenon DEF Calling

-----------------------------------------------------------------------------
(* A step of a run without an answer is the move its place determines. *)

LEMMA AtNow ==
  ASSUME Core, Nesting, ~ HasResp, NEW x, At(x)
  PROVE  /\ pc = "run" /\ Running /\ Now.pc = "run" /\ InSteps(prog, Now)
         /\ Acts(prog, Now) /\ StepAt(prog, Now).do = x
<1>1. pc = "run" /\ Running /\ Current.do = x /\ Matches(Current.when)
  BY DEF At, Running
<1>2. pc # "idle"
  BY <1>1
<1>3. PICK K : K = Now
  OBVIOUS
<1>4. StepAt(prog, K) = Current /\ InSteps(prog, K) /\ K.pc = "run"
  BY <1>1, <1>2, <1>3, NowFacts
<1>5. Applies(K, StepAt(prog, K).when)
  BY <1>1, <1>3, <1>4, AppliesRight, Zenon
<1>6. QED
  BY <1>1, <1>3, <1>4, <1>5, Zenon DEF Acts

LEMMA AdvanceGoes ==
  ASSUME Core, pc # "idle", pc' = "run", Advance, ctx'.public = ctx.public
  PROVE  Now' = Going(Now, ctx'.query, ctx'.mark)
<1>1. Top \in FrameRec
  BY TopFacts
<1>2. /\ Len(frames') = Len(frames)
      /\ frames'[Len(frames)] = [Top EXCEPT !.i = Top.i + 1]
      /\ \A j \in 1 .. Len(frames) : j # Len(frames) => frames'[j] = frames[j]
  BY AdvanceFacts
<1>3. /\ frames'[Len(frames)].seq = Top.seq /\ frames'[Len(frames)].i = Top.i + 1
      /\ frames'[Len(frames)].goto = Top.goto
  BY <1>1, <1>2 DEF FrameRec
<1>4. QED
  BY <1>2, <1>3, NowGoes

LEMMA GoesRight ==
  ASSUME Core, Nesting, ~ HasResp, NEW x, At(x), x \notin {"accept", "return", "call", "goto"},
         Now' = Going(Now, ctx'.query, ctx'.mark),
         ctx'.query = Asked(ctx.query, ctx.public, x), ctx'.mark = IF x = "mark" THEN TRUE ELSE ctx.mark
  PROVE  Now' = Move(prog, Now)
<1>1. PICK K : K = Now
  OBVIOUS
<1>2. /\ K.pc = "run" /\ InSteps(prog, K) /\ Acts(prog, K) /\ StepAt(prog, K).do = x
      /\ K.query = ctx.query /\ K.mark = ctx.mark /\ K.public = ctx.public
  BY <1>1, AtNow, NowFacts
<1>3. Move(prog, K) = Does(K, x)
  BY <1>2 DEF Move
<1>4. Does(K, x) = Going(K, Asked(K.query, K.public, x), IF x = "mark" THEN TRUE ELSE K.mark)
  BY DEF Does
<1>5. Does(K, x) = Going(K, ctx'.query, ctx'.mark)
  BY <1>2, <1>4, Zenon
<1>6. QED
  BY <1>1, <1>3, <1>5, Zenon

LEMMA AskedSame ==
  ASSUME NEW q \in Query, NEW b, NEW x, x \notin {"redirect", "ecs", "no_ecs"}
  PROVE  Asked(q, b, x) = q
  BY DEF Asked

(* A step that changes neither the query nor the mark. *)
LEMMA SameRight ==
  ASSUME Core, Nesting, ~ HasResp, NEW x, At(x),
         x \notin {"accept", "return", "call", "goto", "redirect", "ecs", "no_ecs", "mark"},
         NEW c, Continue(c), c.query = ctx.query, c.mark = ctx.mark, c.public = ctx.public
  PROVE  Now' = Move(prog, Now)
<1>1. pc = "run" /\ pc' = "run" /\ Advance /\ ctx' = c
  BY DEF At, Continue
<1>2. Now' = Going(Now, ctx'.query, ctx'.mark)
  BY <1>1, AdvanceGoes
<1>3. ctx.query \in Query
  BY ContextFields DEF Core
<1>4. Asked(ctx.query, ctx.public, x) = ctx.query
  BY <1>3, AskedSame
<1>5. QED
  BY <1>1, <1>2, <1>4, GoesRight

LEMMA RedirectRight ==
  ASSUME Core, Nesting, ~ HasResp, Redirect
  PROVE  Now' = Move(prog, Now) /\ ctx'.resp = ctx.resp
<1>1. PICK n : n = ctx.query.name
  OBVIOUS
<1>2. /\ At("redirect") /\ pc = "run" /\ pc' = "run" /\ Advance
      /\ ctx' = IF n \in DOMAIN Rule /\ Rule[n] # n
                  THEN [ctx EXCEPT !.query.name = Rule[n], !.rewrites = Append(@, << n, Rule[n] >>)]
                  ELSE ctx
  BY <1>1 DEF Redirect, RewriteName, At, Continue
<1>3. ctx \in Context /\ ctx.query \in Query
  BY ContextFields DEF Core
<1>4. /\ ctx'.query = [ctx.query EXCEPT !.name = Target(n)]
      /\ ctx'.mark = ctx.mark /\ ctx'.resp = ctx.resp /\ ctx'.public = ctx.public
  <2>1. CASE n \in DOMAIN Rule /\ Rule[n] # n
    <3>1. Target(n) = Rule[n]
      BY <2>1 DEF Target
    <3>2. ctx' = [ctx EXCEPT !.query.name = Rule[n], !.rewrites = Append(@, << n, Rule[n] >>)]
      BY <1>2, <2>1
    <3>3. QED
      BY <1>3, <3>1, <3>2 DEF Context
  <2>2. CASE ~ (n \in DOMAIN Rule /\ Rule[n] # n)
    <3>1. Target(n) = n
      BY <2>2 DEF Target
    <3>2. ctx' = ctx
      BY <1>2, <2>2
    <3>3. [ctx.query EXCEPT !.name = n] = ctx.query
      BY <1>1, <1>3 DEF Query
    <3>4. QED
      BY <3>1, <3>2, <3>3
  <2>3. QED
    BY <2>1, <2>2
<1>5. Asked(ctx.query, ctx.public, "redirect") = ctx'.query
  BY <1>1, <1>4 DEF Asked
<1>6. Now' = Going(Now, ctx'.query, ctx'.mark)
  BY <1>2, <1>4, AdvanceGoes
<1>7. QED
  BY <1>2, <1>4, <1>5, <1>6, GoesRight

LEMMA EcsRight ==
  ASSUME Core, Nesting, ~ HasResp, Ecs \/ NoEcs
  PROVE  Now' = Move(prog, Now) /\ ctx'.resp = ctx.resp
<1>1. ctx \in Context /\ ctx.query \in Query
  BY ContextFields DEF Core
<1>2. CASE Ecs
  <2>1. /\ At("ecs") /\ pc = "run" /\ pc' = "run" /\ Advance
        /\ ctx' = IF ctx.query.ecs # "none" \/ ~ ctx.public THEN ctx
                  ELSE [ctx EXCEPT !.query.edns = TRUE, !.query.ecs = OurSubnet, !.strip = TRUE]
    BY <1>2 DEF Ecs, At, Continue
  <2>2. /\ Asked(ctx.query, ctx.public, "ecs") = ctx'.query
        /\ ctx'.mark = ctx.mark /\ ctx'.resp = ctx.resp /\ ctx'.public = ctx.public
    <3>1. CASE ctx.query.ecs # "none" \/ ~ ctx.public
      BY <2>1, <3>1 DEF Asked
    <3>2. CASE ctx.query.ecs = "none" /\ ctx.public
      <4>1. ctx' = [ctx EXCEPT !.query.edns = TRUE, !.query.ecs = OurSubnet, !.strip = TRUE]
        BY <2>1, <3>2
      <4>2. Asked(ctx.query, ctx.public, "ecs") = [ctx.query EXCEPT !.edns = TRUE, !.ecs = OurSubnet]
        BY <3>2 DEF Asked
      <4>3. QED
        BY <1>1, <4>1, <4>2 DEF Context
    <3>3. QED
      BY <3>1, <3>2
  <2>3. Now' = Going(Now, ctx'.query, ctx'.mark)
    BY <2>1, <2>2, AdvanceGoes
  <2>4. QED
    BY <2>1, <2>2, <2>3, GoesRight
<1>3. CASE NoEcs
  <2>1. /\ At("no_ecs") /\ pc = "run" /\ pc' = "run" /\ Advance
        /\ ctx' = [ctx EXCEPT !.query.ecs = "none", !.strip = TRUE]
    BY <1>3 DEF NoEcs, At, Continue
  <2>2. /\ Asked(ctx.query, ctx.public, "no_ecs") = ctx'.query
        /\ ctx'.mark = ctx.mark /\ ctx'.resp = ctx.resp /\ ctx'.public = ctx.public
    BY <1>1, <2>1 DEF Asked, Context
  <2>3. Now' = Going(Now, ctx'.query, ctx'.mark)
    BY <2>1, <2>2, AdvanceGoes
  <2>4. QED
    BY <2>1, <2>2, <2>3, GoesRight
<1>4. QED
  BY <1>2, <1>3

LEMMA MarkRight ==
  ASSUME Core, Nesting, ~ HasResp, Mark
  PROVE  Now' = Move(prog, Now) /\ ctx'.resp = ctx.resp
<1>1. At("mark") /\ pc = "run" /\ pc' = "run" /\ Advance /\ ctx' = Marked(ctx)
  BY DEF Mark, At, Continue, Marked
<1>2. ctx \in Context /\ ctx.query \in Query
  BY ContextFields DEF Core
<1>3. /\ ctx'.mark = TRUE /\ ctx'.query = ctx.query /\ ctx'.resp = ctx.resp
      /\ ctx'.public = ctx.public
  BY <1>1, <1>2, MarkedFacts
<1>4. Asked(ctx.query, ctx.public, "mark") = ctx.query
  BY <1>2, AskedSame
<1>5. Now' = Going(Now, ctx'.query, ctx'.mark)
  BY <1>1, <1>3, AdvanceGoes
<1>6. QED
  BY <1>1, <1>3, <1>4, <1>5, GoesRight

LEMMA CacheRight ==
  ASSUME Core, Nesting, ~ HasResp, NEW t \in Cache, CacheStep(t)
  PROVE  Now' = Move(prog, Now) /\ (ctx.skip => ctx' = ctx)
<1>1. /\ At(t) /\ pc = "run" /\ pc' = "run"
      /\ \/ ctx' = ctx
         \/ ~ ctx.skip /\ ctx.query \in DOMAIN store[t] /\ ctx' = Hit(t)
  BY DEF CacheStep, At
<1>2. ctx'.query = ctx.query /\ ctx'.mark = ctx.mark /\ ctx'.public = ctx.public
  <2>1. CASE ctx' = ctx
    BY <2>1
  <2>2. CASE ctx.query \in DOMAIN store[t] /\ ctx' = Hit(t)
    <3>1. PICK x : x = ctx'
      OBVIOUS
    <3>2. x.query = ctx.query /\ x.mark = ctx.mark /\ x.public = ctx.public
      BY <2>2, <3>1, HitKeeps
    <3>3. QED
      BY <3>1, <3>2, Zenon
  <2>3. QED
    BY <1>1, <2>1, <2>2, Zenon
<1>3. Len(frames) \in 1 .. Len(frames) /\ Top = frames[Len(frames)]
  BY <1>1, TopFacts
<1>4. /\ Len(frames') = Len(frames)
      /\ frames'[Len(frames)].i = Top.i + 1 /\ frames'[Len(frames)].goto = Top.goto
      /\ frames'[Len(frames)].seq = Top.seq
      /\ \A j \in 1 .. Len(frames) : j # Len(frames) => frames'[j] = frames[j]
  BY <1>3, CacheFrames
<1>5. Now' = Going(Now, ctx'.query, ctx'.mark)
  BY <1>1, <1>2, <1>4, NowGoes
<1>6. t \notin Plugin
  BY PipelineAssumption
<1>7. t \notin {"accept", "return", "call", "goto"} /\ t \notin {"redirect", "ecs", "no_ecs"} /\ t # "mark"
  BY <1>6 DEF Plugin
<1>8. Asked(ctx.query, ctx.public, t) = ctx.query
  BY <1>7, ContextFields, AskedSame DEF Core
<1>9. Now' = Move(prog, Now)
  BY <1>1, <1>2, <1>5, <1>7, <1>8, GoesRight
<1>10. QED
  BY <1>1, <1>9

LEMMA LeavesRight ==
  ASSUME Core, Nesting, ~ HasResp, Accept \/ Return \/ EndOfSteps
  PROVE  Now' = Move(prog, Now) /\ ctx'.resp.rcode = ctx.resp.rcode
<1>1. PICK K : K = Now
  OBVIOUS
<1>2. CASE Accept
  <2>1. At("accept") /\ Finish("accept")
    BY <1>2 DEF Accept
  <2>2. K.pc = "run" /\ InSteps(prog, K) /\ Acts(prog, K) /\ StepAt(prog, K).do = "accept" /\ pc # "idle"
    BY <1>1, <2>1, AtNow
  <2>3. Move(prog, K) = Leaving(K, "accept")
    BY <2>2 DEF Move, Does
  <2>4. QED
    BY <1>1, <2>1, <2>2, <2>3, NowLeaves
<1>3. CASE Return
  <2>1. At("return") /\ Finish("continue")
    BY <1>3 DEF Return
  <2>2. K.pc = "run" /\ InSteps(prog, K) /\ Acts(prog, K) /\ StepAt(prog, K).do = "return" /\ pc # "idle"
    BY <1>1, <2>1, AtNow
  <2>3. Move(prog, K) = Leaving(K, "continue")
    BY <2>2 DEF Move, Does
  <2>4. QED
    BY <1>1, <2>1, <2>2, <2>3, NowLeaves
<1>4. CASE EndOfSteps
  <2>1. pc = "run" /\ Finish("continue") /\ Top.i > Len(Steps)
    BY <1>4 DEF EndOfSteps
  <2>2. ~ Running
    <3>1. prog[Top.seq] \in Seq([when : Matcher, do : Exec]) /\ Top.i \in Nat
      BY <2>1, TopFacts, PipelineAssumption DEF Core, FrameRec
    <3>2. Len(Steps) \in Nat
      BY <3>1 DEF Steps
    <3>3. QED
      BY <2>1, <3>1, <3>2 DEF Running
  <2>3. K.pc = "run" /\ ~ InSteps(prog, K)
    BY <1>1, <2>1, <2>2, NowFacts
  <2>4. Move(prog, K) = Leaving(K, "continue")
    BY <2>3 DEF Move
  <2>5. QED
    BY <1>1, <2>1, <2>4, NowLeaves
<1>5. QED
  BY <1>2, <1>3, <1>4

LEMMA CallRight ==
  ASSUME Core, Nesting, ~ HasResp, NEW goto \in BOOLEAN, Call(goto)
  PROVE  Now' = Move(prog, Now) /\ ctx' = ctx
<1>1. PICK K : K = Now
  OBVIOUS
<1>2. PICK x : x = IF goto THEN "goto" ELSE "call"
  OBVIOUS
<1>3. At(x)
  BY <1>2 DEF Call
<1>4. x \in {"call", "goto"} /\ ((x = "goto") <=> goto)
  BY <1>2
<1>5. K.pc = "run" /\ InSteps(prog, K) /\ Acts(prog, K) /\ StepAt(prog, K).do = x
  BY <1>1, <1>3, AtNow
<1>6. Move(prog, K) = Does(K, x)
  BY <1>5 DEF Move
<1>7. Does(K, x) = Calling(K, x = "goto")
  BY <1>4 DEF Does
<1>8. (x = "goto") = goto
  BY <1>4
<1>9. Does(K, x) = Calling(K, goto)
  BY <1>7, <1>8, Zenon
<1>10. Now' = Calling(Now, goto) /\ ctx' = ctx
  BY NowCalls
<1>11. QED
  BY <1>1, <1>6, <1>9, <1>10, Zenon

LEMMA ResumeRight ==
  ASSUME Core, Nesting, ~ HasResp, Resume
  PROVE  Now' = Move(prog, Now) /\ ctx'.resp.rcode = ctx.resp.rcode
<1>1. PICK K : K = Now
  OBVIOUS
<1>2. pc = "ret" /\ pc # "idle"
  BY DEF Resume
<1>3. /\ K.pc = "ret" /\ K.ret = ret /\ K.at[K.n].goto = Top.goto
      /\ K.query = ctx.query /\ K.mark = ctx.mark
  BY <1>1, <1>2, NowFacts
<1>4. CASE Top.goto \/ ret = "accept"
  <2>1. Finish(ret)
    BY <1>4 DEF Resume
  <2>2. Move(prog, K) = Leaving(K, ret)
    BY <1>3, <1>4 DEF Move
  <2>3. QED
    BY <1>1, <1>2, <2>1, <2>2, NowLeaves
<1>5. CASE ~ (Top.goto \/ ret = "accept")
  <2>1. Advance /\ pc' = "run" /\ ctx' = ctx
    BY <1>5 DEF Resume
  <2>2. Move(prog, K) = Going(K, K.query, K.mark)
    BY <1>3, <1>5 DEF Move
  <2>3. Now' = Going(Now, ctx'.query, ctx'.mark)
    BY <1>2, <2>1, AdvanceGoes
  <2>4. QED
    BY <1>1, <1>3, <2>1, <2>2, <2>3
<1>6. QED
  BY <1>4, <1>5

LEMMA SkipRight ==
  ASSUME Core, Nesting, ~ HasResp, Skip
  PROVE  Now' = Move(prog, Now) /\ ctx' = ctx
<1>1. PICK K : K = Now
  OBVIOUS
<1>2. /\ pc = "run" /\ Running /\ ~ Matches(Current.when) /\ Advance /\ pc' = "run" /\ ctx' = ctx
  BY DEF Skip, Running, Continue
<1>3. pc # "idle"
  BY <1>2
<1>4. /\ K.pc = "run" /\ InSteps(prog, K) /\ StepAt(prog, K) = Current
      /\ K.query = ctx.query /\ K.mark = ctx.mark
  BY <1>1, <1>2, <1>3, NowFacts
<1>5. ~ Acts(prog, K)
  BY <1>1, <1>2, <1>4, AppliesRight, Zenon DEF Acts
<1>6. Move(prog, K) = Going(K, K.query, K.mark)
  BY <1>4, <1>5 DEF Move
<1>7. Now' = Going(Now, ctx'.query, ctx'.mark)
  BY <1>2, <1>3, AdvanceGoes
<1>8. QED
  BY <1>1, <1>2, <1>4, <1>6, <1>7

(* What the step does by itself to the response, in a run that has none. *)
LEMMA NowMoves ==
  ASSUME Core, Nesting, ~ HasResp, Quiet(prog, Now), Step
  PROVE  Now' = Move(prog, Now) /\ (ctx.skip => ctx'.resp.rcode = "absent")
<1>0. ctx.resp.rcode = "absent" /\ ctx \in Context
  BY DEF HasResp, Core
<1>1. PICK K : K = Now
  OBVIOUS
<1>2. ASSUME NEW x, At(x)
      PROVE  x \notin {"forward", "reject", "black_hole"} /\ (x = "hosts" => ctx.query.name \notin Host)
  <2>1. Acts(prog, K) /\ StepAt(prog, K).do = x /\ pc # "idle"
    BY <1>1, <1>2, AtNow
  <2>2. K.query = ctx.query
    BY <1>1, <2>1, NowFacts
  <2>3. QED
    BY <1>1, <2>1, <2>2 DEF Quiet
<1>3. /\ ~ TimesOut /\ ~ ForwardFails
      /\ \A r, p : ~ Forward(r, p) /\ ~ RejectStep(r) /\ ~ Blackhole(r)
  <2>1. ~ At("forward") /\ ~ At("reject") /\ ~ At("black_hole")
    BY <1>2
  <2>2. QED
    BY <2>1 DEF TimesOut, RejectStep, Blackhole, ForwardFails, Forward
<1>4. CASE DropResp
  <2>1. At("drop_resp") /\ Continue(DropResponse(ctx))
    BY <1>4 DEF DropResp
  <2>2. Made(Absent(ctx.query)) /\ Absent(ctx.query).rcode = "absent"
    BY MadeFacts DEF Absent
  <2>3. PICK r \in Resp : r = Absent(ctx.query) /\ r.rcode = "absent"
    BY <2>2 DEF Made
  <2>4. PICK c : c = SetResponse(ctx, r)
    OBVIOUS
  <2>5. c.query = ctx.query /\ c.mark = ctx.mark /\ c.public = ctx.public /\ c.resp = r
    BY <1>0, <2>4, SetResponseFacts
  <2>6. Continue(c)
    BY <2>1, <2>3, <2>4 DEF DropResponse
  <2>7. Now' = Move(prog, Now)
    BY <2>1, <2>5, <2>6, SameRight
  <2>8. ctx' = c
    BY <2>6 DEF Continue
  <2>9. QED
    BY <2>3, <2>5, <2>7, <2>8
<1>5. CASE Hosts
  <2>1. At("hosts") /\ ctx.query.name \notin Host
    BY <1>2, <1>5 DEF Hosts
  <2>2. Continue(ctx)
    BY <1>5, <2>1 DEF Hosts
  <2>3. Now' = Move(prog, Now)
    BY <2>1, <2>2, SameRight
  <2>4. ctx' = ctx
    BY <2>2 DEF Continue
  <2>5. QED
    BY <1>0, <2>3, <2>4
<1>6. CASE \E t \in Cache : CacheStep(t)
  BY <1>0, <1>6, CacheRight
<1>7. CASE \E goto \in BOOLEAN : Call(goto)
  BY <1>0, <1>7, CallRight
<1>8. CASE Skip
  BY <1>0, <1>8, SkipRight
<1>9. CASE EndOfSteps \/ Accept \/ Return
  BY <1>0, <1>9, LeavesRight
<1>10. CASE Redirect
  BY <1>0, <1>10, RedirectRight
<1>11. CASE Ecs \/ NoEcs
  BY <1>0, <1>11, EcsRight
<1>12. CASE Mark
  BY <1>0, <1>12, MarkRight
<1>13. CASE Resume
  BY <1>0, <1>13, ResumeRight
<1>14. QED
  BY <1>3, <1>4, <1>5, <1>6, <1>7, <1>8, <1>9, <1>10, <1>11, <1>12, <1>13 DEF Step

-----------------------------------------------------------------------------
(* Ways through the pipeline. *)

(* p is a way of n moves from K to L. *)
Way(P, K, L, n, p) ==
  /\ p[0] = K /\ p[n] = L
  /\ \A i \in 1 .. n : Quiet(P, p[i - 1]) /\ p[i] = Move(P, p[i - 1])

(* From K, quiet moves lead to L. *)
Route(P, K, L) == \E n \in Nat : \E p : Way(P, K, L, n, p)

(* At L cache c is looked up under key k. *)
LooksUp(P, L, c, k) ==
  Acts(P, L) /\ StepAt(P, L).do = c /\ c \in Cache /\ L.query = k /\ ~ Keyless(k)

(* From K the pipeline comes to that lookup. *)
Seeks(P, K, c, k) == \E L : Route(P, K, L) /\ LooksUp(P, L, c, k)

LEMMA RouteHere ==
  ASSUME NEW P, NEW K
  PROVE  Route(P, K, K)
<1>1. PICK p : p = [i \in 0 .. 0 |-> K]
  OBVIOUS
<1>2. p[0] = K
  BY <1>1
<1>3. \A i \in 1 .. 0 : FALSE
  OBVIOUS
<1>4. Way(P, K, K, 0, p)
  BY <1>2, <1>3 DEF Way
<1>5. QED
  BY <1>4 DEF Route

LEMMA RouteOn ==
  ASSUME NEW P, NEW K, NEW L, Route(P, K, L), Quiet(P, L)
  PROVE  Route(P, K, Move(P, L))
<1>1. PICK n \in Nat : \E p : Way(P, K, L, n, p)
  BY DEF Route
<1>2. PICK p : Way(P, K, L, n, p)
  BY <1>1
<1>3. /\ p[0] = K /\ p[n] = L
      /\ \A i \in 1 .. n : Quiet(P, p[i - 1]) /\ p[i] = Move(P, p[i - 1])
  BY <1>2 DEF Way
<1>4. PICK M : M = Move(P, L)
  OBVIOUS
<1>5. PICK w : w = [i \in 0 .. n + 1 |-> IF i = n + 1 THEN M ELSE p[i]]
  OBVIOUS
<1>6. w[n + 1] = M /\ \A i \in 0 .. n : w[i] = p[i]
  BY <1>5
<1>7. \A i \in 1 .. n + 1 : Quiet(P, w[i - 1]) /\ w[i] = Move(P, w[i - 1])
  <2>1. SUFFICES ASSUME NEW i \in 1 .. n + 1
                 PROVE  Quiet(P, w[i - 1]) /\ w[i] = Move(P, w[i - 1])
    OBVIOUS
  <2>2. CASE i = n + 1
    <3>1. i - 1 = n /\ n \in 0 .. n
      BY <2>2
    <3>2. w[i - 1] = L /\ w[i] = M
      BY <1>3, <1>6, <2>2, <3>1
    <3>3. QED
      BY <1>4, <3>2, Zenon
  <2>3. CASE i # n + 1
    <3>1. i \in 1 .. n /\ i \in 0 .. n /\ i - 1 \in 0 .. n
      BY <2>1, <2>3
    <3>2. w[i - 1] = p[i - 1] /\ w[i] = p[i]
      BY <1>6, <3>1
    <3>3. QED
      BY <1>3, <3>1, <3>2, Zenon
  <2>4. QED
    BY <2>2, <2>3
<1>8. w[0] = K
  BY <1>3, <1>6
<1>9. Way(P, K, M, n + 1, w)
  BY <1>6, <1>7, <1>8 DEF Way
<1>10. n + 1 \in Nat
  OBVIOUS
<1>11. QED
  BY <1>4, <1>9, <1>10 DEF Route

LEMMA RouteFrom ==
  ASSUME NEW P, NEW K, NEW L, Route(P, K, L), K # L
  PROVE  Quiet(P, K) /\ Route(P, Move(P, K), L)
<1>1. PICK n \in Nat : \E p : Way(P, K, L, n, p)
  BY DEF Route
<1>2. PICK p : Way(P, K, L, n, p)
  BY <1>1
<1>3. /\ p[0] = K /\ p[n] = L
      /\ \A i \in 1 .. n : Quiet(P, p[i - 1]) /\ p[i] = Move(P, p[i - 1])
  BY <1>2 DEF Way
<1>4. n # 0
  BY <1>3
<1>5. PICK w : w = [i \in 0 .. n - 1 |-> p[i + 1]]
  OBVIOUS
<1>6. \A i \in 0 .. n - 1 : w[i] = p[i + 1]
  BY <1>5
<1>7. 1 \in 1 .. n /\ 1 - 1 = 0
  BY <1>4
<1>8. Quiet(P, K) /\ p[1] = Move(P, K)
  BY <1>3, <1>7
<1>9. w[0] = Move(P, K)
  <2>1. 0 \in 0 .. n - 1 /\ 0 + 1 = 1
    BY <1>4
  <2>2. QED
    BY <1>6, <1>8, <2>1
<1>10. w[n - 1] = L
  <2>1. n - 1 \in 0 .. n - 1 /\ (n - 1) + 1 = n
    BY <1>4
  <2>2. QED
    BY <1>3, <1>6, <2>1
<1>11. \A i \in 1 .. n - 1 : Quiet(P, w[i - 1]) /\ w[i] = Move(P, w[i - 1])
  <2>1. SUFFICES ASSUME NEW i \in 1 .. n - 1
                 PROVE  Quiet(P, w[i - 1]) /\ w[i] = Move(P, w[i - 1])
    OBVIOUS
  <2>2. i \in 0 .. n - 1 /\ i - 1 \in 0 .. n - 1 /\ i + 1 \in 1 .. n /\ (i - 1) + 1 = i /\ (i + 1) - 1 = i
    BY <2>1
  <2>3. w[i - 1] = p[i] /\ w[i] = p[i + 1]
    BY <1>6, <2>2
  <2>4. Quiet(P, p[i]) /\ p[i + 1] = Move(P, p[i])
    BY <1>3, <2>2
  <2>5. QED
    BY <2>3, <2>4, Zenon
<1>12. Way(P, Move(P, K), L, n - 1, w)
  BY <1>9, <1>10, <1>11 DEF Way
<1>13. n - 1 \in Nat
  BY <1>4
<1>14. QED
  BY <1>8, <1>12, <1>13 DEF Route

(* A pipeline that has a lookup before it has not ended. *)
LEMMA SeeksRuns ==
  ASSUME NEW P, NEW K, NEW c, NEW k, Seeks(P, K, c, k)
  PROVE  K.pc # "idle"
<1>1. PICK L : Route(P, K, L) /\ LooksUp(P, L, c, k)
  BY DEF Seeks
<1>2. CASE K = L
  BY <1>1, <1>2 DEF LooksUp, Acts, InSteps
<1>3. CASE K # L
  <2>1. Quiet(P, K)
    BY <1>1, <1>3, RouteFrom
  <2>2. QED
    BY <2>1 DEF Quiet
<1>4. QED
  BY <1>2, <1>3

-----------------------------------------------------------------------------
(* What every step keeps. *)

LEMMA StepKeeps ==
  ASSUME Core, Step
  PROVE  /\ ctx'.skip = ctx.skip /\ ctx'.original = ctx.original /\ ctx'.public = ctx.public
         /\ visited \subseteq visited' /\ prog' = prog /\ aim' = aim
         /\ (~ touched' => ~ touched /\ ctx'.resp.rcode = "absent")
<1>1. ctx \in Context /\ ctx.query \in Query /\ run \in Nat
  BY ContextFields, PipelineAssumption DEF Core
<1>2. prog' = prog /\ aim' = aim /\ (~ touched' => ~ touched /\ ctx'.resp.rcode = "absent")
  BY DEF Step
<1>3. CASE Passes
  BY <1>2, <1>3 DEF Passes, Continue
<1>4. CASE Answers
  <2>1. PICK r \in Resp : Continue(SetResponse(ctx, r))
    BY <1>4 DEF Answers, Made
  <2>2. ctx' = SetResponse(ctx, r) /\ visited' = visited
    BY <2>1 DEF Continue
  <2>3. QED
    BY <1>1, <1>2, <2>2, SetResponseFacts
<1>5. CASE Rewrites
  BY <1>1, <1>2, <1>5, RedirectedFacts DEF Rewrites, Continue
<1>6. CASE Attaches
  BY <1>1, <1>2, <1>6, WithSubnetFacts DEF Attaches, Continue
<1>7. CASE Detaches
  BY <1>1, <1>2, <1>7, WithoutSubnetFacts DEF Detaches, Continue
<1>8. CASE Marks
  BY <1>1, <1>2, <1>8, MarkedFacts DEF Marks, Continue
<1>9. CASE \E t \in Cache : CacheStep(t)
  <2>1. PICK t \in Cache : CacheStep(t)
    BY <1>9
  <2>2. /\ visited \subseteq visited'
        /\ ctx' = ctx \/ (ctx.query \in DOMAIN store[t] /\ ctx' = Hit(t))
    BY <2>1 DEF CacheStep
  <2>3. ctx'.skip = ctx.skip /\ ctx'.original = ctx.original /\ ctx'.public = ctx.public
    <3>1. CASE ctx' = ctx
      BY <3>1
    <3>2. CASE ctx.query \in DOMAIN store[t] /\ ctx' = Hit(t)
      <4>1. PICK x : x = ctx'
        OBVIOUS
      <4>2. x.skip = ctx.skip /\ x.original = ctx.original /\ x.public = ctx.public
        BY <3>2, <4>1, HitKeeps
      <4>3. QED
        BY <4>1, <4>2, Zenon
    <3>3. QED
      BY <2>2, <3>1, <3>2, Zenon
  <2>4. QED
    BY <1>2, <2>2, <2>3
<1>10. CASE Ends
  <2>1. visited' = visited /\ (ctx' = ctx \/ ctx' = Finalize(ctx))
    BY <1>10 DEF Ends, Finish
  <2>2. QED
    BY <1>1, <1>2, <2>1, FinalizeFacts
<1>11. CASE TimesOut
  <2>1. PICK r \in Resp : r = Skeleton(ctx.query, "fail", run)
    BY <1>1, SkeletonFacts
  <2>2. PICK d \in Context : /\ d = SetResponse(ctx, r) /\ d.skip = ctx.skip
                             /\ d.original = ctx.original /\ d.public = ctx.public
    BY <1>1, SetResponseFacts
  <2>3. visited' = visited /\ ctx' = Finalize(d)
    BY <1>11, <2>1, <2>2 DEF TimesOut, Abort, Reject
  <2>4. QED
    BY <1>2, <2>2, <2>3, FinalizeFacts
<1>12. CASE Rejects
  <2>1. PICK r \in Resp : visited' = visited /\ ctx' = SetResponse(ctx, r)
    BY <1>1, <1>12, SkeletonFacts DEF Rejects, RejectStep, Reject
  <2>2. QED
    BY <1>1, <1>2, <2>1, SetResponseFacts
<1>13. CASE \E goto \in BOOLEAN : Call(goto)
  BY <1>2, <1>13 DEF Call
<1>14. CASE Resumes
  BY <1>2, <1>14 DEF Resumes
<1>15. QED
  BY <1>3, <1>4, <1>5, <1>6, <1>7, <1>8, <1>9, <1>10, <1>11, <1>12, <1>13, <1>14, StepKinds

(* Without an answer, only an upstream that fails keeps a run from the move *)
(* its place determines.                                                    *)
LEMMA NoisyStep ==
  ASSUME Core, Nesting, ~ HasResp, pc # "idle", ~ Quiet(prog, Now), Step,
         ctx'.resp.rcode = "absent"
  PROVE  ForwardFails
<1>1. PICK K : K = Now
  OBVIOUS
<1>2. K.pc = pc /\ K.query = ctx.query /\ StepAt(prog, K) = Current /\ (InSteps(prog, K) <=> Running)
  BY <1>1, NowFacts
<1>3. PICK x : x = Current.do
  OBVIOUS
<1>4. /\ Acts(prog, K)
      /\ x \in {"forward", "reject", "black_hole"} \/ (x = "hosts" /\ ctx.query.name \in Host)
  BY <1>1, <1>2, <1>3 DEF Quiet
<1>5. Running /\ Applies(K, Current.when)
  BY <1>2, <1>4, Zenon DEF Acts
<1>6. Matches(Current.when)
  BY <1>1, <1>5, AppliesRight, Zenon
<1>7. pc = "run" /\ Top.i <= Len(Steps)
  BY <1>5 DEF Running
<1>8. ~ Skip
  BY <1>6 DEF Skip
<1>9. ~ EndOfSteps
  <2>1. prog[Top.seq] \in Seq([when : Matcher, do : Exec]) /\ Top.i \in Nat
    BY TopFacts, PipelineAssumption DEF Core, FrameRec
  <2>2. Len(Steps) \in Nat
    BY <2>1 DEF Steps
  <2>3. QED
    BY <1>7, <2>1, <2>2 DEF EndOfSteps
<1>10. ~ Resume
  BY <1>7 DEF Resume
<1>11. \A y : At(y) => y = x
  BY <1>3 DEF At
<1>12. x \in Plugin
  BY <1>4 DEF Plugin
<1>13. ~ \E t \in Cache : CacheStep(t)
  BY <1>11, <1>12, PipelineAssumption DEF CacheStep
<1>14. ~ Redirect /\ ~ Ecs /\ ~ NoEcs /\ ~ Mark /\ ~ DropResp /\ ~ Accept /\ ~ Return
  <2>1. ~ At("redirect") /\ ~ At("ecs") /\ ~ At("no_ecs") /\ ~ At("mark") /\ ~ At("drop_resp")
        /\ ~ At("accept") /\ ~ At("return")
    BY <1>4, <1>11
  <2>2. QED
    BY <2>1 DEF Redirect, Ecs, NoEcs, Mark, DropResp, Accept, Return
<1>15. ~ \E goto \in BOOLEAN : Call(goto)
  <2>1. ~ At("call") /\ ~ At("goto")
    BY <1>4, <1>11
  <2>2. QED
    BY <2>1 DEF Call
<1>16. ctx \in Context /\ ctx.query \in Query /\ run \in Nat
  BY ContextFields, PipelineAssumption DEF Core
<1>17. ASSUME NEW r \in Resp, r.rcode # "absent", ctx' = SetResponse(ctx, r)
       PROVE  FALSE
  BY <1>16, <1>17, SetResponseFacts
<1>18. ASSUME NEW c \in {"ok", "nx", "fail"}
       PROVE  Skeleton(ctx.query, c, run) \in Resp /\ Skeleton(ctx.query, c, run).rcode # "absent"
  BY <1>16, <1>18, SkeletonFacts
<1>19. ~ Hosts
  <2>1. SUFFICES ASSUME Hosts PROVE FALSE
    OBVIOUS
  <2>2. At("hosts")
    BY <2>1 DEF Hosts
  <2>3. x = "hosts"
    BY <1>11, <2>2
  <2>4. ctx' = SetResponse(ctx, Skeleton(ctx.query, "ok", run))
    BY <1>4, <2>1, <2>3 DEF Hosts, Continue
  <2>5. QED
    BY <1>17, <1>18, <2>4
<1>20. ASSUME NEW c \in {"ok", "nx", "fail"}, RejectStep(c) \/ Blackhole(c)
       PROVE  FALSE
  <2>1. ctx' = SetResponse(ctx, Skeleton(ctx.query, c, run))
    BY <1>20 DEF RejectStep, Blackhole, Continue, Reject
  <2>2. QED
    BY <1>17, <1>18, <2>1
<1>21. ASSUME NEW c \in {"ok", "nx", "fail"}, NEW p \in BOOLEAN, Forward(c, p)
       PROVE  FALSE
  <2>1. ctx' = SetResponse(ctx, Upstream(c, p))
    BY <1>21 DEF Forward, Continue
  <2>2. PICK b \in BOOLEAN : b = (p /\ ctx.query.edns)
    OBVIOUS
  <2>3. PICK r : r = [Skeleton(ctx.query, c, run) EXCEPT !.private = b]
    OBVIOUS
  <2>4. c \in {"absent", "ok", "nx", "fail"} /\ c # "absent"
    BY <1>21
  <2>5. r \in Resp /\ r.rcode = c
    BY <1>16, <2>3, <2>4, MadeFacts DEF Made
  <2>6. ctx' = SetResponse(ctx, r)
    BY <2>1, <2>2, <2>3 DEF Upstream
  <2>7. QED
    BY <1>17, <2>4, <2>5, <2>6
<1>22. ~ TimesOut
  <2>1. SUFFICES ASSUME TimesOut PROVE FALSE
    OBVIOUS
  <2>2. PICK r \in Resp : r = Skeleton(ctx.query, "fail", run) /\ r.rcode # "absent"
    BY <1>18
  <2>3. PICK d \in Context : d = SetResponse(ctx, r) /\ d.resp = r
    BY <1>16, SetResponseFacts
  <2>4. ctx' = Finalize(d)
    BY <2>1, <2>2, <2>3 DEF TimesOut, Abort, Reject
  <2>5. ctx'.resp.rcode = d.resp.rcode
    BY <2>4, FinalizeFacts
  <2>6. QED
    BY <2>2, <2>3, <2>5
<1>23. QED
  <2>1. ~ \E c \in {"ok", "nx", "fail"} : Forward(c, FALSE) \/ RejectStep(c) \/ Blackhole(c)
    BY <1>20, <1>21
  <2>2. ~ Forward("ok", TRUE)
    BY <1>21
  <2>3. QED
    BY <1>8, <1>9, <1>10, <1>13, <1>14, <1>15, <1>19, <1>22, <2>1, <2>2 DEF Step

-----------------------------------------------------------------------------
(* Runs for which no lookup is left. *)

(* A sequence that runs another is at the step that does. *)
Callers ==
  pc # "idle" =>
    \A j \in 1 .. Len(frames) - 1 :
      /\ frames[j].i \in 1 .. Len(prog[frames[j].seq])
      /\ frames[j].goto \/ prog[frames[j].seq][frames[j].i].do = "call"

(* Frame f has no lookup before it; r: it is to take the step it is at. *)
Spent(f, r) ==
  IF r THEN Barren(prog, f.seq, f.i) ELSE f.goto \/ Barren(prog, f.seq, f.i + 1)

Over == \A j \in 1 .. Len(frames) : Spent(frames[j], j = Len(frames) /\ pc = "run")

LEMMA BarrenOn ==
  ASSUME NEW P \in Programs, NEW s \in Tag, NEW i \in Nat, Barren(P, s, i)
  PROVE  Barren(P, s, i + 1)
<1>1. Len(P[s]) \in Nat
  BY ProgramFacts DEF Tag
<1>2. \A j \in i + 1 .. Len(P[s]) : j \in i .. Len(P[s])
  BY <1>1
<1>3. QED
  BY <1>2 DEF Barren

LEMMA TopPlace ==
  ASSUME Core, Nesting, Running
  PROVE  /\ Top.i \in 1 .. Len(prog[Top.seq]) /\ Top.seq \in Tag /\ prog \in Programs
         /\ Current = prog[Top.seq][Top.i]
         /\ Len(frames) # 1 => Top.seq = "sub"
<1>1. PICK n \in Nat \ {0} : n = Len(frames) /\ Top = frames[n] /\ Top \in FrameRec
  BY TopFacts DEF Running
<1>2. prog \in Programs /\ pc # "idle"
  BY DEF Core, Running
<1>3. n \in 1 .. n
  BY <1>1
<1>4. Top.i # 0 /\ (n # 1 => Top.seq = "sub")
  BY <1>1, <1>2, <1>3 DEF Nesting
<1>5. Top.i \in Nat /\ Top.seq \in Tag
  BY <1>1 DEF FrameRec
<1>6. Len(prog[Top.seq]) \in Nat
  BY <1>2, <1>5, ProgramFacts DEF Tag
<1>7. Top.i <= Len(prog[Top.seq])
  BY DEF Running, Steps
<1>8. QED
  BY <1>1, <1>2, <1>4, <1>5, <1>6, <1>7 DEF Current, Steps

LEMMA CallersInductive ==
  ASSUME Core, Nesting, Callers, [Next]_vars
  PROVE  Callers'
<1>1. CASE Enters
  <2>1. Len(frames') = 1
    BY <1>1, MainFrame DEF Enters
  <2>2. \A j \in 1 .. Len(frames') - 1 : FALSE
    BY <2>1
  <2>3. QED
    BY <2>2 DEF Callers
<1>2. CASE Refuses
  BY <1>2 DEF Refuses, Callers
<1>3. CASE UNCHANGED vars
  BY <1>3 DEF vars, Callers
<1>4. CASE Step
  <2>0. prog' = prog
    BY <1>4 DEF Step
  <2>1. ASSUME pc # "idle", Len(frames') = Len(frames),
               \A j \in 1 .. Len(frames) : j # Len(frames) => frames'[j] = frames[j]
        PROVE  Callers'
    <3>1. PICK n \in Nat \ {0} : n = Len(frames)
      BY <2>1, TopFacts
    <3>2. \A j \in 1 .. n - 1 : j \in 1 .. n /\ j # n
      BY <3>1
    <3>3. QED
      BY <2>0, <2>1, <3>1, <3>2 DEF Callers
  <2>2. CASE Passes \/ Answers \/ Rewrites \/ Attaches \/ Detaches \/ Marks \/ Resumes
    <3>1. pc # "idle" /\ Advance
      BY <2>2 DEF Passes, Answers, Rewrites, Attaches, Detaches, Marks, Resumes, At, Running, Continue
    <3>2. QED
      BY <2>1, <3>1, AdvanceFacts
  <2>3. CASE \E t \in Cache : CacheStep(t)
    <3>1. pc # "idle"
      BY <2>3 DEF CacheStep, At
    <3>2. QED
      BY <2>1, <2>3, <3>1, CacheFrames
  <2>4. CASE Ends
    <3>1. pc # "idle" /\ frames' = Front(frames)
      BY <2>4 DEF Ends, Finish
    <3>2. PICK n \in Nat \ {0} : n = Len(frames)
      BY <3>1, TopFacts
    <3>3. Len(frames') = n - 1 /\ \A j \in 1 .. (n - 1) : frames'[j] = frames[j]
      BY <3>1, <3>2, FrontFacts
    <3>4. \A j \in 1 .. Len(frames') - 1 : j \in 1 .. (n - 1)
      BY <3>2, <3>3
    <3>5. QED
      BY <2>0, <3>1, <3>2, <3>3, <3>4 DEF Callers
  <2>5. CASE TimesOut
    BY <2>5 DEF TimesOut, Abort, Callers
  <2>6. CASE Rejects
    BY <2>0, <2>6 DEF Rejects, RejectStep, At, Callers
  <2>7. CASE \E goto \in BOOLEAN : Call(goto)
    <3>1. PICK goto \in BOOLEAN : Call(goto)
      BY <2>7
    <3>2. /\ pc = "run" /\ Running /\ Current.do = IF goto THEN "goto" ELSE "call"
          /\ frames' = Append([frames EXCEPT ![Len(frames)].goto = goto], Frame("sub"))
      BY <3>1 DEF Call, At, Running
    <3>3. PICK n \in Nat \ {0} : n = Len(frames) /\ Top = frames[n] /\ Top \in FrameRec
      BY <3>2, TopFacts
    <3>4. /\ Len(frames') = n + 1
          /\ frames'[n] = [Top EXCEPT !.goto = goto]
          /\ \A j \in 1 .. (n - 1) : frames'[j] = frames[j]
      BY <3>2, <3>3, CallFacts
    <3>5. /\ Top.i \in 1 .. Len(prog[Top.seq]) /\ Current = prog[Top.seq][Top.i]
      BY <3>2, TopPlace
    <3>6. frames'[n].seq = Top.seq /\ frames'[n].i = Top.i /\ frames'[n].goto = goto
      BY <3>3, <3>4 DEF FrameRec
    <3>7. /\ frames'[n].i \in 1 .. Len(prog[frames'[n].seq])
          /\ frames'[n].goto \/ prog[frames'[n].seq][frames'[n].i].do = "call"
      <4>1. CASE goto
        BY <3>5, <3>6, <4>1
      <4>2. CASE ~ goto
        BY <3>2, <3>5, <3>6, <4>2
      <4>3. QED
        BY <4>1, <4>2
    <3>8. \A j \in 1 .. Len(frames') - 1 : j = n \/ j \in 1 .. (n - 1)
      BY <3>3, <3>4
    <3>9. \A j \in 1 .. (n - 1) : /\ frames[j].i \in 1 .. Len(prog[frames[j].seq])
                                  /\ frames[j].goto \/ prog[frames[j].seq][frames[j].i].do = "call"
      BY <3>2, <3>3 DEF Callers
    <3>10. \A j \in 1 .. Len(frames') - 1 :
             /\ frames'[j].i \in 1 .. Len(prog[frames'[j].seq])
             /\ frames'[j].goto \/ prog[frames'[j].seq][frames'[j].i].do = "call"
      <4>1. SUFFICES ASSUME NEW j \in 1 .. Len(frames') - 1
                     PROVE  /\ frames'[j].i \in 1 .. Len(prog[frames'[j].seq])
                            /\ frames'[j].goto \/ prog[frames'[j].seq][frames'[j].i].do = "call"
        OBVIOUS
      <4>2. CASE j = n
        BY <3>7, <4>2
      <4>3. CASE j \in 1 .. (n - 1)
        <5>1. frames'[j] = frames[j]
          BY <3>4, <4>3
        <5>2. QED
          BY <3>9, <4>3, <5>1, Zenon
      <4>4. QED
        BY <3>8, <4>2, <4>3
    <3>11. QED
      BY <2>0, <3>10 DEF Callers
  <2>8. QED
    BY <1>4, <2>2, <2>3, <2>4, <2>5, <2>6, <2>7, StepKinds
<1>5. QED
  BY <1>1, <1>2, <1>3, <1>4, NextKinds

(* The innermost sequence goes on to steps that look nothing up. *)
LEMMA OverAdvance ==
  ASSUME Core, pc # "idle", Advance, prog' = prog, pc' = "run",
         Barren(prog, Top.seq, Top.i + 1),
         \A j \in 1 .. Len(frames) - 1 : Spent(frames[j], FALSE)
  PROVE  Over'
<1>1. PICK n \in Nat \ {0} : n = Len(frames) /\ Top = frames[n] /\ Top \in FrameRec
  BY TopFacts
<1>2. /\ Len(frames') = n /\ frames'[n] = [Top EXCEPT !.i = Top.i + 1]
      /\ \A j \in 1 .. n : j # n => frames'[j] = frames[j]
  BY <1>1, AdvanceFacts
<1>3. frames'[n].seq = Top.seq /\ frames'[n].i = Top.i + 1
  BY <1>1, <1>2 DEF FrameRec
<1>4. SUFFICES ASSUME NEW j \in 1 .. n
               PROVE  IF j = n THEN Barren(prog, frames'[j].seq, frames'[j].i)
                      ELSE frames'[j].goto \/ Barren(prog, frames'[j].seq, frames'[j].i + 1)
  BY <1>2 DEF Over, Spent
<1>5. CASE j = n
  BY <1>3, <1>5
<1>6. CASE j # n
  <2>1. j \in 1 .. n - 1
    BY <1>1, <1>4, <1>6
  <2>2. frames[j].goto \/ Barren(prog, frames[j].seq, frames[j].i + 1)
    BY <1>1, <2>1 DEF Spent
  <2>3. frames'[j] = frames[j]
    BY <1>2, <1>6
  <2>4. QED
    BY <1>6, <2>2, <2>3
<1>7. QED
  BY <1>5, <1>6

(* Once an upstream has failed, no lookup is left. *)
LEMMA OverBegins ==
  ASSUME UpstreamsLast, Core, Nesting, Callers, ForwardFails, prog' = prog
  PROVE  Over'
<1>1. /\ pc = "run" /\ pc' = "run" /\ Advance /\ Running /\ Current.do = "forward"
  BY DEF ForwardFails, At, Continue, Running
<1>2. PICK n \in Nat \ {0} : n = Len(frames) /\ \A j \in 1 .. n : frames[j] \in FrameRec
  BY <1>1, TopFacts
<1>3. /\ Top.i \in 1 .. Len(prog[Top.seq]) /\ Top.seq \in Tag /\ prog \in Programs
      /\ prog[Top.seq][Top.i].do = "forward"
      /\ n # 1 => Top.seq = "sub"
  BY <1>1, <1>2, TopPlace
<1>4. ForwardsLast(prog)
  BY <1>3 DEF UpstreamsLast
<1>5. Barren(prog, Top.seq, Top.i + 1)
  BY <1>3, <1>4 DEF ForwardsLast
<1>6. ASSUME NEW j \in 1 .. n - 1
      PROVE  Spent(frames[j], FALSE)
  <2>1. n # 1 /\ j \in 1 .. n
    BY <1>2, <1>6
  <2>2. \A s \in Tag : \A i \in 1 .. Len(prog[s]) : prog[s][i].do = "call" => Barren(prog, s, i + 1)
    <3>1. Top.i \in 1 .. Len(prog["sub"]) /\ prog["sub"][Top.i].do = "forward"
      BY <1>3, <2>1
    <3>2. QED
      BY <1>4, <3>1 DEF ForwardsLast
  <2>3. /\ frames[j].i \in 1 .. Len(prog[frames[j].seq])
        /\ frames[j].goto \/ prog[frames[j].seq][frames[j].i].do = "call"
    BY <1>1, <1>2, <1>6 DEF Callers
  <2>4. frames[j].seq \in Tag
    BY <1>2, <2>1 DEF FrameRec
  <2>5. CASE frames[j].goto
    BY <2>5 DEF Spent
  <2>6. CASE ~ frames[j].goto
    <3>1. Barren(prog, frames[j].seq, frames[j].i + 1)
      BY <2>2, <2>3, <2>4, <2>6
    <3>2. QED
      BY <3>1 DEF Spent
  <2>7. QED
    BY <2>5, <2>6
<1>7. QED
  BY <1>1, <1>2, <1>5, <1>6, OverAdvance

(* Where no lookup is left, none comes, and none will be left. *)
LEMMA OverFacts ==
  ASSUME Core, Nesting, Over, pc # "idle"
  PROVE  /\ \A j \in 1 .. Len(frames) - 1 : Spent(frames[j], FALSE)
         /\ Running => Current.do \notin Cache \cup {"call", "goto"}
         /\ pc = "run" => Barren(prog, Top.seq, Top.i + 1)
         /\ pc = "ret" => Spent(Top, FALSE)
<1>1. PICK n \in Nat \ {0} : n = Len(frames) /\ Top = frames[n] /\ Top \in FrameRec
  BY TopFacts
<1>2. n \in 1 .. n /\ \A j \in 1 .. n - 1 : j \in 1 .. n /\ j # n
  BY <1>1
<1>3. \A j \in 1 .. n - 1 : Spent(frames[j], FALSE)
  BY <1>1, <1>2 DEF Over, Spent
<1>4. pc = "run" => Barren(prog, Top.seq, Top.i)
  BY <1>1, <1>2 DEF Over, Spent
<1>5. pc = "ret" => Spent(Top, FALSE)
  BY <1>1, <1>2 DEF Over, Spent
<1>6. Top.seq \in Tag /\ Top.i \in Nat /\ prog \in Programs
  BY <1>1 DEF FrameRec, Core
<1>7. pc = "run" => Barren(prog, Top.seq, Top.i + 1)
  BY <1>4, <1>6, BarrenOn
<1>8. ASSUME Running PROVE Current.do \notin Cache \cup {"call", "goto"}
  <2>1. Top.i \in 1 .. Len(prog[Top.seq]) /\ Current = prog[Top.seq][Top.i] /\ pc = "run"
    BY <1>8, TopPlace DEF Running
  <2>2. Len(prog[Top.seq]) \in Nat
    BY <1>6, ProgramFacts DEF Tag
  <2>3. Top.i \in Top.i .. Len(prog[Top.seq])
    BY <2>1, <2>2
  <2>4. QED
    BY <1>4, <2>1, <2>3 DEF Barren
<1>9. QED
  BY <1>1, <1>3, <1>5, <1>7, <1>8

LEMMA OverStep ==
  ASSUME Core, Nesting, Over, Step
  PROVE  Over' /\ ~ \E t \in Cache : CacheStep(t)
<1>0. prog' = prog /\ pc # "idle"
  BY DEF Step, Skip, EndOfSteps, CacheStep, Redirect, Ecs, NoEcs, Mark, DropResp, Hosts, Forward,
         ForwardFails, TimesOut, Accept, Return, RejectStep, Blackhole, Call, Resume, At
<1>1. PICK n \in Nat \ {0} : n = Len(frames) /\ Top = frames[n] /\ Top \in FrameRec
  BY <1>0, TopFacts
<1>2. /\ \A j \in 1 .. n - 1 : Spent(frames[j], FALSE)
      /\ Running => Current.do \notin Cache \cup {"call", "goto"}
      /\ pc = "run" => Barren(prog, Top.seq, Top.i + 1)
      /\ pc = "ret" => Spent(Top, FALSE)
  BY <1>0, <1>1, OverFacts
<1>3. ~ \E t \in Cache : CacheStep(t)
  BY <1>2 DEF CacheStep, At, Running
<1>4. ~ \E goto \in BOOLEAN : Call(goto)
  BY <1>2 DEF Call, At, Running
<1>5. CASE Passes \/ Answers \/ Rewrites \/ Attaches \/ Detaches \/ Marks
  <2>1. pc = "run" /\ pc' = "run" /\ Advance
    BY <1>5 DEF Passes, Answers, Rewrites, Attaches, Detaches, Marks, At, Running, Continue
  <2>2. Over'
    BY <1>0, <1>1, <1>2, <2>1, OverAdvance
  <2>3. QED
    BY <1>3, <2>2
<1>6. CASE Resumes
  <2>1. pc = "ret" /\ pc' = "run" /\ Advance /\ ~ Top.goto
    BY <1>6 DEF Resumes
  <2>2. Barren(prog, Top.seq, Top.i + 1)
    BY <1>2, <2>1 DEF Spent
  <2>3. Over'
    BY <1>0, <1>1, <1>2, <2>1, <2>2, OverAdvance
  <2>4. QED
    BY <1>3, <2>3
<1>7. CASE Ends
  <2>1. frames' = Front(frames) /\ pc' # "run"
    BY <1>7 DEF Ends, Finish
  <2>2. Len(frames') = n - 1 /\ \A j \in 1 .. (n - 1) : frames'[j] = frames[j]
    BY <1>0, <1>1, <2>1, FrontFacts
  <2>3. \A j \in 1 .. n - 1 : frames'[j].goto \/ Barren(prog, frames'[j].seq, frames'[j].i + 1)
    BY <1>2, <2>2 DEF Spent
  <2>4. Over'
    BY <1>0, <2>1, <2>2, <2>3 DEF Over, Spent
  <2>5. QED
    BY <1>3, <2>4
<1>8. CASE TimesOut
  <2>1. Len(frames') = 0
    BY <1>8 DEF TimesOut, Abort
  <2>2. \A j \in 1 .. Len(frames') : FALSE
    BY <2>1
  <2>3. QED
    BY <1>3, <2>2 DEF Over
<1>9. CASE Rejects
  <2>1. frames' = frames /\ pc = "run" /\ pc' = "ret"
    BY <1>9 DEF Rejects, RejectStep, At
  <2>2. Spent(Top, FALSE)
    BY <1>2, <2>1 DEF Spent
  <2>3. \A j \in 1 .. n : Spent(frames[j], FALSE)
    <3>1. \A j \in 1 .. n : j = n \/ j \in 1 .. n - 1
      BY <1>1
    <3>2. QED
      BY <1>1, <1>2, <2>2, <3>1
  <2>4. Over'
    BY <1>0, <1>1, <2>1, <2>3 DEF Over, Spent
  <2>5. QED
    BY <1>3, <2>4
<1>10. QED
  BY <1>3, <1>4, <1>5, <1>6, <1>7, <1>8, <1>9, StepKinds

-----------------------------------------------------------------------------
(* Refreshes come to the lookup they were spawned for. *)

(* From the start of the pipeline, refresh p comes to its lookup. *)
Spawned(p) ==
  p.first => \E q \in Query, b \in BOOLEAN :
               /\ p.ctx = [NewContext(q, b) EXCEPT !.skip = TRUE]
               /\ Seeks(prog, Start(q, b), p.cache, p.key)

(* A client's run that has had no answer came by quiet moves, or has       *)
(* nothing left to look up.                                                *)
OnRoute ==
  pc # "idle" /\ ~ touched =>
    /\ ~ HasResp
    /\ ~ ctx.skip => Route(prog, Start(ctx.original, ctx.public), Now) \/ Over

(* A refresh has executed its lookup, or is on its way to it. *)
OnAim ==
  ctx.skip /\ aim.cache # "none" =>
    \/ << aim.cache, aim.key >> \in visited
    \/ pc # "idle" /\ ~ HasResp /\ Seeks(prog, Now, aim.cache, aim.key)

Aimed == (\A p \in pending : Spawned(p)) /\ OnRoute /\ OnAim

LEMMA StartNow ==
  ASSUME NEW q, NEW b, pc' = "run", frames' = << Frame("main") >>,
         ctx'.query = q, ctx'.mark = FALSE, ctx'.public = b
  PROVE  Now' = Start(q, b)
<1>1. Len(frames') = 1 /\ frames'[1] = Frame("main")
  BY MainFrame
<1>2. Frame("main").seq = "main" /\ Frame("main").i = 1 /\ Frame("main").goto = FALSE
  BY FrameFacts DEF Tag
<1>3. Seats(frames') = [j \in 1 .. 1 |-> Seat(frames'[j])]
  BY <1>1 DEF Seats
<1>4. \A j \in 1 .. 1 : Seat(frames'[j]) = [seq |-> "main", i |-> 1, goto |-> FALSE]
  <2>1. SUFFICES ASSUME NEW j \in 1 .. 1 PROVE Seat(frames'[j]) = [seq |-> "main", i |-> 1, goto |-> FALSE]
    OBVIOUS
  <2>2. PICK f : f = frames'[j] /\ f.seq = "main" /\ f.i = 1 /\ f.goto = FALSE
    <3>1. j = 1
      BY <2>1
    <3>2. QED
      BY <1>1, <1>2, <3>1
  <2>3. QED
    BY <2>2, Zenon DEF Seat
<1>5. Seats(frames') = [j \in 1 .. 1 |-> [seq |-> "main", i |-> 1, goto |-> FALSE]]
  BY <1>3, <1>4
<1>6. Now' = [pc |-> "run", ret |-> "continue", n |-> 1, at |-> Seats(frames'), query |-> q, mark |-> FALSE,
              public |-> b]
  BY <1>1, NowNext
<1>7. QED
  BY <1>5, <1>6, Zenon DEF Start

LEMMA OnRouteStep ==
  ASSUME UpstreamsLast, Core, Nesting, Callers, OnRoute, Step
  PROVE  OnRoute'
<1>1. /\ ctx'.skip = ctx.skip /\ ctx'.original = ctx.original /\ ctx'.public = ctx.public
      /\ prog' = prog
      /\ (~ touched' => ~ touched /\ ctx'.resp.rcode = "absent")
  BY StepKeeps
<1>2. pc # "idle"
  BY DEF Step, Skip, EndOfSteps, CacheStep, Redirect, Ecs, NoEcs, Mark, DropResp, Hosts, Forward,
         ForwardFails, TimesOut, Accept, Return, RejectStep, Blackhole, Call, Resume, At
<1>3. SUFFICES ASSUME ~ touched', ~ ctx.skip
               PROVE  Route(prog, Start(ctx.original, ctx.public), Now') \/ Over'
  BY <1>1 DEF OnRoute, HasResp
<1>4. ~ HasResp /\ ctx'.resp.rcode = "absent"
  BY <1>1, <1>2, <1>3 DEF OnRoute
<1>5. CASE Over
  BY <1>5, OverStep
<1>6. CASE Route(prog, Start(ctx.original, ctx.public), Now)
  <2>1. CASE Quiet(prog, Now)
    <3>1. Now' = Move(prog, Now)
      BY <1>4, <2>1, NowMoves
    <3>2. PICK K, L, M : K = Now /\ L = Now' /\ M = Start(ctx.original, ctx.public)
      OBVIOUS
    <3>3. Route(prog, M, K) /\ Quiet(prog, K) /\ L = Move(prog, K)
      BY <1>6, <2>1, <3>1, <3>2
    <3>4. Route(prog, M, L)
      BY <3>3, RouteOn
    <3>5. QED
      BY <3>2, <3>4
  <2>2. CASE ~ Quiet(prog, Now)
    <3>1. ForwardFails
      BY <1>2, <1>4, <2>2, NoisyStep
    <3>2. QED
      BY <1>1, <3>1, OverBegins
  <2>3. QED
    BY <2>1, <2>2
<1>7. QED
  BY <1>1, <1>2, <1>3, <1>5, <1>6 DEF OnRoute

LEMMA LookedUp ==
  ASSUME Core, Nesting, ~ HasResp, pc # "idle", NEW c, NEW k, LooksUp(prog, Now, c, k), Step
  PROVE  << c, k >> \in visited'
<1>1. PICK K : K = Now
  OBVIOUS
<1>2. Acts(prog, K) /\ StepAt(prog, K).do = c /\ c \in Cache /\ K.query = k /\ ~ Keyless(k)
  BY <1>1 DEF LooksUp
<1>3. K.query = ctx.query /\ StepAt(prog, K) = Current /\ (InSteps(prog, K) <=> Running)
  BY <1>1, NowFacts
<1>4. Running /\ Applies(K, Current.when)
  BY <1>2, <1>3, Zenon DEF Acts
<1>5. Matches(Current.when)
  BY <1>1, <1>4, AppliesRight, Zenon
<1>6. \A y : At(y) => y = c
  BY <1>2, <1>3 DEF At
<1>7. c \notin Plugin
  BY <1>2, PipelineAssumption
<1>8. \A y \in Plugin : ~ At(y)
  BY <1>6, <1>7
<1>9. /\ ~ At("redirect") /\ ~ At("ecs") /\ ~ At("no_ecs") /\ ~ At("mark") /\ ~ At("drop_resp")
      /\ ~ At("hosts") /\ ~ At("forward") /\ ~ At("accept") /\ ~ At("return") /\ ~ At("reject")
      /\ ~ At("black_hole") /\ ~ At("call") /\ ~ At("goto")
  BY <1>8 DEF Plugin
<1>10. ~ Skip /\ ~ Resume
  BY <1>4, <1>5 DEF Skip, Resume, Running
<1>11. ~ EndOfSteps
  <2>1. prog[Top.seq] \in Seq([when : Matcher, do : Exec]) /\ Top.i \in Nat
    BY TopFacts, PipelineAssumption DEF Core, FrameRec
  <2>2. Len(Steps) \in Nat
    BY <2>1 DEF Steps
  <2>3. QED
    BY <1>4, <2>1, <2>2 DEF EndOfSteps, Running
<1>12. \E t \in Cache : CacheStep(t)
  BY <1>9, <1>10, <1>11 DEF Step, Redirect, Ecs, NoEcs, Mark, DropResp, Hosts, Forward,
         ForwardFails, TimesOut, Accept, Return, RejectStep, Blackhole, Call
<1>13. PICK t \in Cache : CacheStep(t)
  BY <1>12
<1>14. t = c
  BY <1>6, <1>13 DEF CacheStep
<1>15. visited' = visited \cup {<< t, ctx.query >>}
  BY <1>2, <1>3, <1>13 DEF CacheStep
<1>16. QED
  BY <1>2, <1>3, <1>14, <1>15

LEMMA OnAimStep ==
  ASSUME Core, Nesting, OnAim, Step
  PROVE  OnAim'
<1>1. /\ ctx'.skip = ctx.skip /\ visited \subseteq visited' /\ prog' = prog /\ aim' = aim
  BY StepKeeps
<1>2. SUFFICES ASSUME ctx.skip, aim.cache # "none"
               PROVE  \/ << aim.cache, aim.key >> \in visited'
                      \/ pc' # "idle" /\ ctx'.resp.rcode = "absent" /\ Seeks(prog, Now', aim.cache, aim.key)
  BY <1>1 DEF OnAim, HasResp
<1>3. CASE << aim.cache, aim.key >> \in visited
  BY <1>1, <1>3
<1>4. CASE pc # "idle" /\ ~ HasResp /\ Seeks(prog, Now, aim.cache, aim.key)
  <2>1. PICK K, M, c, k : K = Now /\ M = Now' /\ c = aim.cache /\ k = aim.key
    OBVIOUS
  <2>2. PICK L : Route(prog, K, L) /\ LooksUp(prog, L, c, k)
    BY <1>4, <2>1 DEF Seeks
  <2>3. CASE K = L
    <3>1. LooksUp(prog, Now, c, k)
      BY <2>1, <2>2, <2>3
    <3>2. << c, k >> \in visited'
      BY <1>4, <3>1, LookedUp
    <3>3. QED
      BY <2>1, <3>2
  <2>4. CASE K # L
    <3>1. Quiet(prog, K) /\ Route(prog, Move(prog, K), L)
      BY <2>2, <2>4, RouteFrom
    <3>2. Quiet(prog, Now)
      BY <2>1, <3>1
    <3>3. Now' = Move(prog, Now) /\ ctx'.resp.rcode = "absent"
      BY <1>2, <1>4, <3>2, NowMoves
    <3>4. M = Move(prog, K)
      BY <2>1, <3>3
    <3>5. Seeks(prog, M, c, k)
      BY <2>2, <3>1, <3>4, Zenon DEF Seeks
    <3>6. M.pc # "idle"
      BY <3>5, SeeksRuns
    <3>7. M.pc = pc'
      BY <2>1, NowNext
    <3>8. QED
      BY <2>1, <3>3, <3>5, <3>6, <3>7
  <2>5. QED
    BY <2>3, <2>4
<1>5. QED
  BY <1>2, <1>3, <1>4 DEF OnAim

LEMMA SpawnedStep ==
  ASSUME Core, Nesting, \A p \in pending : Spawned(p), OnRoute, Step
  PROVE  \A p \in pending' : Spawned(p)'
<1>1. prog' = prog /\ (\A p : Spawned(p)' <=> Spawned(p))
  BY StepKeeps DEF Spawned
<1>2. CASE pending' = pending
  BY <1>1, <1>2
<1>3. ASSUME NEW t \in Cache, CacheStep(t), pending' = pending \cup Kicked(t),
             ~ Keyless(ctx.query), ~ ctx.skip
      PROVE  \A p \in pending' : Spawned(p)'
  <2>1. SUFFICES ASSUME NEW p \in Kicked(t), p.first PROVE Spawned(p)
    <3>1. \A p : ~ p.first => Spawned(p)
      BY DEF Spawned
    <3>2. QED
      BY <1>1, <1>3, <2>1, <3>1
  <2>2. p = [ctx |-> CloneForLazy(ctx), cache |-> t, key |-> ctx.query, first |-> ~ touched]
    BY <2>1 DEF Kicked
  <2>3. p.ctx = CloneForLazy(ctx) /\ p.cache = t /\ p.key = ctx.query /\ ~ touched
    BY <2>1, <2>2
  <2>4. At(t) /\ pc # "idle"
    BY <1>3 DEF CacheStep, At
  <2>5. ~ HasResp /\ (Route(prog, Start(ctx.original, ctx.public), Now) \/ Over)
    BY <1>3, <2>3, <2>4 DEF OnRoute
  <2>6. ~ Over
    BY <1>3, OverStep
  <2>7. PICK K, M, q, b : K = Now /\ q = ctx.original /\ b = ctx.public /\ M = Start(q, b)
    OBVIOUS
  <2>8. Route(prog, M, K)
    BY <2>5, <2>6, <2>7
  <2>9. Acts(prog, K) /\ StepAt(prog, K).do = t /\ K.query = ctx.query
    BY <2>4, <2>5, <2>7, AtNow, NowFacts
  <2>10. LooksUp(prog, K, t, ctx.query)
    BY <1>3, <2>9 DEF LooksUp
  <2>11. Seeks(prog, M, t, ctx.query)
    BY <2>8, <2>10, Zenon DEF Seeks
  <2>12. q \in Query /\ b \in BOOLEAN
    BY <2>7, ContextFields DEF Core
  <2>13. p.ctx = [NewContext(q, b) EXCEPT !.skip = TRUE]
    BY <2>3, <2>7 DEF CloneForLazy
  <2>14. Seeks(prog, Start(q, b), p.cache, p.key)
    BY <2>3, <2>7, <2>11, Zenon
  <2>15. QED
    BY <2>12, <2>13, <2>14 DEF Spawned
<1>4. QED
  <2>1. CASE \E t \in Cache : CacheStep(t)
    <3>1. PICK t \in Cache : CacheStep(t)
      BY <2>1
    <3>2. \/ pending' = pending
          \/ pending' = pending \cup Kicked(t) /\ ~ Keyless(ctx.query) /\ ~ ctx.skip
      BY <3>1 DEF CacheStep
    <3>3. QED
      BY <1>2, <1>3, <3>1, <3>2
  <2>2. CASE ~ \E t \in Cache : CacheStep(t)
    <3>1. pending' = pending
      BY <2>2 DEF Step, Skip, EndOfSteps, Redirect, Ecs, NoEcs, Mark, DropResp, Hosts, Forward,
         ForwardFails, TimesOut, Accept, Return, RejectStep, Blackhole, Call, Resume, Continue,
         Finish, Abort
    <3>2. QED
      BY <1>2, <3>1
  <2>3. QED
    BY <2>1, <2>2

LEMMA AimedEnters ==
  ASSUME Core, Aimed, pc = "idle", prog' = prog, pc' = "run", frames' = << Frame("main") >>,
         touched' = FALSE, pending' \subseteq pending, ctx'.resp.rcode = "absent",
         ctx'.query = ctx'.original, ctx'.mark = FALSE,
         ctx'.skip /\ aim'.cache # "none" => Seeks(prog, Start(ctx'.original, ctx'.public), aim'.cache, aim'.key)
  PROVE  Aimed'
<1>1. Now' = Start(ctx'.original, ctx'.public)
  BY StartNow
<1>2. \A p \in pending' : Spawned(p)'
  BY DEF Aimed, Spawned
<1>3. PICK K, L : K = Now' /\ L = Start(ctx'.original, ctx'.public)
  OBVIOUS
<1>4. Route(prog, L, K)
  BY <1>1, <1>3, RouteHere
<1>5. OnRoute'
  BY <1>3, <1>4 DEF OnRoute, HasResp
<1>6. OnAim'
  BY <1>1 DEF OnAim, HasResp
<1>7. QED
  BY <1>2, <1>5, <1>6 DEF Aimed

LEMMA AimedInductive ==
  ASSUME UpstreamsLast, Core, Nesting, Callers, Aimed, [Next]_vars
  PROVE  Aimed'
<1>1. CASE Step
  <2>1. OnRoute'
    BY <1>1, OnRouteStep DEF Aimed
  <2>2. OnAim'
    BY <1>1, OnAimStep DEF Aimed
  <2>3. \A p \in pending' : Spawned(p)'
    BY <1>1, SpawnedStep DEF Aimed
  <2>4. QED
    BY <2>1, <2>2, <2>3 DEF Aimed
<1>2. CASE \E d \in Clients : Arrive(d)
  <2>1. PICK d \in Clients : Arrive(d)
    BY <1>2
  <2>2. PICK q \in Query, b \in BOOLEAN : q = d.query /\ b = d.public
    BY ClientFields
  <2>3. /\ pc = "idle" /\ prog' = prog /\ pc' = "run" /\ frames' = << Frame("main") >>
        /\ touched' = FALSE /\ pending' = pending /\ ctx' = NewContext(q, b)
    BY <2>1, <2>2 DEF Arrive, Enter
  <2>4. ctx'.query = q /\ ctx'.original = q /\ ctx'.mark = FALSE /\ ctx'.skip = FALSE
        /\ ctx'.resp.rcode = "absent"
    BY <2>3, NewContextFacts
  <2>5. QED
    BY <2>3, <2>4, AimedEnters
<1>3. CASE \E p \in pending : Refresh(p)
  <2>1. PICK p \in pending : Refresh(p)
    BY <1>3
  <2>2. /\ pc = "idle" /\ prog' = prog /\ pc' = "run" /\ frames' = << Frame("main") >>
        /\ touched' = FALSE /\ pending' \subseteq pending /\ ctx' = p.ctx
        /\ aim' = [cache |-> IF p.first THEN p.cache ELSE "none", key |-> p.key]
    BY <2>1 DEF Refresh, Enter
  <2>3. Spawned(p) /\ Restart(p)
    BY DEF Aimed, Core
  <2>4. PICK q \in Query, b \in BOOLEAN :
          /\ p.ctx = [NewContext(q, b) EXCEPT !.skip = TRUE]
          /\ p.first => Seeks(prog, Start(q, b), p.cache, p.key)
    <3>1. CASE p.first
      BY <2>3, <3>1 DEF Spawned
    <3>2. CASE ~ p.first
      BY <2>3, <3>2 DEF Restart
    <3>3. QED
      BY <3>1, <3>2
  <2>5. /\ ctx'.query = q /\ ctx'.original = q /\ ctx'.mark = FALSE /\ ctx'.resp.rcode = "absent"
        /\ ctx'.public = b
    <3>1. PICK x : x = [NewContext(q, b) EXCEPT !.skip = TRUE]
      OBVIOUS
    <3>2. /\ x.query = q /\ x.original = q /\ x.mark = FALSE /\ x.resp.rcode = "absent"
          /\ x.public = b
      BY <3>1, CloneFacts
    <3>3. QED
      BY <2>2, <2>4, <3>1, <3>2, Zenon
  <2>6. aim'.cache # "none" => Seeks(prog, Start(q, b), aim'.cache, aim'.key)
    <3>1. CASE p.first
      <4>1. aim'.cache = p.cache /\ aim'.key = p.key
        BY <2>2, <3>1
      <4>2. QED
        BY <2>4, <3>1, <4>1
    <3>2. CASE ~ p.first
      <4>1. aim'.cache = "none"
        BY <2>2, <3>2
      <4>2. QED
        BY <4>1
    <3>3. QED
      BY <3>1, <3>2
  <2>7. QED
    BY <2>2, <2>5, <2>6, AimedEnters
<1>4. CASE \E d \in Clients : ArriveNotImp(d)
  <2>1. PICK e \in Clients : ArriveNotImp(e)
    BY <1>4
  <2>2. PICK q \in Query, b \in BOOLEAN : q = e.query /\ b = e.public /\ run \in Nat
    BY ClientFields, PipelineAssumption DEF Core
  <2>3. /\ pc' = "idle" /\ prog' = prog /\ pending' = pending
        /\ ctx' = Finalize(Reject(NewContext(q, b), "fail"))
    BY <2>1, <2>2 DEF ArriveNotImp, Enter
  <2>4. PICK c \in Context : c = NewContext(q, b) /\ c.skip = FALSE /\ c.query = q
    BY <2>2, NewContextFacts
  <2>5. PICK r \in Resp : r = Skeleton(q, "fail", run)
    BY <2>2, SkeletonFacts
  <2>6. PICK d \in Context : d = SetResponse(c, r) /\ d.skip = FALSE
    <3>1. PICK d : d = SetResponse(c, r)
      OBVIOUS
    <3>2. d \in Context /\ d.skip = c.skip
      BY <3>1, SetResponseFacts
    <3>3. QED
      BY <2>4, <3>1, <3>2
  <2>7. ctx' = Finalize(d)
    BY <2>3, <2>4, <2>5, <2>6 DEF Reject
  <2>8. ctx'.skip = FALSE
    BY <2>6, <2>7, FinalizeFacts
  <2>9. \A p \in pending' : Spawned(p)'
    BY <2>3 DEF Aimed, Spawned
  <2>10. QED
    BY <2>3, <2>8, <2>9 DEF Aimed, OnRoute, OnAim
<1>5. CASE UNCHANGED vars
  <2>1. Now' = Now
    BY <1>5 DEF vars, Now, Seats, Seat
  <2>2. Over' <=> Over
    BY <1>5 DEF vars, Over, Spent
  <2>3. (\A p \in pending' : Spawned(p)') /\ OnRoute' /\ OnAim'
    BY <1>5, <2>1, <2>2 DEF vars, Aimed, Spawned, OnRoute, OnAim, HasResp
  <2>4. QED
    BY <2>3 DEF Aimed
<1>6. QED
  BY <1>1, <1>2, <1>3, <1>4, <1>5 DEF Next, Done

(* A background refresh executes the cache step it was spawned for with    *)
(* the key that was found stale, in every configuration that asks its      *)
(* upstreams last: redirects, marks, ECS, calls and jumps on the way       *)
(* notwithstanding (context.rs: clone_for_lazy; cache.rs: exec).           *)
THEOREM RefreshCorrect ==
  ASSUME UpstreamsLast
  PROVE  Spec => []RefreshFindsKey
<1>1. Init => Callers /\ Aimed
  <2>1. SUFFICES ASSUME Init PROVE Callers /\ Aimed
    OBVIOUS
  <2>2. NoQuery \in Query
    BY PipelineAssumption DEF NoQuery, Query
  <2>3. pc = "idle" /\ pending = {} /\ ctx.skip = FALSE
    BY <2>1, <2>2, NewContextFacts DEF Init
  <2>4. QED
    BY <2>3 DEF Callers, Aimed, OnRoute, OnAim
<1>2. Core /\ Nesting /\ Callers /\ Aimed /\ [Next]_vars => Callers' /\ Aimed'
  BY CallersInductive, AimedInductive
<1>3. Aimed => RefreshFindsKey
  BY DEF Aimed, OnAim, RefreshFindsKey
<1>4. QED
  BY <1>1, <1>2, <1>3, CoreAlways, NestingAlways, PTL DEF Spec
=============================================================================
