---------------------------- MODULE CacheProofs ----------------------------
(***************************************************************************)
(* Proofs about the cache, for any number of keys, shards, clients and     *)
(* refreshes, any time constants and any answers.                          *)
(***************************************************************************)
EXTENDS Cache, ShardLemmas

(* Every shard keeps its map and its queue in agreement. *)
ShardsSound ==
  /\ shards = [s \in 1 .. NShards |-> shards[s]]
  /\ \A s \in 1 .. NShards : Sound(shards[s], Key, Entry)

(* The types of the other variables. *)
RestOK ==
  /\ now \in Nat
  /\ inflight \subseteq Key
  /\ task \in [Task -> TaskRec]
  /\ flushed \in Nat
  /\ flushedAt \in [1 .. NShards -> Nat]
  /\ live \in BOOLEAN

(* The inductive invariant.  The soundness of the shards is what types     *)
(* insert: the number of keys its eviction loop pops is only known for a   *)
(* queue that agrees with its map.                                         *)
IInv == ShardsSound /\ RestOK /\ InflightExact

LEMMA SoundType ==
  ASSUME NEW s, Sound(s, Key, Entry)
  PROVE  \E D \in SUBSET Key :
           s \in [map : [D -> Entry], lru : Seq(Key), cap : Nat \ {0}]
<1>1. s \in [map : PartialMap(Key, Entry), lru : Seq(Key), cap : Nat \ {0}]
  BY DEF Sound
<1>2. s.map \in PartialMap(Key, Entry)
  BY <1>1
<1>3. DOMAIN s.map \subseteq Key /\ s.map \in [DOMAIN s.map -> Entry]
  BY <1>2, PartialMapElim
<1>4. s \in [map : [DOMAIN s.map -> Entry], lru : Seq(Key), cap : Nat \ {0}]
  BY <1>1, <1>3
<1>5. QED
  BY <1>3, <1>4

LEMMA IInvType == IInv => TypeOK
<1>1. SUFFICES ASSUME IInv PROVE TypeOK
  OBVIOUS
<1>2. DOMAIN shards = 1 .. NShards
  BY <1>1 DEF IInv, ShardsSound
<1>3. \A s \in 1 .. NShards : \E D \in SUBSET Key :
        shards[s] \in [map : [D -> Entry], lru : Seq(Key), cap : Nat \ {0}]
  BY <1>1, SoundType DEF IInv, ShardsSound
<1>4. QED
  BY <1>1, <1>2, <1>3 DEF IInv, RestOK, TypeOK

(* Replacing one shard by a sound one. *)
LEMMA ShardsUpdate ==
  ASSUME ShardsSound, NEW i \in 1 .. NShards, NEW x, Sound(x, Key, Entry),
         shards' = [shards EXCEPT ![i] = x]
  PROVE  ShardsSound'
<1>1. DOMAIN shards = 1 .. NShards
  BY DEF ShardsSound
<1>2. DOMAIN shards' = 1 .. NShards /\ shards' = [s \in 1 .. NShards |-> shards'[s]]
  BY <1>1
<1>3. ASSUME NEW s \in 1 .. NShards
      PROVE  Sound(shards'[s], Key, Entry)
  <2>1. CASE s = i
    <3>1. shards'[s] = x
      BY <2>1, <1>1
    <3>2. QED
      BY <3>1
  <2>2. CASE s # i
    <3>1. shards'[s] = shards[s]
      BY <2>2, <1>1
    <3>2. QED
      BY <3>1 DEF ShardsSound
  <2>3. QED
    BY <2>1, <2>2
<1>4. QED
  BY <1>2, <1>3 DEF ShardsSound

LEMMA ModRange ==
  ASSUME NEW a \in Nat, NEW b \in Nat \ {0}
  PROVE  a % b \in 0 .. b - 1
  OBVIOUS

LEMMA ProductNat ==
  ASSUME NEW a \in Nat, NEW b \in Nat
  PROVE  a * b \in Nat
  OBVIOUS

LEMMA EntryType ==
  ASSUME RestOK, NEW m \in Msg
  PROVE  EntryOf(m) \in Entry
<1>1. PICK d \in Nat : d = now + m.ttl * Sec
  <2>1. m.ttl \in Nat /\ Sec \in Nat /\ now \in Nat
    BY CacheAssumption DEF RestOK, Msg
  <2>2. m.ttl * Sec \in Nat
    BY <2>1, ProductNat
  <2>3. QED
    BY <2>1, <2>2
<1>2. PICK x \in Nat : x = IF LazyTtl > 0 THEN Max2(d, now + LazyTtl) ELSE d
  BY CacheAssumption DEF RestOK, Max2
<1>3. EntryOf(m) = [msg |-> m, stored |-> now, ttl_deadline |-> d, expire |-> x]
  BY <1>1, <1>2 DEF EntryOf
<1>4. now \in Nat
  BY DEF RestOK
<1>5. QED
  BY <1>3, <1>4 DEF Entry

(* store_lookup keeps the shards sound. *)
LEMMA StoreSound ==
  ASSUME IInv, NEW k \in Key, NEW m \in Msg, NEW keep, NEW served,
         shards' = StoreLookup(k, m, keep, served)
  PROVE  ShardsSound'
<1>1. ShardsSound /\ RestOK
  BY DEF IInv
<1>2. CASE shards' = shards
  BY <1>1, <1>2 DEF ShardsSound
<1>3. CASE shards' = [shards EXCEPT ![ShardOf[k]] = ShardInsert(@, k, EntryOf(m))]
  <2>1. PICK i \in 1 .. NShards : i = ShardOf[k]
    BY CacheAssumption
  <2>2. PICK e \in Entry : e = EntryOf(m)
    BY <1>1, EntryType
  <2>3. Sound(shards[i], Key, Entry)
    BY <1>1 DEF ShardsSound
  <2>4. Sound(ShardInsert(shards[i], k, e), Key, Entry)
    BY <2>3, SoundInsert
  <2>5. shards' = [shards EXCEPT ![i] = ShardInsert(shards[i], k, e)]
    BY <2>1, <2>2, <1>3
  <2>6. QED
    BY <2>4, <2>5, <1>1, ShardsUpdate
<1>4. QED
  BY <1>2, <1>3 DEF StoreLookup

-----------------------------------------------------------------------------

LEMMA NoMsgType == NoMsg \in Msg
  BY DEF NoMsg, Msg

LEMMA DoingType ==
  ASSUME RestOK, NEW pc \in {"idle"} \cup Busy \cup Over, NEW k \in Key, NEW d \in Nat
  PROVE  /\ Doing(pc, k, d) \in TaskRec
         /\ Doing(pc, k, d).pc = pc
         /\ Doing(pc, k, d).key = k
<1>1. now \in Nat /\ now + d \in Nat
  BY DEF RestOK
<1>2. QED
  BY <1>1, NoMsgType DEF Doing, TaskRec

LEMMA ReplyType ==
  ASSUME RestOK, NEW t \in TaskRec, NEW pc \in Over, NEW m \in Msg
  PROVE  Reply(t, pc, m) \in TaskRec
<1>1. t.key \in Key
  BY DEF TaskRec
<1>2. now \in Nat /\ now + 0 \in Nat
  BY DEF RestOK
<1>3. QED
  BY <1>1, <1>2 DEF Reply, Doing, TaskRec

LEMMA IdleType == Idle \in TaskRec /\ Idle.pc = "idle" /\ Idle.pc \notin Busy
<1>1. (CHOOSE k \in Key : TRUE) \in Key
  BY CacheAssumption
<1>2. QED
  BY <1>1, NoMsgType DEF Idle, TaskRec, Busy

(* A step that changes no refresh's key and neither begins nor ends one. *)
LEMMA InflightSame ==
  ASSUME InflightExact, inflight' = inflight,
         \A r \in Refresher :
           /\ task'[r].pc \in Busy <=> task[r].pc \in Busy
           /\ task[r].pc \in Busy => task'[r].key = task[r].key
  PROVE  InflightExact'
<1>1. \A r \in Refresher : Refreshing(r)' <=> Refreshing(r)
  BY DEF Refreshing
<1>2. \A r \in Refresher : Refreshing(r) => task'[r].key = task[r].key
  BY DEF Refreshing
<1>3. {task[r].key : r \in {x \in Refresher : Refreshing(x)}}'
        = {task[r].key : r \in {x \in Refresher : Refreshing(x)}}
  BY <1>1, <1>2
<1>4. QED
  BY <1>1, <1>2, <1>3 DEF InflightExact

(* A step of a client leaves the refreshes alone. *)
LEMMA ClientStep ==
  ASSUME IInv, NEW c \in Client, NEW x \in TaskRec,
         task' = [task EXCEPT ![c] = x], inflight' = inflight
  PROVE  task' \in [Task -> TaskRec] /\ InflightExact'
<1>1. task \in [Task -> TaskRec] /\ c \in Task
  BY DEF IInv, RestOK, Task
<1>2. \A r \in Refresher : task'[r] = task[r]
  BY <1>1, CacheAssumption DEF Task
<1>3. InflightExact'
  BY <1>2, InflightSame DEF IInv
<1>4. QED
  BY <1>1, <1>3

LEMMA BeginIInv ==
  ASSUME IInv, NEW c \in Client, NEW k \in Key, Begin(c, k)
  PROVE  IInv'
<1>1. ShardsSound /\ RestOK
  BY DEF IInv
<1>2. PICK i \in 1 .. NShards : i = ShardOf[k]
  BY CacheAssumption
<1>3. Sound(shards[i], Key, Entry)
  BY <1>1 DEF ShardsSound
<1>4. ShardsSound'
  <2>1. shards' = [shards EXCEPT ![i] = ShardGet(shards[i], k)]
    BY <1>2 DEF Begin
  <2>2. Sound(ShardGet(shards[i], k), Key, Entry)
    BY <1>3, SoundGet
  <2>3. QED
    BY <2>1, <2>2, <1>1, ShardsUpdate
<1>5. CASE Found(k)
  <2>1. k \in DOMAIN shards[i].map
    BY <1>2, <1>5 DEF Found
  <2>2. PICK e \in Entry : e = shards[i].map[k]
    <3>1. shards[i].map \in PartialMap(Key, Entry)
      BY <1>3 DEF Sound
    <3>2. shards[i].map \in [DOMAIN shards[i].map -> Entry]
      BY <3>1, PartialMapElim
    <3>3. QED
      BY <3>2, <2>1
  <2>3. PICK l \in BOOLEAN : l = (now >= e.ttl_deadline /\ LazyTtl > 0)
    OBVIOUS
  <2>4. Copied(k) = [pc |-> "hit", key |-> k, msg |-> e.msg, since |-> e.stored,
                     lazy |-> l, due |-> now + 1]
    BY <2>2, <2>3, <1>2 DEF Copied
  <2>5. e.msg \in Msg /\ e.stored \in Nat /\ now + 1 \in Nat
    BY <1>1 DEF Entry, RestOK
  <2>6. Copied(k) \in TaskRec
    BY <2>4, <2>5 DEF TaskRec, Busy
  <2>7. task' = [task EXCEPT ![c] = Copied(k)] /\ inflight' = inflight
    BY <1>5 DEF Begin
  <2>8. task' \in [Task -> TaskRec] /\ InflightExact'
    BY <2>6, <2>7, ClientStep
  <2>9. QED
    BY <2>8, <1>1, <1>4 DEF Begin, IInv, RestOK
<1>6. CASE ~ Found(k)
  <2>1. Doing("fetch", k, Timeout) \in TaskRec
    BY <1>1, CacheAssumption, DoingType DEF Busy
  <2>2. task' = [task EXCEPT ![c] = Doing("fetch", k, Timeout)] /\ inflight' = inflight
    BY <1>6 DEF Begin
  <2>3. task' \in [Task -> TaskRec] /\ InflightExact'
    BY <2>1, <2>2, ClientStep
  <2>4. QED
    BY <2>3, <1>1, <1>4 DEF Begin, IInv, RestOK
<1>7. QED
  BY <1>5, <1>6

(* The messages a hit turns into. *)
LEMMA HitType ==
  ASSUME RestOK, NEW m \in Msg, NEW t \in Nat
  PROVE  /\ SubtractTtl(m, Elapsed(t)) \in Msg
         /\ SetAllTtl(m, LazyReplyTtl) \in Msg
<1>1. PICK x \in Int : x = Elapsed(t)
  BY CacheAssumption DEF Elapsed, RestOK
<1>2. SatSub(m.ttl, x) \in Nat /\ SatSub(m.extra, x) \in Nat
  BY DEF SatSub, Msg
<1>3. SubtractTtl(m, x) \in Msg
  BY <1>2 DEF SubtractTtl, Msg
<1>4. SetAllTtl(m, LazyReplyTtl) \in Msg
  BY CacheAssumption DEF SetAllTtl, Msg
<1>5. QED
  BY <1>1, <1>3, <1>4

LEMMA ServeFreshIInv ==
  ASSUME IInv, NEW c \in Client, ServeFresh(c)
  PROVE  IInv'
<1>1. PICK t \in TaskRec : t = task[c]
  BY DEF IInv, RestOK, Task
<1>2. t.key \in Key /\ t.msg \in Msg /\ t.since \in Nat
  BY DEF TaskRec
<1>3. PICK m \in Msg : m = SubtractTtl(t.msg, Elapsed(t.since))
  BY <1>2, HitType DEF IInv
<1>4. shards' = StoreLookup(t.key, m, TRUE, TRUE)
  BY <1>1, <1>3 DEF ServeFresh
<1>5. ShardsSound'
  BY <1>2, <1>4, StoreSound
<1>6. Reply(t, "fresh", m) \in TaskRec
  BY ReplyType DEF IInv, Over
<1>7. task' = [task EXCEPT ![c] = Reply(t, "fresh", m)] /\ inflight' = inflight
  BY <1>1, <1>3 DEF ServeFresh
<1>8. task' \in [Task -> TaskRec] /\ InflightExact'
  BY <1>6, <1>7, ClientStep
<1>9. QED
  BY <1>5, <1>8 DEF ServeFresh, IInv, RestOK

(* A lazy hit that starts a refresh adds its key, which no refresh had. *)
LEMMA KickExact ==
  ASSUME IInv, NEW c \in Client, NEW r \in Refresher, NEW k \in Key,
         task[r].pc = "idle", Kicks(k), inflight' = inflight \cup {k},
         NEW x \in TaskRec,
         task' = [task EXCEPT ![c] = x, ![r] = Doing("spawned", k, 1)]
  PROVE  RestOK => task' \in [Task -> TaskRec] /\ InflightExact'
<1>1. RestOK /\ task \in [Task -> TaskRec] /\ c \in Task /\ r \in Task /\ c # r
  BY CacheAssumption DEF IInv, RestOK, Task
<1>2. PICK y \in TaskRec : y = Doing("spawned", k, 1) /\ y.pc = "spawned" /\ y.key = k
  BY <1>1, DoingType DEF Busy
<1>3. task' \in [Task -> TaskRec]
  BY <1>1, <1>2
<1>4. \A s \in Refresher : s # c /\ s \in Task
  BY CacheAssumption DEF Task
<1>5. task'[r] = y /\ \A s \in Refresher \ {r} : task'[s] = task[s]
  BY <1>1, <1>2, <1>4
<1>6. y.pc \in Busy /\ ~ (task[r].pc \in Busy)
  BY <1>2 DEF Busy
<1>7. /\ \A s \in Refresher : task[s].pc \in Busy => task[s].key # k
      /\ inflight = {task[s].key : s \in {z \in Refresher : task[z].pc \in Busy}}
      /\ \A s, u \in Refresher :
           task[s].pc \in Busy /\ task[u].pc \in Busy /\ task[s].key = task[u].key => s = u
  BY DEF IInv, InflightExact, Refreshing, Kicks
<1>8. inflight' = {task'[s].key : s \in {z \in Refresher : task'[z].pc \in Busy}}
  <2>1. ASSUME NEW q \in inflight'
        PROVE  q \in {task'[s].key : s \in {z \in Refresher : task'[z].pc \in Busy}}
    <3>1. CASE q = k
      BY <3>1, <1>2, <1>5, <1>6
    <3>2. CASE q \in inflight
      <4>1. PICK s \in Refresher : task[s].pc \in Busy /\ q = task[s].key
        BY <3>2, <1>7
      <4>2. s # r /\ task'[s] = task[s]
        BY <4>1, <1>5, <1>6
      <4>3. QED
        BY <4>1, <4>2
    <3>3. QED
      BY <2>1, <3>1, <3>2
  <2>2. ASSUME NEW s \in Refresher, task'[s].pc \in Busy
        PROVE  task'[s].key \in inflight'
    <3>1. CASE s = r
      BY <3>1, <1>2, <1>5
    <3>2. CASE s # r
      <4>1. task'[s] = task[s]
        BY <3>2, <1>5
      <4>2. task[s].pc \in Busy
        BY <4>1, <2>2
      <4>3. task[s].key \in inflight
        BY <4>2, <1>7
      <4>4. QED
        BY <4>1, <4>3
    <3>3. QED
      BY <3>1, <3>2
  <2>3. QED
    BY <2>1, <2>2
<1>9. \A s, u \in Refresher :
        task'[s].pc \in Busy /\ task'[u].pc \in Busy /\ task'[s].key = task'[u].key => s = u
  BY <1>2, <1>5, <1>6, <1>7
<1>10. InflightExact'
  BY <1>8, <1>9 DEF InflightExact, Refreshing
<1>11. QED
  BY <1>3, <1>10

LEMMA ServeLazyIInv ==
  ASSUME IInv, NEW c \in Client, ServeLazy(c)
  PROVE  IInv'
<1>1. PICK t \in TaskRec : t = task[c]
  BY DEF IInv, RestOK, Task
<1>2. t.key \in Key /\ t.msg \in Msg
  BY DEF TaskRec
<1>3. PICK m \in Msg : m = SetAllTtl(t.msg, LazyReplyTtl)
  BY <1>2, HitType DEF IInv
<1>4. shards' = StoreLookup(t.key, m, TRUE, TRUE)
  BY <1>1, <1>3 DEF ServeLazy
<1>5. ShardsSound'
  BY <1>2, <1>4, StoreSound
<1>6. PICK x \in TaskRec : x = Reply(t, "lazy", m)
  BY ReplyType DEF IInv, Over
<1>7. RestOK
  BY DEF IInv
<1>8. ASSUME NEW r \in Refresher, Kicks(t.key), task[r].pc = "idle",
             inflight' = inflight \cup {t.key},
             task' = [task EXCEPT ![c] = x, ![r] = Doing("spawned", t.key, 1)]
      PROVE  IInv'
  <2>1. task' \in [Task -> TaskRec] /\ InflightExact'
    BY <1>2, <1>7, <1>8, KickExact
  <2>2. QED
    BY <2>1, <1>2, <1>5, <1>7, <1>8 DEF ServeLazy, IInv, RestOK
<1>9. CASE task' = [task EXCEPT ![c] = x] /\ inflight' = inflight
  <2>1. task' \in [Task -> TaskRec] /\ InflightExact'
    BY <1>9, ClientStep
  <2>2. QED
    BY <2>1, <1>5, <1>7, <1>9 DEF ServeLazy, IInv, RestOK
<1>10. QED
  BY <1>1, <1>3, <1>6, <1>8, <1>9 DEF ServeLazy

-----------------------------------------------------------------------------

(* A refresh moves on within its life, with the key it has. *)
LEMMA RefreshStep ==
  ASSUME IInv, NEW r \in Refresher, NEW x \in TaskRec,
         task[r].pc \in Busy, x.pc \in Busy, x.key = task[r].key,
         task' = [task EXCEPT ![r] = x], inflight' = inflight
  PROVE  task' \in [Task -> TaskRec] /\ InflightExact'
<1>1. task \in [Task -> TaskRec] /\ r \in Task
  BY DEF IInv, RestOK, Task
<1>2. task'[r] = x /\ \A s \in Refresher : s # r => task'[s] = task[s]
  BY <1>1 DEF Task
<1>3. InflightExact'
  BY <1>2, InflightSame DEF IInv
<1>4. QED
  BY <1>1, <1>3

(* The end of a pipeline, with an answer, an error or a timeout. *)
LEMMA AfterStep ==
  ASSUME IInv, NEW t \in Task, task[t].pc = "fetch", NEW how \in Over,
         NEW m \in Msg, task' = [task EXCEPT ![t] = After(t, how, m)],
         inflight' = inflight
  PROVE  task' \in [Task -> TaskRec] /\ InflightExact'
<1>1. task[t] \in TaskRec /\ task[t].key \in Key /\ RestOK
  BY DEF IInv, RestOK, TaskRec
<1>2. CASE t \in Client
  <2>1. PICK x \in TaskRec : x = Reply(task[t], how, m)
    BY <1>1, ReplyType
  <2>2. task' = [task EXCEPT ![t] = x]
    BY <2>1, <1>2 DEF After
  <2>3. QED
    BY <2>2, <1>2, ClientStep
<1>3. CASE t \notin Client
  <2>1. t \in Refresher
    BY <1>3 DEF Task
  <2>2. PICK x \in TaskRec : /\ x = Doing("ending", task[t].key, 0)
                            /\ x.pc = "ending" /\ x.key = task[t].key
    BY <1>1, DoingType DEF Busy
  <2>3. task' = [task EXCEPT ![t] = x]
    BY <2>2, <1>3 DEF After
  <2>4. task[t].pc \in Busy /\ x.pc \in Busy
    BY <2>2 DEF Busy
  <2>5. QED
    BY <2>1, <2>2, <2>3, <2>4, RefreshStep
<1>4. QED
  BY <1>2, <1>3

LEMMA AnswerIInv ==
  ASSUME IInv, NEW t \in Task, NEW a \in Answers, Answer(t, a)
  PROVE  IInv'
<1>1. PICK m \in Msg : m = [born |-> task[t].since, orig |-> a.ttl, ttl |-> a.ttl,
                           extra |-> a.extra]
  <2>1. task[t].since \in Nat
    BY DEF IInv, RestOK, TaskRec
  <2>2. a.ttl \in Nat /\ a.extra \in Nat
    BY CacheAssumption
  <2>3. QED
    BY <2>1, <2>2 DEF Msg
<1>2. task[t].key \in Key
  BY DEF IInv, RestOK, TaskRec
<1>3. shards' = StoreLookup(task[t].key, m, a.keep, FALSE)
  BY <1>1 DEF Answer
<1>4. ShardsSound'
  BY <1>2, <1>3, StoreSound
<1>5. /\ task[t].pc = "fetch"
      /\ task' = [task EXCEPT ![t] = After(t, "upstream", m)]
      /\ inflight' = inflight
  BY <1>1 DEF Answer
<1>6. "upstream" \in Over
  BY DEF Over
<1>7. task' \in [Task -> TaskRec] /\ InflightExact'
  BY <1>5, <1>6, AfterStep
<1>8. QED
  BY <1>4, <1>7 DEF Answer, IInv, RestOK

LEMMA GiveUpIInv ==
  ASSUME IInv, NEW t \in Task, Fail(t) \/ Expire(t)
  PROVE  IInv'
<1>1. PICK how \in Over : task' = [task EXCEPT ![t] = After(t, how, NoMsg)]
  BY DEF Fail, Expire, Over
<1>2. task[t].pc = "fetch" /\ inflight' = inflight
  BY DEF Fail, Expire
<1>3. task' \in [Task -> TaskRec] /\ InflightExact'
  BY <1>1, <1>2, NoMsgType, AfterStep
<1>4. UNCHANGED << now, shards, inflight, flushed, flushedAt, live >>
  BY DEF Fail, Expire
<1>5. ShardsSound'
  BY <1>4 DEF IInv, ShardsSound
<1>6. QED
  BY <1>3, <1>4, <1>5 DEF IInv, RestOK

LEMMA StartIInv ==
  ASSUME IInv, NEW r \in Refresher, Start(r)
  PROVE  IInv'
<1>1. task[r].key \in Key /\ RestOK
  BY DEF IInv, RestOK, TaskRec, Task
<1>2. PICK x \in TaskRec : /\ task' = [task EXCEPT ![r] = x]
                          /\ x.pc \in {"fetch", "ending"} /\ x.key = task[r].key
  <2>1. CASE Held
    <3>1. task' = [task EXCEPT ![r] = Doing("fetch", task[r].key, RefreshTimeout)]
      BY <2>1 DEF Start
    <3>2. PICK x \in TaskRec : /\ x = Doing("fetch", task[r].key, RefreshTimeout)
                              /\ x.pc = "fetch" /\ x.key = task[r].key
      BY <1>1, CacheAssumption, DoingType DEF Busy
    <3>3. QED
      BY <3>1, <3>2
  <2>2. CASE ~ Held
    <3>1. task' = [task EXCEPT ![r] = Doing("ending", task[r].key, 0)]
      BY <2>2 DEF Start
    <3>2. PICK x \in TaskRec : /\ x = Doing("ending", task[r].key, 0)
                              /\ x.pc = "ending" /\ x.key = task[r].key
      BY <1>1, DoingType DEF Busy
    <3>3. QED
      BY <3>1, <3>2
  <2>3. QED
    BY <2>1, <2>2
<1>3. task[r].pc \in Busy /\ x.pc \in Busy /\ inflight' = inflight
  BY <1>2 DEF Start, Busy
<1>4. task' \in [Task -> TaskRec] /\ InflightExact'
  BY <1>2, <1>3, RefreshStep
<1>5. ShardsSound'
  BY DEF Start, IInv, ShardsSound
<1>6. QED
  BY <1>4, <1>5 DEF Start, IInv, RestOK

(* Dropping a guard takes out its own key and no other refresh's. *)
LEMMA EndIInv ==
  ASSUME IInv, NEW r \in Refresher, End(r)
  PROVE  IInv'
<1>1. task \in [Task -> TaskRec] /\ r \in Task
  BY DEF IInv, RestOK, Task
<1>2. task' = [task EXCEPT ![r] = Idle] /\ inflight' = inflight \ {task[r].key}
  BY DEF End
<1>3. task' \in [Task -> TaskRec]
  BY <1>1, <1>2, IdleType
<1>4. /\ ~ (task'[r].pc \in Busy)
      /\ \A s \in Refresher : s # r => task'[s] = task[s]
  BY <1>1, <1>2, IdleType DEF Task
<1>5. task[r].pc \in Busy
  BY DEF End, Busy
<1>6. /\ inflight = {task[s].key : s \in {z \in Refresher : task[z].pc \in Busy}}
      /\ \A s, u \in Refresher :
           task[s].pc \in Busy /\ task[u].pc \in Busy /\ task[s].key = task[u].key => s = u
  BY DEF IInv, InflightExact, Refreshing
<1>7. inflight' = {task'[s].key : s \in {z \in Refresher : task'[z].pc \in Busy}}
  <2>1. ASSUME NEW k \in inflight'
        PROVE  k \in {task'[s].key : s \in {z \in Refresher : task'[z].pc \in Busy}}
    <3>1. k \in inflight /\ k # task[r].key
      BY <2>1, <1>2
    <3>2. PICK s \in Refresher : task[s].pc \in Busy /\ k = task[s].key
      BY <3>1, <1>6
    <3>3. s # r
      BY <3>1, <3>2
    <3>4. task'[s] = task[s]
      BY <3>3, <1>4
    <3>5. QED
      BY <3>2, <3>4
  <2>2. ASSUME NEW s \in Refresher, task'[s].pc \in Busy
        PROVE  task'[s].key \in inflight'
    <3>1. s # r /\ task'[s] = task[s]
      BY <2>2, <1>4
    <3>2. task[s].key \in inflight /\ task[s].key # task[r].key
      BY <3>1, <2>2, <1>5, <1>6
    <3>3. QED
      BY <3>1, <3>2, <1>2
  <2>3. QED
    BY <2>1, <2>2
<1>8. \A s, u \in Refresher :
        task'[s].pc \in Busy /\ task'[u].pc \in Busy /\ task'[s].key = task'[u].key => s = u
  BY <1>4, <1>6
<1>9. InflightExact'
  BY <1>7, <1>8 DEF InflightExact, Refreshing
<1>10. ShardsSound'
  BY DEF End, IInv, ShardsSound
<1>11. QED
  BY <1>2, <1>3, <1>9, <1>10 DEF End, IInv, RestOK

LEMMA FlushIInv ==
  ASSUME IInv, FlushShard
  PROVE  IInv'
<1>1. PICK i \in 1 .. NShards : i = (flushed % NShards) + 1
  <2>1. flushed \in Nat /\ NShards \in Nat \ {0}
    BY CacheAssumption DEF IInv, RestOK
  <2>2. flushed % NShards \in 0 .. NShards - 1
    BY <2>1, ModRange
  <2>3. QED
    BY <2>1, <2>2
<1>2. shards' = [shards EXCEPT ![i] = ShardFlush(shards[i])]
  BY <1>1 DEF FlushShard
<1>3. Sound(ShardFlush(shards[i]), Key, Entry)
  BY SoundFlush DEF IInv, ShardsSound
<1>4. ShardsSound'
  BY <1>2, <1>3, ShardsUpdate DEF IInv
<1>5. InflightExact'
  BY DEF FlushShard, IInv, InflightExact, Refreshing
<1>6. flushed' \in Nat /\ flushedAt' \in [1 .. NShards -> Nat]
  BY <1>1 DEF FlushShard, IInv, RestOK
<1>7. QED
  BY <1>4, <1>5, <1>6 DEF FlushShard, IInv, RestOK

LEMMA QuietIInv ==
  ASSUME IInv, UNCHANGED << shards, inflight, task, flushed, flushedAt >>,
         now' \in Nat, live' \in BOOLEAN
  PROVE  IInv'
<1>1. ShardsSound'
  BY DEF IInv, ShardsSound
<1>2. InflightExact'
  BY DEF IInv, InflightExact, Refreshing
<1>3. QED
  BY <1>1, <1>2 DEF IInv, RestOK

LEMMA InitIInv == Init => IInv
<1>1. SUFFICES ASSUME Init PROVE IInv
  OBVIOUS
<1>2. Sound(ShardNew(Cap), Key, Entry)
  BY CacheAssumption, SoundNew
<1>3. ShardsSound
  BY <1>1, <1>2 DEF Init, ShardsSound
<1>4. RestOK
  BY <1>1, IdleType DEF Init, RestOK
<1>5. \A r \in Refresher : ~ Refreshing(r)
  BY <1>1, IdleType DEF Init, Refreshing, Task
<1>6. InflightExact
  BY <1>1, <1>5 DEF Init, InflightExact
<1>7. QED
  BY <1>3, <1>4, <1>6 DEF IInv

LEMMA NextIInv == IInv /\ [Next]_vars => IInv'
<1>1. SUFFICES ASSUME IInv, [Next]_vars PROVE IInv'
  OBVIOUS
<1>2. ASSUME NEW c \in Client, NEW k \in Key, Begin(c, k) PROVE IInv'
  BY <1>1, <1>2, BeginIInv
<1>3. ASSUME NEW c \in Client, ServeFresh(c) PROVE IInv'
  BY <1>1, <1>3, ServeFreshIInv
<1>4. ASSUME NEW c \in Client, ServeLazy(c) PROVE IInv'
  BY <1>1, <1>4, ServeLazyIInv
<1>5. ASSUME NEW t \in Task, NEW a \in Answers, Answer(t, a) PROVE IInv'
  BY <1>1, <1>5, AnswerIInv
<1>6. ASSUME NEW t \in Task, Fail(t) \/ Expire(t) PROVE IInv'
  BY <1>1, <1>6, GiveUpIInv
<1>7. ASSUME NEW r \in Refresher, Start(r) PROVE IInv'
  BY <1>1, <1>7, StartIInv
<1>8. ASSUME NEW r \in Refresher, End(r) PROVE IInv'
  BY <1>1, <1>8, EndIInv
<1>9. CASE FlushShard
  BY <1>1, <1>9, FlushIInv
<1>10. CASE Retire
  BY <1>1, <1>10, QuietIInv DEF Retire, IInv, RestOK
<1>11. CASE Tick
  BY <1>1, <1>11, QuietIInv DEF Tick, IInv, RestOK
<1>12. CASE AtHorizon \/ UNCHANGED vars
  BY <1>1, <1>12, QuietIInv DEF AtHorizon, vars, IInv, RestOK
<1>13. QED
  BY <1>1, <1>2, <1>3, <1>4, <1>5, <1>6, <1>7, <1>8, <1>9, <1>10, <1>11, <1>12
  DEF Next

LEMMA Invariance == Spec => []IInv
  BY InitIInv, NextIInv, PTL DEF Spec

(* All state of the cache keeps its type: in particular no TTL a hit       *)
(* computes is negative, and the shards stay shards (cache.rs: struct      *)
(* Cache; dnsutil.rs: subtract_ttl).                                       *)
THEOREM TypeCorrect == Spec => []TypeOK
  BY Invariance, IInvType, PTL

(* At most one refresh per key, and inflight names exactly those under way *)
(* (cache.rs: kick_refresh, RefreshGuard), for any number of clients.      *)
THEOREM InflightCorrect == Spec => []InflightExact
<1>1. IInv => InflightExact
  BY DEF IInv
<1>2. QED
  BY Invariance, <1>1, PTL

-----------------------------------------------------------------------------
(* Time.  An answer carries the time it was asked for, its entry the time  *)
(* it was stored, a task the time at which it must have moved on.  The     *)
(* invariant below says how these dates are related; that an entry, once   *)
(* stored, is never renewed is what makes it inductive.                    *)

(* Entry e of a cache at time n. *)
EntryDated(e, n) ==
  /\ e.stored <= n
  /\ e.stored <= e.msg.born + MaxTimeout
  /\ e.msg.ttl = e.msg.orig
  /\ e.ttl_deadline = e.stored + e.msg.orig * Sec
  /\ e.expire = IF LazyTtl > 0 THEN Max2(e.ttl_deadline, e.stored + LazyTtl)
                               ELSE e.ttl_deadline

(* A hit at time n, which goes on with what an entry held. *)
HitDated(t, n) ==
  /\ t.since <= n /\ n <= t.due
  /\ t.since <= t.msg.born + MaxTimeout
  /\ t.msg.ttl = t.msg.orig
  /\ ~ t.lazy => t.due <= t.since + t.msg.orig * Sec
  /\ t.lazy => t.due <= Max2(t.since + t.msg.orig * Sec, t.since + LazyTtl)

(* A task at time n that waits for the upstream. *)
FetchDated(t, n) == t.since <= n /\ n <= t.due /\ t.due <= t.since + MaxTimeout

(* What BoundedStaleness says of one reply. *)
ReplyDated(t) ==
  LET limit == t.msg.born + MaxTimeout + t.msg.orig * Sec
  IN  /\ t.pc \in {"fresh", "upstream"} =>
           /\ t.since <= limit
           /\ t.msg.ttl > 0 => t.since + t.msg.ttl * Sec < limit + Sec
      /\ t.pc = "lazy" =>
           t.since <= Max2(limit, t.msg.born + MaxTimeout + LazyTtl)

TaskDated(t, n) ==
  /\ t.pc = "hit" => HitDated(t, n)
  /\ t.pc = "fetch" => FetchDated(t, n)
  /\ ReplyDated(t)

(* A shard, last flushed at f, at time n. *)
ShardDated(s, f, n) ==
  /\ f <= n
  /\ \A k \in DOMAIN s.map : EntryDated(s.map[k], n) /\ f <= s.map[k].stored

Dated ==
  /\ \A s \in 1 .. NShards : ShardDated(shards[s], flushedAt[s], now)
  /\ \A t \in Task : TaskDated(task[t], now)

LEMMA Timeouts ==
  MaxTimeout \in Nat /\ Timeout <= MaxTimeout /\ RefreshTimeout <= MaxTimeout
  BY CacheAssumption DEF MaxTimeout, Max2

LEMMA RestingDated ==
  ASSUME NEW t, NEW n, t.pc \in {"idle", "spawned", "ending", "servfail", "dropped"}
  PROVE  TaskDated(t, n)
  BY DEF TaskDated, ReplyDated

(* One task goes on to x, at the same time. *)
LEMMA TaskStepDated ==
  ASSUME IInv, Dated, NEW t \in Task, NEW x, TaskDated(x, now),
         task' = [task EXCEPT ![t] = x], now' = now
  PROVE  \A u \in Task : TaskDated(task'[u], now')
<1>1. task \in [Task -> TaskRec]
  BY DEF IInv, RestOK
<1>2. TAKE u \in Task
<1>3. task'[u] = x \/ task'[u] = task[u]
  BY <1>1
<1>4. TaskDated(task[u], now)
  BY DEF Dated
<1>5. QED
  BY <1>3, <1>4

LEMMA EntryOfDated ==
  ASSUME RestOK, NEW m \in Msg, m.ttl = m.orig, now <= m.born + MaxTimeout
  PROVE  EntryDated(EntryOf(m), now) /\ EntryOf(m).stored = now
<1>1. PICK p \in Nat : p = m.orig * Sec /\ p = m.ttl * Sec
  BY CacheAssumption, ProductNat DEF Msg
<1>2. PICK x : x = IF LazyTtl > 0 THEN Max2(now + p, now + LazyTtl) ELSE now + p
  OBVIOUS
<1>3. EntryOf(m) = [msg |-> m, stored |-> now, ttl_deadline |-> now + p, expire |-> x]
  BY <1>1, <1>2 DEF EntryOf
<1>4. now \in Nat
  BY DEF RestOK
<1>5. QED
  BY <1>1, <1>2, <1>3, <1>4 DEF EntryDated

(* What store_lookup leaves in the shards is dated.  *)
LEMMA StoreDated ==
  ASSUME IInv, Dated, NEW k \in Key, NEW m \in Msg, NEW keep, NEW served,
         served \/ (m.ttl = m.orig /\ now <= m.born + MaxTimeout),
         shards' = StoreLookup(k, m, keep, served), UNCHANGED << now, flushedAt >>
  PROVE  \A s \in 1 .. NShards : ShardDated(shards'[s], flushedAt'[s], now')
<1>1. ShardsSound /\ RestOK /\ DOMAIN shards = 1 .. NShards
  BY DEF IInv, ShardsSound
<1>2. \A s \in 1 .. NShards : ShardDated(shards[s], flushedAt[s], now)
  BY DEF Dated
<1>3. CASE shards' = shards
  BY <1>2, <1>3
<1>4. CASE ~ served /\ shards' = [shards EXCEPT ![ShardOf[k]] = ShardInsert(@, k, EntryOf(m))]
  <2>1. PICK i \in 1 .. NShards : i = ShardOf[k]
    BY CacheAssumption
  <2>2. PICK e \in Entry : e = EntryOf(m)
    BY <1>1, EntryType
  <2>3. EntryDated(e, now) /\ e.stored = now
    BY <1>1, <1>4, <2>2, EntryOfDated
  <2>4. Sound(shards[i], Key, Entry)
    BY <1>1 DEF ShardsSound
  <2>5. shards' = [shards EXCEPT ![i] = ShardInsert(shards[i], k, e)]
    BY <2>1, <2>2, <1>4
  <2>6. ShardDated(ShardInsert(shards[i], k, e), flushedAt[i], now)
    <3>1. ShardDated(shards[i], flushedAt[i], now)
      BY <1>2
    <3>2. ASSUME NEW x \in DOMAIN ShardInsert(shards[i], k, e).map
          PROVE  /\ EntryDated(ShardInsert(shards[i], k, e).map[x], now)
                 /\ flushedAt[i] <= ShardInsert(shards[i], k, e).map[x].stored
      <4>1. CASE ShardInsert(shards[i], k, e).map[x] = e
        BY <4>1, <2>3, <3>1 DEF ShardDated
      <4>2. CASE /\ x \in DOMAIN shards[i].map
                 /\ ShardInsert(shards[i], k, e).map[x] = shards[i].map[x]
        BY <4>2, <3>1 DEF ShardDated
      <4>3. QED
        BY <4>1, <4>2, <2>4, InsertKeeps
    <3>3. QED
      BY <3>1, <3>2 DEF ShardDated
  <2>7. QED
    BY <1>1, <1>2, <2>5, <2>6
<1>5. QED
  BY <1>3, <1>4 DEF StoreLookup

-----------------------------------------------------------------------------

(* A query is dated by its lookup: what it copies is not past its time. *)
LEMMA BeginDated ==
  ASSUME IInv, Dated, NEW c \in Client, NEW k \in Key, Begin(c, k)
  PROVE  Dated'
<1>1. /\ ShardsSound /\ RestOK /\ DOMAIN shards = 1 .. NShards /\ now \in Nat /\ c \in Task
      /\ UNCHANGED << now, flushedAt >>
  BY DEF IInv, ShardsSound, RestOK, Task, Begin
<1>2. PICK i \in 1 .. NShards : i = ShardOf[k]
  BY CacheAssumption
<1>3. Sound(shards[i], Key, Entry) /\ ShardDated(shards[i], flushedAt[i], now)
  BY <1>1 DEF ShardsSound, Dated
<1>4. \A s \in 1 .. NShards : ShardDated(shards'[s], flushedAt'[s], now')
  <2>1. shards' = [shards EXCEPT ![i] = ShardGet(shards[i], k)]
    BY <1>2 DEF Begin
  <2>2. ShardGet(shards[i], k).map = shards[i].map
    BY <1>3, GetResult
  <2>3. ShardDated(ShardGet(shards[i], k), flushedAt[i], now)
    BY <2>2, <1>3 DEF ShardDated
  <2>4. QED
    BY <2>1, <2>3, <1>1 DEF Dated
<1>5. CASE Found(k)
  <2>1. k \in DOMAIN shards[i].map /\ now < shards[i].map[k].expire
    BY <1>2, <1>5 DEF Found
  <2>2. PICK e \in Entry : e = shards[i].map[k]
    <3>1. shards[i].map \in PartialMap(Key, Entry)
      BY <1>3 DEF Sound
    <3>2. shards[i].map \in [DOMAIN shards[i].map -> Entry]
      BY <3>1, PartialMapElim
    <3>3. QED
      BY <3>2, <2>1
  <2>3. EntryDated(e, now) /\ now < e.expire
    BY <2>1, <2>2, <1>3 DEF ShardDated
  <2>4. PICK l \in BOOLEAN : l = (now >= e.ttl_deadline /\ LazyTtl > 0)
    OBVIOUS
  <2>5. PICK x : x = [pc |-> "hit", key |-> k, msg |-> e.msg, since |-> e.stored,
                      lazy |-> l, due |-> now + 1]
    OBVIOUS
  <2>6. task' = [task EXCEPT ![c] = x]
    BY <2>2, <2>4, <2>5, <1>2, <1>5 DEF Begin, Copied
  <2>7. HitDated(x, now)
    <3>1. /\ e.msg.orig \in Nat /\ e.msg.born \in Nat /\ e.stored \in Nat
          /\ e.ttl_deadline \in Nat /\ e.expire \in Nat
      BY DEF Entry, Msg
    <3>2. PICK p \in Nat : p = e.msg.orig * Sec
      BY <3>1, CacheAssumption, ProductNat
    <3>3. /\ e.stored <= now /\ e.stored <= e.msg.born + MaxTimeout
          /\ e.msg.ttl = e.msg.orig /\ e.ttl_deadline = e.stored + p
          /\ e.expire = IF LazyTtl > 0 THEN Max2(e.ttl_deadline, e.stored + LazyTtl)
                                       ELSE e.ttl_deadline
      BY <2>3, <3>2 DEF EntryDated
    <3>4. ~ l => now + 1 <= e.stored + p
      <4>1. CASE LazyTtl > 0
        <5>1. ~ l => ~ (now >= e.ttl_deadline)
          BY <4>1, <2>4
        <5>2. QED
          BY <5>1, <3>1, <3>2, <3>3, <1>1
      <4>2. CASE ~ (LazyTtl > 0)
        <5>1. now < e.ttl_deadline
          BY <4>2, <2>3, <3>3
        <5>2. QED
          BY <5>1, <3>1, <3>2, <3>3, <1>1
      <4>3. QED
        BY <4>1, <4>2
    <3>5. l => now + 1 <= Max2(e.stored + p, e.stored + LazyTtl)
      <4>1. SUFFICES ASSUME l PROVE now + 1 <= Max2(e.stored + p, e.stored + LazyTtl)
        OBVIOUS
      <4>2. LazyTtl > 0
        BY <2>4, <4>1
      <4>3. e.expire = Max2(e.stored + p, e.stored + LazyTtl)
        BY <3>3, <4>2
      <4>4. QED
        BY <2>3, <3>1, <4>3, <1>1
    <3>6. /\ x.since = e.stored /\ x.due = now + 1 /\ x.msg = e.msg /\ x.lazy = l
      BY <2>5
    <3>7. x.due <= x.since + p \/ x.lazy
      BY <3>4, <3>6
    <3>8. ~ x.lazy \/ x.due <= Max2(x.since + p, x.since + LazyTtl)
      BY <3>5, <3>6
    <3>9. now <= now + 1
      BY <1>1
    <3>10. QED
      BY <3>2, <3>3, <3>6, <3>7, <3>8, <3>9 DEF HitDated
  <2>8. TaskDated(x, now)
    BY <2>5, <2>7 DEF TaskDated, ReplyDated
  <2>9. QED
    BY <2>6, <2>8, <1>1, <1>4, TaskStepDated DEF Dated
<1>6. CASE ~ Found(k)
  <2>1. PICK x : x = Doing("fetch", k, Timeout)
    OBVIOUS
  <2>2. x.pc = "fetch" /\ x.since = now /\ x.due = now + Timeout
    BY <2>1 DEF Doing
  <2>3. FetchDated(x, now)
    BY <2>2, <1>1, Timeouts, CacheAssumption DEF FetchDated
  <2>4. TaskDated(x, now)
    BY <2>2, <2>3 DEF TaskDated, ReplyDated
  <2>5. task' = [task EXCEPT ![c] = x]
    BY <2>1, <1>6 DEF Begin
  <2>6. QED
    BY <2>4, <2>5, <1>1, <1>4, TaskStepDated DEF Dated
<1>7. QED
  BY <1>5, <1>6

(* Whole seconds elapsed since `since`, taken off a TTL of ttl seconds,    *)
(* leave a promise that ends less than a second after the TTL's own end.   *)
LEMMA RoundedDown ==
  ASSUME NEW n \in Nat, NEW since \in Nat, since <= n, NEW ttl \in Nat, NEW sec \in Nat \ {0},
         NEW r \in Nat, r = SatSub(ttl, (n - since) \div sec), r > 0
  PROVE  n + r * sec < since + ttl * sec + sec
<1>1. PICK d \in Nat : d = n - since
  OBVIOUS
<1>2. PICK e \in Nat : e = d \div sec /\ d < e * sec + sec
  <2>1. PICK e \in Int : e = d \div sec
    OBVIOUS
  <2>2. PICK q \in Int : q = d % sec /\ 0 <= q /\ q < sec
    OBVIOUS
  <2>3. d = sec * e + q
    BY <2>1, <2>2
  <2>4. e \in Nat
    BY <2>1
  <2>5. QED
    BY <2>1, <2>2, <2>3, <2>4
<1>3. r = ttl - e
  BY <1>1, <1>2 DEF SatSub
<1>4. r * sec = ttl * sec - e * sec
  BY <1>3
<1>5. PICK a \in Int, b \in Int, c \in Int : a = r * sec /\ b = ttl * sec /\ c = e * sec
  OBVIOUS
<1>6. n + a < since + b + sec
  BY <1>1, <1>2, <1>4, <1>5
<1>7. QED
  BY <1>5, <1>6

LEMMA ServeFreshDated ==
  ASSUME IInv, Dated, NEW c \in Client, ServeFresh(c)
  PROVE  Dated'
<1>1. /\ IInv /\ RestOK /\ now \in Nat /\ c \in Task /\ UNCHANGED << now, flushedAt >>
      /\ MaxTimeout \in Nat /\ Sec \in Nat \ {0}
  BY Timeouts, CacheAssumption DEF IInv, RestOK, Task, ServeFresh
<1>2. PICK t \in TaskRec : t = task[c]
  BY <1>1 DEF RestOK
<1>3. t.pc = "hit" /\ ~ t.lazy /\ HitDated(t, now)
  BY <1>1, <1>2 DEF ServeFresh, Dated, TaskDated
<1>4. /\ t.key \in Key /\ t.msg \in Msg /\ t.since \in Nat /\ t.due \in Nat
      /\ t.msg.born \in Nat /\ t.msg.orig \in Nat /\ t.msg.ttl \in Nat
  BY DEF TaskRec, Msg
<1>5. PICK m \in Msg : m = SubtractTtl(t.msg, Elapsed(t.since))
  BY <1>1, <1>4, HitType
<1>6. PICK x : x = Reply(t, "fresh", m)
  OBVIOUS
<1>7. task' = [task EXCEPT ![c] = x] /\ shards' = StoreLookup(t.key, m, TRUE, TRUE)
  BY <1>2, <1>5, <1>6 DEF ServeFresh
<1>8. x.pc = "fresh" /\ x.since = now /\ x.msg = m
  BY <1>6 DEF Reply, Doing
<1>9. PICK r \in Nat : r = m.ttl /\ r = SatSub(t.msg.orig, (now - t.since) \div Sec)
  BY <1>3, <1>4, <1>5 DEF SubtractTtl, Msg, Elapsed, HitDated
<1>10. m.born = t.msg.born /\ m.orig = t.msg.orig
  BY <1>4, <1>5 DEF SubtractTtl, Msg
<1>11. PICK p \in Nat : p = t.msg.orig * Sec
  BY <1>1, <1>4, ProductNat
<1>12. PICK limit \in Nat : limit = t.msg.born + MaxTimeout + p
  BY <1>1, <1>4
<1>13. t.since <= now /\ now <= t.since + p /\ t.since + p <= limit
  <2>1. t.since <= now /\ now <= t.due /\ t.since <= t.msg.born + MaxTimeout /\ t.due <= t.since + p
    BY <1>3, <1>11 DEF HitDated
  <2>2. QED
    BY <2>1, <1>1, <1>4, <1>12
<1>14. now <= limit
  BY <1>1, <1>4, <1>13
<1>15. r > 0 => now + r * Sec < limit + Sec
  <2>1. SUFFICES ASSUME r > 0 PROVE now + r * Sec < limit + Sec
    OBVIOUS
  <2>2. now + r * Sec < t.since + t.msg.orig * Sec + Sec
    BY <2>1, <1>1, <1>4, <1>9, <1>13, RoundedDown
  <2>3. PICK a \in Nat : a = r * Sec
    BY <1>1, ProductNat
  <2>4. now + a < t.since + p + Sec
    BY <2>2, <2>3, <1>11
  <2>5. QED
    BY <2>3, <2>4, <1>1, <1>4, <1>13
<1>16. ReplyDated(x)
  <2>1. x.since <= limit
    BY <1>8, <1>14
  <2>2. x.msg.ttl > 0 => x.since + x.msg.ttl * Sec < limit + Sec
    BY <1>8, <1>9, <1>15
  <2>3. limit = x.msg.born + MaxTimeout + x.msg.orig * Sec
    BY <1>8, <1>10, <1>11, <1>12
  <2>4. QED
    BY <2>1, <2>2, <2>3, <1>8 DEF ReplyDated
<1>17. TaskDated(x, now)
  BY <1>8, <1>16 DEF TaskDated
<1>18. \A s \in 1 .. NShards : ShardDated(shards'[s], flushedAt'[s], now')
  BY <1>1, <1>4, <1>7, StoreDated
<1>19. QED
  BY <1>1, <1>7, <1>17, <1>18, TaskStepDated DEF Dated

LEMMA ServeLazyDated ==
  ASSUME IInv, Dated, NEW c \in Client, ServeLazy(c)
  PROVE  Dated'
<1>1. /\ IInv /\ RestOK /\ now \in Nat /\ c \in Task /\ UNCHANGED << now, flushedAt >>
      /\ MaxTimeout \in Nat /\ LazyTtl \in Nat /\ Sec \in Nat
      /\ task \in [Task -> TaskRec]
  BY Timeouts, CacheAssumption DEF IInv, RestOK, Task, ServeLazy
<1>2. PICK t \in TaskRec : t = task[c]
  BY <1>1
<1>3. t.pc = "hit" /\ t.lazy /\ HitDated(t, now)
  BY <1>1, <1>2 DEF ServeLazy, Dated, TaskDated
<1>4. /\ t.key \in Key /\ t.msg \in Msg /\ t.since \in Nat /\ t.due \in Nat
      /\ t.msg.born \in Nat /\ t.msg.orig \in Nat
  BY DEF TaskRec, Msg
<1>5. PICK m \in Msg : m = SetAllTtl(t.msg, LazyReplyTtl)
  BY <1>1, <1>4, HitType
<1>6. PICK x : x = Reply(t, "lazy", m)
  OBVIOUS
<1>7. x.pc = "lazy" /\ x.since = now /\ x.msg = m
  BY <1>6 DEF Reply, Doing
<1>8. m.born = t.msg.born /\ m.orig = t.msg.orig
  BY <1>4, <1>5 DEF SetAllTtl, Msg
<1>9. PICK p \in Nat : p = t.msg.orig * Sec
  BY <1>1, <1>4, ProductNat
<1>10. now <= Max2(t.msg.born + MaxTimeout + p, t.msg.born + MaxTimeout + LazyTtl)
  <2>1. /\ now <= t.due /\ t.since <= t.msg.born + MaxTimeout
        /\ t.due <= Max2(t.since + p, t.since + LazyTtl)
    BY <1>3, <1>9 DEF HitDated
  <2>2. QED
    BY <2>1, <1>1, <1>4 DEF Max2
<1>11. TaskDated(x, now)
  <2>1. x.since <= Max2(x.msg.born + MaxTimeout + x.msg.orig * Sec,
                        x.msg.born + MaxTimeout + LazyTtl)
    BY <1>7, <1>8, <1>9, <1>10
  <2>2. QED
    BY <2>1, <1>7 DEF TaskDated, ReplyDated
<1>12. shards' = StoreLookup(t.key, m, TRUE, TRUE)
  BY <1>2, <1>5 DEF ServeLazy
<1>13. \A s \in 1 .. NShards : ShardDated(shards'[s], flushedAt'[s], now')
  BY <1>1, <1>4, <1>12, StoreDated
<1>14. ASSUME NEW r \in Refresher,
              task' = [task EXCEPT ![c] = x, ![r] = Doing("spawned", t.key, 1)]
       PROVE  \A u \in Task : TaskDated(task'[u], now')
  <2>1. r \in Task
    BY DEF Task
  <2>2. PICK y : y = Doing("spawned", t.key, 1)
    OBVIOUS
  <2>3. TaskDated(y, now)
    BY <2>2, RestingDated DEF Doing
  <2>4. TAKE u \in Task
  <2>5. task'[u] = y \/ task'[u] = x \/ task'[u] = task[u]
    BY <2>1, <2>2, <1>1, <1>14
  <2>6. TaskDated(task[u], now)
    BY DEF Dated
  <2>7. QED
    BY <2>3, <2>5, <2>6, <1>1, <1>11
<1>15. ASSUME task' = [task EXCEPT ![c] = x]
       PROVE  \A u \in Task : TaskDated(task'[u], now')
  BY <1>1, <1>11, <1>15, TaskStepDated
<1>16. \A u \in Task : TaskDated(task'[u], now')
  BY <1>2, <1>5, <1>6, <1>14, <1>15 DEF ServeLazy
<1>17. QED
  BY <1>13, <1>16 DEF Dated

-----------------------------------------------------------------------------

LEMMA AnswerDated ==
  ASSUME IInv, Dated, NEW t \in Task, NEW a \in Answers, Answer(t, a)
  PROVE  Dated'
<1>1. /\ IInv /\ RestOK /\ now \in Nat /\ UNCHANGED << now, flushedAt >>
      /\ MaxTimeout \in Nat /\ Sec \in Nat \ {0}
  BY Timeouts, CacheAssumption DEF IInv, RestOK, Answer
<1>2. PICK y \in TaskRec : y = task[t]
  BY <1>1 DEF RestOK
<1>3. /\ y.key \in Key /\ y.since \in Nat /\ y.due \in Nat /\ y.pc = "fetch"
      /\ a.ttl \in Nat /\ a.extra \in Nat
  BY <1>2, CacheAssumption DEF TaskRec, Answer
<1>4. PICK m \in Msg : m = [born |-> y.since, orig |-> a.ttl, ttl |-> a.ttl, extra |-> a.extra]
  BY <1>3 DEF Msg
<1>5. /\ shards' = StoreLookup(y.key, m, a.keep, FALSE)
      /\ task' = [task EXCEPT ![t] = After(t, "upstream", m)]
  BY <1>2, <1>4 DEF Answer
<1>6. now <= m.born + MaxTimeout /\ m.ttl = m.orig /\ m.born \in Nat /\ m.orig \in Nat
  <2>1. now <= y.due /\ y.due <= y.since + MaxTimeout
    BY <1>2, <1>3 DEF Dated, TaskDated, FetchDated
  <2>2. QED
    BY <2>1, <1>1, <1>3, <1>4
<1>7. \A s \in 1 .. NShards : ShardDated(shards'[s], flushedAt'[s], now')
  BY <1>1, <1>3, <1>5, <1>6, StoreDated
<1>8. PICK x : x = After(t, "upstream", m)
  OBVIOUS
<1>9. TaskDated(x, now)
  <2>1. CASE t \in Client
    <3>1. x.pc = "upstream" /\ x.since = now /\ x.msg = m
      BY <2>1, <1>8 DEF After, Reply, Doing
    <3>2. PICK p \in Nat : p = m.orig * Sec
      BY <1>1, <1>6, ProductNat
    <3>3. now <= m.born + MaxTimeout + p /\ now + p < m.born + MaxTimeout + p + Sec
      BY <1>1, <1>6, <3>2
    <3>4. ReplyDated(x)
      BY <3>1, <3>2, <3>3, <1>6 DEF ReplyDated
    <3>5. QED
      BY <3>1, <3>4 DEF TaskDated
  <2>2. CASE t \notin Client
    <3>1. x.pc = "ending"
      BY <2>2, <1>8 DEF After, Doing
    <3>2. QED
      BY <3>1, RestingDated
  <2>3. QED
    BY <2>1, <2>2
<1>10. QED
  BY <1>1, <1>5, <1>7, <1>8, <1>9, TaskStepDated DEF Dated

(* Steps that leave the shards alone. *)
LEMMA OneTaskDated ==
  ASSUME IInv, Dated, NEW t \in Task, NEW x, TaskDated(x, now),
         task' = [task EXCEPT ![t] = x], UNCHANGED << now, shards, flushedAt >>
  PROVE  Dated'
<1>1. \A u \in Task : TaskDated(task'[u], now')
  BY TaskStepDated
<1>2. QED
  BY <1>1 DEF Dated

LEMMA GiveUpDated ==
  ASSUME IInv, Dated, NEW t \in Task, Fail(t) \/ Expire(t)
  PROVE  Dated'
<1>1. PICK how \in {"dropped", "servfail"} : task' = [task EXCEPT ![t] = After(t, how, NoMsg)]
  BY DEF Fail, Expire
<1>2. PICK x : x = After(t, how, NoMsg)
  OBVIOUS
<1>3. x.pc \in {"dropped", "servfail", "ending"}
  BY <1>2 DEF After, Reply, Doing
<1>4. TaskDated(x, now)
  BY <1>3, RestingDated
<1>5. UNCHANGED << now, shards, flushedAt >>
  BY DEF Fail, Expire
<1>6. QED
  BY <1>1, <1>2, <1>4, <1>5, OneTaskDated

LEMMA StartDated ==
  ASSUME IInv, Dated, NEW r \in Refresher, Start(r)
  PROVE  Dated'
<1>1. now \in Nat /\ r \in Task /\ UNCHANGED << now, shards, flushedAt >>
  BY DEF IInv, RestOK, Task, Start
<1>2. CASE Held
  <2>1. PICK x : x = Doing("fetch", task[r].key, RefreshTimeout)
    OBVIOUS
  <2>2. x.pc = "fetch" /\ x.since = now /\ x.due = now + RefreshTimeout
    BY <2>1 DEF Doing
  <2>3. FetchDated(x, now)
    BY <2>2, <1>1, Timeouts, CacheAssumption DEF FetchDated
  <2>4. TaskDated(x, now)
    BY <2>2, <2>3 DEF TaskDated, ReplyDated
  <2>5. task' = [task EXCEPT ![r] = x]
    BY <2>1, <1>2 DEF Start
  <2>6. QED
    BY <2>4, <2>5, <1>1, OneTaskDated
<1>3. CASE ~ Held
  <2>1. PICK x : x = Doing("ending", task[r].key, 0)
    OBVIOUS
  <2>2. TaskDated(x, now)
    BY <2>1, RestingDated DEF Doing
  <2>3. task' = [task EXCEPT ![r] = x]
    BY <2>1, <1>3 DEF Start
  <2>4. QED
    BY <2>2, <2>3, <1>1, OneTaskDated
<1>4. QED
  BY <1>2, <1>3

LEMMA EndDated ==
  ASSUME IInv, Dated, NEW r \in Refresher, End(r)
  PROVE  Dated'
<1>1. TaskDated(Idle, now)
  BY IdleType, RestingDated
<1>2. r \in Task /\ task' = [task EXCEPT ![r] = Idle] /\ UNCHANGED << now, shards, flushedAt >>
  BY DEF End, Task
<1>3. QED
  BY <1>1, <1>2, OneTaskDated

(* A flush empties the shard it dates. *)
LEMMA FlushDated ==
  ASSUME IInv, Dated, FlushShard
  PROVE  Dated'
<1>1. PICK i \in 1 .. NShards : i = (flushed % NShards) + 1
  <2>1. flushed \in Nat /\ NShards \in Nat \ {0}
    BY CacheAssumption DEF IInv, RestOK
  <2>2. flushed % NShards \in 0 .. NShards - 1
    BY <2>1, ModRange
  <2>3. QED
    BY <2>1, <2>2
<1>2. /\ shards' = [shards EXCEPT ![i] = ShardFlush(shards[i])]
      /\ flushedAt' = [flushedAt EXCEPT ![i] = now]
      /\ UNCHANGED << now, task >>
  BY <1>1 DEF FlushShard
<1>3. /\ DOMAIN shards = 1 .. NShards /\ flushedAt \in [1 .. NShards -> Nat] /\ now \in Nat
      /\ Sound(shards[i], Key, Entry)
  BY DEF IInv, ShardsSound, RestOK
<1>4. DOMAIN ShardFlush(shards[i]).map = {}
  BY <1>3 DEF ShardFlush, Sound
<1>5. ShardDated(ShardFlush(shards[i]), now, now)
  BY <1>3, <1>4 DEF ShardDated
<1>6. \A s \in 1 .. NShards : ShardDated(shards'[s], flushedAt'[s], now')
  BY <1>2, <1>3, <1>5 DEF Dated
<1>7. QED
  BY <1>2, <1>6 DEF Dated

(* The clock moves only when nobody is due. *)
LEMMA TickDated ==
  ASSUME IInv, Dated, Tick
  PROVE  Dated'
<1>1. /\ now \in Nat /\ now' = now + 1 /\ UNCHANGED << shards, task, flushedAt >>
      /\ flushedAt \in [1 .. NShards -> Nat] /\ task \in [Task -> TaskRec] /\ ShardsSound
  BY DEF IInv, RestOK, Tick
<1>2. ASSUME NEW s \in 1 .. NShards
      PROVE  ShardDated(shards[s], flushedAt[s], now')
  <2>1. ShardDated(shards[s], flushedAt[s], now)
    BY DEF Dated
  <2>2. \A k \in DOMAIN shards[s].map : shards[s].map[k] \in Entry
    <3>1. shards[s].map \in PartialMap(Key, Entry)
      BY <1>1 DEF ShardsSound, Sound
    <3>2. QED
      BY <3>1, PartialMapElim
  <2>3. flushedAt[s] <= now'
    BY <1>1, <2>1 DEF ShardDated
  <2>4. ASSUME NEW k \in DOMAIN shards[s].map
        PROVE  EntryDated(shards[s].map[k], now')
    <3>1. PICK e \in Entry : e = shards[s].map[k]
      BY <2>2
    <3>2. EntryDated(e, now) /\ e.stored \in Nat
      BY <3>1, <2>1 DEF ShardDated, Entry
    <3>3. e.stored <= now'
      BY <3>2, <1>1 DEF EntryDated
    <3>4. QED
      BY <3>1, <3>2, <3>3 DEF EntryDated
  <2>5. QED
    BY <2>1, <2>3, <2>4 DEF ShardDated
<1>3. ASSUME NEW t \in Task
      PROVE  TaskDated(task[t], now')
  <2>1. PICK y \in TaskRec : y = task[t]
    BY <1>1
  <2>2. TaskDated(y, now)
    BY <2>1 DEF Dated
  <2>3. y.pc \in {"hit", "fetch"} => now < y.due
    BY <2>1 DEF Tick, Busy
  <2>4. y.since \in Nat /\ y.due \in Nat
    BY DEF TaskRec
  <2>5. y.pc = "hit" => HitDated(y, now')
    <3>1. SUFFICES ASSUME y.pc = "hit" PROVE HitDated(y, now')
      OBVIOUS
    <3>2. HitDated(y, now) /\ now < y.due
      BY <3>1, <2>2, <2>3 DEF TaskDated
    <3>3. y.since <= now' /\ now' <= y.due
      BY <3>2, <2>4, <1>1 DEF HitDated
    <3>4. QED
      BY <3>2, <3>3 DEF HitDated
  <2>6. y.pc = "fetch" => FetchDated(y, now')
    BY <2>2, <2>3, <2>4, <1>1 DEF TaskDated, FetchDated
  <2>7. QED
    BY <2>1, <2>2, <2>5, <2>6 DEF TaskDated
<1>4. QED
  BY <1>1, <1>2, <1>3 DEF Dated

LEMMA InitDated == Init => Dated
<1>1. SUFFICES ASSUME Init PROVE Dated
  OBVIOUS
<1>2. ASSUME NEW s \in 1 .. NShards
      PROVE  ShardDated(shards[s], flushedAt[s], now)
  <2>1. shards[s] = ShardNew(Cap) /\ flushedAt[s] = 0 /\ now = 0
    BY <1>1 DEF Init
  <2>2. DOMAIN shards[s].map = {}
    BY <2>1 DEF ShardNew
  <2>3. QED
    BY <2>1, <2>2 DEF ShardDated
<1>3. \A t \in Task : TaskDated(task[t], now)
  <2>1. TaskDated(Idle, now)
    BY IdleType, RestingDated
  <2>2. QED
    BY <2>1, <1>1 DEF Init
<1>4. QED
  BY <1>2, <1>3 DEF Dated

LEMMA NextDated == IInv /\ Dated /\ [Next]_vars => Dated'
<1>1. SUFFICES ASSUME IInv, Dated, [Next]_vars PROVE Dated'
  OBVIOUS
<1>2. ASSUME NEW c \in Client, NEW k \in Key, Begin(c, k) PROVE Dated'
  BY <1>1, <1>2, BeginDated
<1>3. ASSUME NEW c \in Client, ServeFresh(c) PROVE Dated'
  BY <1>1, <1>3, ServeFreshDated
<1>4. ASSUME NEW c \in Client, ServeLazy(c) PROVE Dated'
  BY <1>1, <1>4, ServeLazyDated
<1>5. ASSUME NEW t \in Task, NEW a \in Answers, Answer(t, a) PROVE Dated'
  BY <1>1, <1>5, AnswerDated
<1>6. ASSUME NEW t \in Task, Fail(t) \/ Expire(t) PROVE Dated'
  BY <1>1, <1>6, GiveUpDated
<1>7. ASSUME NEW r \in Refresher, Start(r) PROVE Dated'
  BY <1>1, <1>7, StartDated
<1>8. ASSUME NEW r \in Refresher, End(r) PROVE Dated'
  BY <1>1, <1>8, EndDated
<1>9. CASE FlushShard
  BY <1>1, <1>9, FlushDated
<1>10. CASE Tick
  BY <1>1, <1>10, TickDated
<1>11. CASE Retire \/ AtHorizon \/ UNCHANGED vars
  BY <1>1, <1>11 DEF Retire, AtHorizon, vars, Dated
<1>12. QED
  BY <1>1, <1>2, <1>3, <1>4, <1>5, <1>6, <1>7, <1>8, <1>9, <1>10, <1>11 DEF Next

LEMMA AlwaysDated == Spec => [](IInv /\ Dated)
  BY InitIInv, NextIInv, InitDated, NextDated, PTL DEF Spec

(* For any timing parameters, any answers and any number of queries and    *)
(* refreshes, no reply outlives what the TTL of its answer, or the lazy    *)
(* window, allows by more than the time one pipeline may take (cache.rs:   *)
(* lookup, exec, store_lookup; dnsutil.rs: subtract_ttl).                  *)
THEOREM StalenessCorrect == Spec => []BoundedStaleness
<1>1. Dated => BoundedStaleness
  BY DEF Dated, TaskDated, ReplyDated, BoundedStaleness, Task
<1>2. QED
  BY AlwaysDated, <1>1, PTL

(* For any number of shards and of queries in progress, all that survives  *)
(* a flush was asked for at most one pipeline's time before it (cache.rs:  *)
(* flush, which locks one shard at a time, and store).                     *)
THEOREM FlushCorrect == Spec => []FlushBarrier
<1>1. IInv /\ Dated => FlushBarrier
  <2>1. SUFFICES ASSUME IInv, Dated, NEW s \in 1 .. NShards, NEW k \in DOMAIN shards[s].map
                 PROVE  shards[s].map[k].msg.born + MaxTimeout >= flushedAt[s]
    BY DEF FlushBarrier
  <2>2. PICK e \in Entry : e = shards[s].map[k]
    <3>1. shards[s].map \in PartialMap(Key, Entry)
      BY <2>1 DEF IInv, ShardsSound, Sound
    <3>2. QED
      BY <2>1, <3>1, PartialMapElim
  <2>3. e.stored <= e.msg.born + MaxTimeout /\ flushedAt[s] <= e.stored
    BY <2>1, <2>2 DEF Dated, ShardDated, EntryDated
  <2>4. e.stored \in Nat /\ e.msg.born \in Nat /\ flushedAt[s] \in Nat /\ MaxTimeout \in Nat
    BY <2>1, Timeouts DEF Entry, Msg, IInv, RestOK
  <2>5. QED
    BY <2>2, <2>3, <2>4
<1>2. QED
  BY AlwaysDated, <1>1, PTL

=============================================================================
