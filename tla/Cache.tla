------------------------------- MODULE Cache -------------------------------
(***************************************************************************)
(* The response cache of src/plugin/cache.rs at work: client queries and   *)
(* background refreshes share its shards, its `inflight` set and the       *)
(* upstream, each on a task of its own, under the clock.                   *)
(*                                                                         *)
(* The pipeline around it is the smallest one the cache is used in: the    *)
(* cache step, `accept` when that step answered, the upstream otherwise.   *)
(* A task step is what the task does between two awaits or two locks:      *)
(*    Begin    key_of, then lookup under the shard's lock                  *)
(*    Serve    the rest of exec after a hit, lock released                 *)
(*    Answer   the upstream's reply, store_lookup, the reply to the client *)
(*    Fail     an upstream error: nothing to store, no reply               *)
(*    Expire   the timeout around the pipeline: no store, SERVFAIL         *)
(*    Start    the spawned refresh is first polled                         *)
(*    End      its RefreshGuard is dropped                                 *)
(* Time is counted in ticks, Sec of them to a second; TTLs are in seconds, *)
(* as on the wire, so the code's rounding down of elapsed time is visible. *)
(***************************************************************************)
EXTENDS Shard

CONSTANTS Key,             \* cache keys
          NShards,         \* number of shards
          ShardOf,         \* the shard a key hashes to
          Cap,             \* capacity of one shard
          Client,          \* client queries in progress at one time
          Refresher,       \* tasks for background refreshes
          Sec,             \* ticks in a second
          LazyTtl,         \* lazy_cache_ttl, in ticks; 0 turns lazy hits off
          LazyReplyTtl,    \* lazy_cache_reply_ttl, in seconds
          Timeout,         \* ticks a listener gives the pipeline
          RefreshTimeout,  \* ticks handle_query gives a refresh
          Answers,         \* what the upstream may answer
          Horizon,         \* bound on the clock
          MaxFlushes       \* bound on the number of flushes

(* Of an answer the cache tells apart the smallest TTL of its answer and   *)
(* authority records, the TTL of its additional records, and whether it    *)
(* may be kept at all (NOERROR, not truncated, no private EDNS option).    *)
ASSUME CacheAssumption ==
  /\ Key # {}
  /\ NShards \in Nat \ {0}
  /\ ShardOf \in [Key -> 1 .. NShards]
  /\ Cap \in Nat
  /\ Sec \in Nat \ {0}
  /\ LazyTtl \in Nat
  /\ LazyReplyTtl \in Nat \ {0}
  /\ Timeout \in Nat /\ RefreshTimeout \in Nat
  /\ Answers \subseteq [ttl : Nat, extra : Nat, keep : BOOLEAN]
  /\ Horizon \in Nat
  /\ MaxFlushes \in Nat
  /\ Client \cap Refresher = {}

Task == Client \cup Refresher

VARIABLES now,       \* the monotonic clock
          shards,    \* the shards
          inflight,  \* keys being refreshed
          task,      \* what each task is doing
          flushed,   \* shards flushed so far, over all flushes
          flushedAt, \* history: when each shard was last flushed
          live       \* listeners still use the runtime this cache belongs to

vars == << now, shards, inflight, task, flushed, flushedAt, live >>

-----------------------------------------------------------------------------

(* A reply: when the upstream was asked for it, the TTL it came with, and  *)
(* the TTLs it carries now.                                                *)
Msg == [born : Nat, orig : Nat, ttl : Nat, extra : Nat]

NoMsg == [born |-> 0, orig |-> 0, ttl |-> 0, extra |-> 0]

Entry == [msg : Msg, stored : Nat, ttl_deadline : Nat, expire : Nat]

(* A task in state `pc` works on `key`; while it is busy it moves before    *)
(* the clock passes `due`.                                                 *)
(*   "hit"      holds a copy `msg` of the entry, stored at `since`         *)
(*   "fetch"    waits for the upstream, asked at `since`                   *)
(*   "fresh", "lazy", "upstream", "servfail"   replied `msg` at `since`    *)
(*   "dropped"  over without a reply                                       *)
(*   "spawned"  a refresh not polled yet                                   *)
(*   "ending"   a refresh whose pipeline is over, guard still held         *)
Busy == {"hit", "fetch", "spawned", "ending"}

Over == {"fresh", "lazy", "upstream", "servfail", "dropped"}

TaskRec ==
  [pc : {"idle"} \cup Busy \cup Over, key : Key, msg : Msg, since : Nat,
   lazy : BOOLEAN, due : Nat]

TypeOK ==
  /\ now \in Nat
  /\ DOMAIN shards = 1 .. NShards
  /\ \A s \in 1 .. NShards : \E D \in SUBSET Key :
       shards[s] \in [map : [D -> Entry], lru : Seq(Key), cap : Nat \ {0}]
  /\ inflight \subseteq Key
  /\ task \in [Task -> TaskRec]
  /\ flushed \in Nat
  /\ flushedAt \in [1 .. NShards -> Nat]
  /\ live \in BOOLEAN

Max2(a, b) == IF a > b THEN a ELSE b

(* A subtraction that does not saturate. *)
PlainSub(a, b) == a - b

(* u32::saturating_sub. *)
SatSub(a, b) == IF a > b THEN a - b ELSE 0

(* dnsutil::subtract_ttl: every section but the OPT record. *)
SubtractTtl(m, secs) ==
  [m EXCEPT !.ttl = SatSub(m.ttl, secs), !.extra = SatSub(m.extra, secs)]

(* dnsutil::set_all_ttl: the answer and authority sections. *)
SetAllTtl(m, secs) == [m EXCEPT !.ttl = secs]

(* Seconds since t, rounded down (as_secs). *)
Elapsed(t) == (now - t) \div Sec

(* Cache::store of message m. *)
EntryOf(m) ==
  LET deadline == now + m.ttl * Sec
  IN  [msg          |-> m,
       stored       |-> now,
       ttl_deadline |-> deadline,
       expire       |-> IF LazyTtl > 0 THEN Max2(deadline, now + LazyTtl)
                                       ELSE deadline]

(* Cache::store_lookup and store: nothing is kept of a reply that came     *)
(* from the cache, that may not be kept, or that has no time to live.      *)
StoreLookup(k, m, keep, served) ==
  IF served \/ ~ keep \/ m.ttl = 0
    THEN shards
    ELSE [shards EXCEPT ![ShardOf[k]] = ShardInsert(@, k, EntryOf(m))]

-----------------------------------------------------------------------------

(* A task in state pc, with nothing in hand, to move within d ticks. *)
Doing(pc, k, d) ==
  [pc |-> pc, key |-> k, msg |-> NoMsg, since |-> now, lazy |-> FALSE,
   due |-> now + d]

(* A task with nothing to do; its key means nothing. *)
Idle ==
  [pc |-> "idle", key |-> CHOOSE k \in Key : TRUE, msg |-> NoMsg, since |-> 0,
   lazy |-> FALSE, due |-> 0]

Init ==
  /\ now = 0
  /\ shards = [s \in 1 .. NShards |-> ShardNew(Cap)]
  /\ inflight = {}
  /\ task = [t \in Task |-> Idle]
  /\ flushed = 0
  /\ flushedAt = [s \in 1 .. NShards |-> 0]
  /\ live = TRUE

(* A lookup that ignores the expiry time. *)
FoundExpired(k) == k \in DOMAIN shards[ShardOf[k]].map

(* Cache::lookup yields k's entry. *)
Found(k) ==
  /\ k \in DOMAIN shards[ShardOf[k]].map
  /\ now < shards[ShardOf[k]].map[k].expire

(* What the task of a query that found its key takes out of the lock. *)
Copied(k) ==
  LET e == shards[ShardOf[k]].map[k]
  IN  [pc |-> "hit", key |-> k, msg |-> e.msg, since |-> e.stored,
       lazy |-> now >= e.ttl_deadline /\ LazyTtl > 0, due |-> now + 1]

(* A query arrives, and the cache step looks its key up: an entry found is *)
(* promoted even when it has expired.  A query leaves room under the       *)
(* Horizon for all it may start.                                           *)
Begin(c, k) ==
  /\ live
  /\ task[c].pc \in {"idle"} \cup Over
  /\ now + 2 + Max2(Timeout, RefreshTimeout) <= Horizon
  /\ shards' = [shards EXCEPT ![ShardOf[k]] = ShardGet(@, k)]
  /\ task' = [task EXCEPT ![c] = IF Found(k) THEN Copied(k)
                                             ELSE Doing("fetch", k, Timeout)]
  /\ UNCHANGED << now, inflight, flushed, flushedAt, live >>

(* Task t with its reply m. *)
Reply(t, how, m) == [Doing(how, t.key, 0) EXCEPT !.msg = m]

(* exec after a fresh hit.  The time elapsed is read anew. *)
ServeFresh(c) ==
  LET t == task[c]
      m == SubtractTtl(t.msg, Elapsed(t.since))
  IN  /\ t.pc = "hit" /\ ~ t.lazy
      /\ task' = [task EXCEPT ![c] = Reply(t, "fresh", m)]
      /\ shards' = StoreLookup(t.key, m, TRUE, TRUE)
      /\ UNCHANGED << now, inflight, flushed, flushedAt, live >>

(* A kick_refresh that does not look at inflight. *)
KickAlways(k) == TRUE

(* kick_refresh spawns a refresh: the key was not in inflight. *)
Kicks(k) == k \notin inflight

(* exec after a lazy hit. *)
ServeLazy(c) ==
  LET t == task[c]
      m == SetAllTtl(t.msg, LazyReplyTtl)
  IN  /\ t.pc = "hit" /\ t.lazy
      /\ \/ /\ Kicks(t.key)
            /\ inflight' = inflight \cup {t.key}
            /\ \E r \in Refresher :
                 /\ task[r].pc = "idle"
                 /\ task' = [task EXCEPT ![c] = Reply(t, "lazy", m),
                                         ![r] = Doing("spawned", t.key, 1)]
         \/ /\ ~ Kicks(t.key)
            /\ task' = [task EXCEPT ![c] = Reply(t, "lazy", m)]
            /\ UNCHANGED inflight
      /\ shards' = StoreLookup(t.key, m, TRUE, TRUE)
      /\ UNCHANGED << now, flushed, flushedAt, live >>

-----------------------------------------------------------------------------

(* What becomes of a task when its pipeline is over: a client has its      *)
(* reply, a refresh throws it away.                                        *)
After(t, how, m) ==
  IF t \in Client THEN Reply(task[t], how, m)
                  ELSE Doing("ending", task[t].key, 0)

(* The upstream answers in time; the pipeline stores and is done.          *)
Answer(t, a) ==
  LET m == [born |-> task[t].since, orig |-> a.ttl, ttl |-> a.ttl, extra |-> a.extra]
  IN  /\ task[t].pc = "fetch"
      /\ shards' = StoreLookup(task[t].key, m, a.keep, FALSE)
      /\ task' = [task EXCEPT ![t] = After(t, "upstream", m)]
      /\ UNCHANGED << now, inflight, flushed, flushedAt, live >>

(* No upstream gives an answer: Forward goes on without a response, so     *)
(* store_lookup has nothing to keep and server::handle nothing to send.    *)
Fail(t) ==
  /\ task[t].pc = "fetch"
  /\ task' = [task EXCEPT ![t] = After(t, "dropped", NoMsg)]
  /\ UNCHANGED << now, shards, inflight, flushed, flushedAt, live >>

(* A timeout that only refreshes have. *)
ExpireRefreshes(t) ==
  /\ t \in Refresher
  /\ task[t].pc = "fetch" /\ now >= task[t].due
  /\ task' = [task EXCEPT ![t] = After(t, "servfail", NoMsg)]
  /\ UNCHANGED << now, shards, inflight, flushed, flushedAt, live >>

(* The timeout around the pipeline drops it wherever it waits. *)
Expire(t) ==
  /\ task[t].pc = "fetch" /\ now >= task[t].due
  /\ task' = [task EXCEPT ![t] = After(t, "servfail", NoMsg)]
  /\ UNCHANGED << now, shards, inflight, flushed, flushedAt, live >>

-----------------------------------------------------------------------------

(* Someone holds the runtime: the listeners, a query, or another refresh.  *)
Held == live \/ \E t \in Task : task[t].pc \in {"hit", "fetch"}

(* The refresh is first polled.  It skips the cache, or, when the runtime  *)
(* is gone, does nothing at all.                                           *)
Start(r) ==
  /\ task[r].pc = "spawned"
  /\ task' = [task EXCEPT ![r] = IF Held THEN Doing("fetch", task[r].key, RefreshTimeout)
                                         ELSE Doing("ending", task[r].key, 0)]
  /\ UNCHANGED << now, shards, inflight, flushed, flushedAt, live >>

(* A guard that gives up its key only while the runtime is in use. *)
EndLive(r) ==
  /\ task[r].pc = "ending"
  /\ inflight' = IF live THEN inflight \ {task[r].key} ELSE inflight
  /\ task' = [task EXCEPT ![r] = Idle]
  /\ UNCHANGED << now, shards, flushed, flushedAt, live >>

(* The refresh task ends, and RefreshGuard is dropped. *)
End(r) ==
  /\ task[r].pc = "ending"
  /\ inflight' = inflight \ {task[r].key}
  /\ task' = [task EXCEPT ![r] = Idle]
  /\ UNCHANGED << now, shards, flushed, flushedAt, live >>

-----------------------------------------------------------------------------

(* A flush that empties the first shard only. *)
FlushFirst ==
  LET s == (flushed % NShards) + 1
  IN  /\ flushed < MaxFlushes * NShards
      /\ shards' = IF s = 1 THEN [shards EXCEPT ![s] = ShardFlush(@)] ELSE shards
      /\ flushedAt' = [flushedAt EXCEPT ![s] = now]
      /\ flushed' = flushed + 1
      /\ UNCHANGED << now, inflight, task, live >>

(* Cache::flush, which locks one shard at a time. *)
FlushShard ==
  LET s == (flushed % NShards) + 1
  IN  /\ flushed < MaxFlushes * NShards
      /\ shards' = [shards EXCEPT ![s] = ShardFlush(@)]
      /\ flushedAt' = [flushedAt EXCEPT ![s] = now]
      /\ flushed' = flushed + 1
      /\ UNCHANGED << now, inflight, task, live >>

(* A reload: the listeners turn to another runtime (Live::swap). *)
Retire ==
  /\ live
  /\ live' = FALSE
  /\ UNCHANGED << now, shards, inflight, task, flushed, flushedAt >>

(* A tick of the clock.  Timers are punctual, and a task that is not       *)
(* waiting for the upstream crosses at most one tick.                      *)
Tick ==
  /\ now < Horizon
  /\ \A t \in Task : task[t].pc \in Busy => now < task[t].due
  /\ now' = now + 1
  /\ UNCHANGED << shards, inflight, task, flushed, flushedAt, live >>

(* The end of the bounded clock. *)
AtHorizon ==
  /\ now = Horizon
  /\ \A t \in Task : task[t].pc \notin Busy
  /\ UNCHANGED vars

Next ==
  \/ \E c \in Client, k \in Key : Begin(c, k)
  \/ \E c \in Client : ServeFresh(c) \/ ServeLazy(c)
  \/ \E t \in Task : (\E a \in Answers : Answer(t, a)) \/ Fail(t) \/ Expire(t)
  \/ \E r \in Refresher : Start(r) \/ End(r)
  \/ FlushShard
  \/ Retire
  \/ Tick
  \/ AtHorizon

Spec == Init /\ [][Next]_vars

(* Time passes, the scheduler polls every runnable task, and a timer that  *)
(* is due fires.  Nothing is assumed of clients or of the upstream.        *)
Fairness ==
  /\ WF_vars(Tick)
  /\ \A c \in Client : WF_vars(ServeFresh(c)) /\ WF_vars(ServeLazy(c))
  /\ \A t \in Task : WF_vars(Expire(t))
  /\ \A r \in Refresher : WF_vars(Start(r)) /\ WF_vars(End(r))

FairSpec == Spec /\ Fairness

-----------------------------------------------------------------------------

Refreshing(r) == task[r].pc \in Busy

(* inflight names exactly the keys with a refresh under way, and no key    *)
(* has two: kick_refresh's test and insert, the spawned task's failure,    *)
(* timeout and late start after a reload, and the guard's drop agree.      *)
InflightExact ==
  /\ inflight = {task[r].key : r \in {x \in Refresher : Refreshing(x)}}
  /\ \A r, s \in Refresher :
       Refreshing(r) /\ Refreshing(s) /\ task[r].key = task[s].key => r = s

MaxTimeout == Max2(Timeout, RefreshTimeout)

(* No answer outlives what its TTL allows by more than the time a pipeline *)
(* may take.  A fresh hit, or an answer passed through, is given out       *)
(* within its TTL and promises to expire no later; a lazy hit is at most   *)
(* as old as lazy_cache_ttl allows.  So no hit renews an entry, an expired *)
(* entry is never served, and what a lookup copied does not go stale       *)
(* before it is sent (cache.rs: lookup, exec, store_lookup).               *)
BoundedStaleness ==
  \A c \in Client :
    LET t     == task[c]
        limit == t.msg.born + MaxTimeout + t.msg.orig * Sec
    IN  /\ t.pc \in {"fresh", "upstream"} =>
             /\ t.since <= limit
             /\ t.msg.ttl > 0 => t.since + t.msg.ttl * Sec < limit + Sec
        /\ t.pc = "lazy" =>
             t.since <= Max2(limit, t.msg.born + MaxTimeout + LazyTtl)

(* A flushed shard holds no answer the upstream was asked for earlier than *)
(* one pipeline's time before the flush: what queries in progress write    *)
(* after the flush is all that survives it (cache.rs: flush, store).       *)
FlushBarrier ==
  \A s \in 1 .. NShards : \A k \in DOMAIN shards[s].map :
    shards[s].map[k].msg.born + MaxTimeout >= flushedAt[s]

(* A lazy hit promises a short TTL for all the records it hands out.       *)
LazyReplyIsShort ==
  \A c \in Client : task[c].pc = "lazy" =>
    task[c].msg.ttl <= LazyReplyTtl /\ task[c].msg.extra <= LazyReplyTtl

(* Every refresh gives its key up again: after success, upstream failure,  *)
(* timeout, and when the runtime has gone before it started.               *)
RefreshEnds == \A k \in Key : k \in inflight ~> k \notin inflight

(* Every query the pipeline takes in is over at some time: answered from   *)
(* the cache or the upstream, SERVFAIL on a timeout, or dropped when the    *)
(* upstream failed (server.rs: handle and its timeout).                    *)
QueriesEnd ==
  \A c \in Client : task[c].pc \in Busy ~> task[c].pc \in Over

=============================================================================
