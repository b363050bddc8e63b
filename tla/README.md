# FerrumDNS: TLA+ models, checks and proofs

FerrumDNS is a DNS forwarder in Rust: listeners take queries in, a pipeline of
plugins (sequences of matchers and steps) answers them from local data, caches
or upstream servers, and an admin API and a web console look on.  This
directory holds TLA+ modules that model the parts whose correctness depends on
order, time and concurrency, TLC configurations that check them on small
instances, and TLAPS proofs of what holds for every instance.

    tlc -workers 2 -config MCCache.cfg MCCache     # one run of PROJECT.json
    tlapm ShardProofs.tla                          # one module's proofs

`PROJECT.json` lists components, runs, the mutant each property is known to
catch, the source lines behind each definition, findings, hazards and theorems.

## The system

| Part | State | Operations | Talks to |
|---|---|---|---|
| Cache shard, `plugin/cache.rs` `Shard` | `map`, `lru`, `cap` | `get`, `insert`, `flush`, `len`, each under the shard's mutex | owned by `Cache` |
| Cache, `plugin/cache.rs` | 16 shards, `inflight`, a weak link to the runtime | `exec` (lookup, serve, `kick_refresh`), `snapshot`, `store_lookup`, `flush` | executed by a sequence; spawns tasks that re-enter the runtime |
| Query context, `context.rs` | query, original query, response, marks, rewrites, entry snapshot, flags | `set_response`, `rewrite_name`, `response_for_query`, `clone_for_lazy`, `fork`, `absorb`, `finalize_response` | passed through all plugins of one query |
| Sequence, `plugin/sequence.rs`, `plugin/actions.rs` | step index, pending cache writes | run, call, `goto`, `return`, `accept`, `reject` | plugins by tag, through the registry |
| Local plugins `hosts`, `redirect`, `black_hole`, `ecs`, `_no_ecs` | tables | `exec` | the context |
| Forward, `plugin/forward.rs` | a set of pending exchanges | race of concurrent upstreams | upstreams |
| Fallback, `plugin/fallback.rs` | two branch contexts, a timer | primary, secondary, standby | two plugins |
| Upstream, `upstream.rs` | idle stream pools, cached destination | exchange over UDP, TCP, DoT, DoH; bootstrap | the network |
| Request handling, `server.rs` `handle` | - | classify, time out, finalize, strip ECS | listeners, refreshes, API |
| Listeners, `server.rs` | sockets, TLS handshakes in progress | UDP loop, framed streams, DoH | `Live` |
| Runtime, `runtime.rs`, `main.rs` | current `Arc<Runtime>` behind `Live` | build, validate, swap, serve, SIGHUP | everything |
| Configuration, `config.rs` | include stack | load, merge, normalize | runtime |
| Admin API and metrics, `api.rs`, `metrics.rs` | relaxed counters | query, flush, status | `Live`, caches |
| Console, `web/app.js` | trend baseline, timers | poll, reload, flush | API |

What is hard about it:

* **Concurrency.** Queries run on a multi-threaded executor and share shards,
  `inflight`, stream pools and the current runtime. Between a lookup and the
  reply, between asking an upstream and storing its answer, everything else
  moves.
* **Time.** TTLs, lazy windows, pipeline and refresh timeouts, idle sessions.
  Times are `Instant`s, TTLs whole seconds.
* **Failure.** Upstreams fail, time out or lie; a timeout drops a pipeline at
  any await; a reload takes the runtime away from a refresh not yet started.
* **Order.** Several caches, redirects and ECS steps in one pipeline, nested
  sequences each with pending writes of their own.

Correct means, part by part: a shard is an LRU cache; a key has one refresh at
a time and it always ends; no answer is served beyond its time, none from
before a flush stays behind; a cache holds answers to its keys, a client gets
an answer to its question; a subnet attached on a client's behalf stays
private; a SERVFAIL never beats a usable answer, a losing branch leaves no
trace and no work behind; a call on an upstream is one exchange whatever the
transport did on the way, and a pooled session carries nothing over from one
call to the next; included files are merged in the order of the text, and no
configuration that is accepted nests calls deeper than the limit; a rejected
reload changes nothing, an accepted one rules all queries read after it, no
SIGHUP is lost and replaced runtimes are released; one failed listener stops
the whole service; a TLS connection is refused only when the handshake slots
are really taken.

## Modules

| Module | Models | Used by |
|---|---|---|
| `Shard` | the methods of `Shard` as functions on a record | `ShardLRU`, `Cache` |
| `ShardLRU` | one shard under every sequence of calls | `MCShardLRU`, `ShardProofs` |
| `Cache` | queries, refreshes, flush and reload around the shards, under a clock | `MCCache`, `CacheProofs` |
| `Pipeline` | one query's way through sequences, local plugins and caches | `MCPipeline`, `PipelineProofs` |
| `Fallback` | one request's fallback over two branches, each with a racing Forward | `MCFallback`, `FallbackProofs` |
| `Exchange` | what a call on an upstream promises | implemented by `Upstream` |
| `Upstream` | the calls on one upstream: destination, stream pool, retries, deadline | `MCUpstream`, `UpstreamProofs` |
| `ChainCheck` | what a check of references promises | implemented by `PluginGraph`, `ConfigLoad` |
| `PluginGraph` | the search for cycles and depth, and the requests on what it accepts | `MCPluginGraph`, `ConfigProofs` |
| `ConfigLoad` | a configuration file, its includes, the merge | `MCConfigLoad`, `ConfigProofs` |
| `Live` | the process: listeners, sessions, reload on SIGHUP, shutdown | `MCLive`, `ListenerProofs` |
| `TlsAccept` | the accept loops of DoT and DoH with their bounded handshakes | `MCTlsAccept`, `ListenerProofs` |
| `ShardLemmas`, `ShardProofs`, `CacheProofs`, `PipelineProofs`, `FallbackProofs`, `UpstreamProofs`, `ConfigProofs`, `ListenerProofs` | lemmas and theorems | |
| `MC...` | instances for TLC | the `.cfg` files |

How they fit together: `Cache` uses `Shard`'s methods. `Pipeline` runs one query
at a time and takes from `Cache` only what a lookup may find; `Fallback` takes
an upstream's answers as any result within its limit, which is what `Exchange`
promises and `Upstream` is shown to keep. `Live` decides which runtime a query
runs on, and when the `Weak` of `Cache`'s refreshes is dead.

Definitions named like `EvictTooLate` or `FoundExpired`, with a comment that
begins "A ... that ...", are deliberately wrong variants of the definition that
follows them. No specification uses them; they stand for the plausible mistake
the corresponding property is known to catch.

### Shard, ShardLRU

A shard is `[map, lru, cap]` as in the code. `insert`'s eviction loop is
`EvictCount`: the smallest number of pops after which the loop condition fails.
`ShardLRU` adds two history variables, the full recency order and the last
entry written under each key, which is what a shard without a limit would know.

### Cache

`Cache` cuts `Cache::exec` and the pipeline around it where another task can
step in: lookup under the shard's lock (`Begin`), the rest of a hit
(`ServeFresh`, `ServeLazy`), the upstream's answer with the store (`Answer`),
no answer (`Fail`: `Forward` goes on without a response, nothing is stored and
nothing sent), the timeout (`Expire`), a spawned refresh's first poll (`Start`)
and its end (`End`, the drop of `RefreshGuard`). `flush` takes one shard at a
time (`FlushShard`). `Retire` is a reload: new queries go elsewhere, and a
refresh polled once nobody holds the runtime finds its `Weak` dead.

Time is a counter, `Sec` ticks to a second, so rounding down in `as_secs` is
visible. A task that runs code crosses at most one tick between two of its
steps; one that waits for the upstream is moved on by its timer at the latest.
`store` reads the clock just before it takes the lock; the model makes the two
one step, which the one-tick rule of the neighbouring steps allows for.

An answer is its smallest TTL over answer and authority records, the TTL of its
additional records, and whether it may be kept at all.

### Pipeline

`Pipeline` interprets a configuration: two sequences, `main` and `sub`, of
guarded steps. A call or `goto` pushes a frame with its own pending writes. A
message keeps its question's name, its EDNS facts (present, client subnet, an
option private to the client), its rcode class, the alias records before the
answer and the owner of the answer. Queries and refreshes run one after
another: what they do to a cache concurrently is `Cache`'s subject, and
whether a resident entry is fresh, lazy or expired is a free choice here.
A client (`Clients`) is a query and whether `ecs` finds an address to attach
for it: with `auto` it finds none for a client that is not public, and the step
does nothing. `reject` and `black_hole` answer with any class of rcode. A
sequence that ends stores its answer or not, since no cache keeps one that is
truncated or has no time to live.

Left out of `Pipeline`: `goto` to a plugin that is no sequence, the `ttl` and
`prefer_*` builtins, `force_overwrite`, the ranges of `is_public_ip`, name and
IP sets, `fallback`, and the error path of `server::handle`. Steps return errors only for unknown tags and
reversed TTL ranges, both refused when a configuration is built.

### Fallback

One request whose sequence has a cache in front of a `fallback`. Each branch
marks the query, looks in a cache of its own and asks its upstreams. Everything
runs in the request's task, so an action is what one poll does between two
awaits: `FirstPoll` (the primary's before the secondary's, as `select` polls),
`Take` (Forward's loop takes one completed exchange, and if that ends the
branch, its sequence stores and `BoundFallback::exec` decides: `Ends`,
`Choose`, `FallBack`), `ThresholdPassed` and `TimesOut`. From outside come
`Complete` (an exchange ends, with any result, at the latest at its limit) and
`Tick`. A timer that is due may win against a reply that has just become ready:
readiness is set by other threads between the two polls of a `timeout`. Both
values of `always_standby` are initial states. Responses are classes (wanted,
NODATA, NXDOMAIN, unusable) with their origin, contexts a response, marks and
the served-from-cache flag.

### Exchange, Upstream

`Exchange` is the promise: every call ends, in an error or, only after the
server has answered that very query, in success.

`Upstream` is one upstream of any transport and the calls of
`Upstream::exchange` on it. A call goes through `Begin` (the deadline; the
destination if it is known), the resolution of the server's name (`BootAnswer`
and `BootTimeout` for the two lookups of `bootstrap_ips`, `SystemLookup`), and
then its transport: `UsePool`, `Dial`, `Handshake`, `ReadFramed`, `ReadFails`
for framed streams (`tcp_exchange_pooled`, `tls_exchange_pooled`), `Send` and
`Recv` for UDP with the repetition of a truncated answer over TCP, `HttpBody`
for DoH. `Timeout` and `Cancel` end it from outside. A session is what the
server still owes on it and what lies unread in its buffer; dropping a stream
forgets both. The server (`ServeSession`, `Serve`, `CloseSession`) answers
rightly, with another id or question, with a truncated message, or not at all;
datagrams are lost, repeated and reordered.

External behaviour assumed: a server answers a query framed on a stream at most
once and sends nothing unasked; an A lookup returns IPv4 addresses only, an
AAAA lookup IPv6 only. Left out: the parsing of addresses and URLs and the
errors it gives when an upstream is built; DoH's connection pool, which is the
HTTP library's. Three things the model makes plain: pins of a DoH upstream are
not cached, its resolver's cache belongs to the last call that resolved, and a
pooled session that stays silent uses up the whole deadline, so that no second
try is made.

### ChainCheck, PluginGraph, ConfigLoad

`ChainCheck` says what both searches promise: one verdict, eventually; `ok`
exactly if everything reachable exists, nothing is cyclic and no chain has more
than `MaxDepth` members; and a rejection names a reason that holds. It is
written with sets of walks, not as a search. `Safety` is the promise without
"eventually".

`PluginGraph` is `validate_plugin_graph` and `visit_plugin`. The frames of the
recursion are a stack, each with the calls it has not followed yet and the
depth so far; `Visit` is one call of `visit_plugin` (memoised, on the stack, too
deep, or a new frame), `FinishVisit` its return. Roots and calls come in any
order. `Enter`, `CallPlugin` and `Return` are a request on what was accepted.
Plugins are a function of their tags (ill-formed and duplicate tags are refused
before); plugins that call nobody are sequences without calls; a set of calls
stands for the list, since the second call to a tag finds the memo.

`ConfigLoad` is `load_file`, `load_with_stack`, `load_contents` and `merge`.
There is no memo here: a file included twice is loaded twice. Paths have
several spellings; what counts is the canonical one. What a file declares is
opaque, named by the file; `valid` covers reading and parsing alike.

### Live

The process. `reload_loop` waits for a SIGHUP (several merge into one), reads
the file, builds, compares with the current runtime and swaps or rejects;
`Live::serve` refuses a configuration without listeners (`RefuseServe`; the
admin API counts as one), copies its settings from a snapshot, binds the
listeners and ends with the first of them; sessions (`serve_framed`, or one datagram) outlive
their listener's loop and take the runtime anew for each query; a lazy hit
spawns a refresh that knows its runtime by a `Weak`. `rts` is the list of all
runtimes that were ever current, `Held` says who keeps one alive. A
configuration is broken or not, with `service` for servers, API and log
settings and `rules` for the rest: what `Runtime::build` makes of it in detail
is not modelled, and which of `Listeners` the first configuration has is a free
choice. `serve`'s own shutdown is one step. A SIGHUP before the
handler is installed, or when it could not be, ends the process, as signals do.

### TlsAccept

A connection is queued by the kernel, in its handshake, ended (ready or
broken), up, or away. For DoT, `AcceptDot` takes a permit or refuses, and
`RunDot` gives it back when the handshake has ended. For DoH one loop does it
all: `Drain` takes an ended handshake out, `AdmitDoh` looks at a socket only
when there is none (the select is biased), and an error of `accept` puts the
whole loop to sleep for a moment. One poll of the select, first the handshakes,
then the socket and the limit, is one step: "ended" means ended when the poll
began. Honest clients complete in time and try again when refused; stalled
peers say nothing, may hang up, and come back as often as they like, as
nothing in the code limits them; nor is there a limit to the errors of `accept`.

## Runs

| Run | Checks | Bounds |
|---|---|---|
| `shard` | `TypeOK`, `QueueMatchesMap`, `CapacityBound`, `KeepsMostRecent` | 4 keys, 2 entries, configured capacities 0 to 3 |
| `cache` | `TypeOK`, `InflightExact`, `BoundedStaleness`, `FlushBarrier` | 1 key in the last of 2 shards, 2 clients, 2 refresh tasks, one flush, one reload, 7 ticks of half a second |
| `cache_live` | `RefreshEnds`, `QueriesEnd` | 2 clients, 1 refresh task, 7 ticks of a second |
| `lazy_additional` | `LazyReplyIsShort`, violated | as `cache`, an answer with a long-lived additional record |
| `pipeline` | `TypeOK`, `CachedAnswersKey`, `ReplyAnswersClient`, `EcsPrivacy`, `RefreshFindsKey`, `NeverRestored` | 490 configurations: 486 of 5 + 4 steps and 4 in the order of the shipped examples; 2 caches, redirects a to b to c, 4 kinds of client, 3 pipeline runs |
| `fallback` | `TypeOK`, `BackupIsLastResort`, `StandbyInTime`, `OnlyWinnerShows`, `UsableBeatsFailure`, `StoresOwnWork`, `NoOrphans` | 2 upstreams per branch, window 2, exchange limit 3, request timeout 4 |
| `redirect_after_answer` | `ReplyAnswersClient`, violated | one configuration, one run |
| `upstream` | `TypeOK`, `PoolClean`, `OneHolder`, `DestAgreed`, `BootstrapPartial`, `ImplementsExchange` | 2 calls with the same id and question, 7 combinations of transport and naming, a pool of 1, idle time 1, deadline 2, 2 datagrams, 3 ticks |
| `plugin_graph` | `RequestDepthBounded`, `MemoRanksCalls`, `ImplementsChainCheck` | all graphs of 4 plugins with up to 5 calls, of 3 plugins and a missing one with up to 3; limit 3 |
| `config_load` | `MergedInOrder`, `LoadImplementsChainCheck` | 4 files, one with two spellings, one that may not parse, a missing one; lists of up to 2 includes; limit 3 |
| `live` | `QueryOnCurrentRules`, `ReplacedReleased`, `LastReloadWins`, `OneFailsAllStop` | 4 configurations (two good ones, a broken one, one with other listeners), up to 2 listeners, 1 session, 1 refresh, 2 edits, 2 SIGHUPs |
| `tls_accept` | `RefusedOnlyWhenBusy`, `HonestServed` | both loops, 2 slots, 2 stalled peers, 2 honest clients; no bound on how often they come or `accept` fails |

Why the bounds are enough. Keys of different shards do not interact but
through `inflight`, a set, and keys of one shard only through eviction, which
`shard` covers with more keys than capacity; so `cache` needs one key. It needs
two shards for a flush half done, two clients and two refreshers so that a
second refresh could wrongly start beside the first, and seven ticks to store,
go stale, be served, be refreshed and expire. `Begin` leaves room under the
`Horizon` for all a query may start, so that the end of time cuts nothing off.
In `fallback` the window closes before an exchange's limit, the limit of a
secondary started late passes after the request's timeout, and two upstreams
are enough for one to fail before the other answers.
Three pipeline runs are the shortest history with an entry stored, found stale
and refreshed; two redirects in a row separate rewrites before a cache from
those after it.

In `upstream` the two calls are alike, which is when a late reply would pass
for an answer; the second may start when the first has put its session into the
pool, and the clock lets that session age past its idle time. A pool of one is
full as soon as two calls end. With a limit of 3, four plugins or files make
chains that are too long, chains that just fit, cycles of every length and
diamonds in which a memo is used. In `live` one edit and one signal can arrive
while a reload is at work on the previous pair, with a session open across
both. In `tls_accept` there are as many stalled peers as slots, so that they can
take every slot and honest clients are refused.

`CachedAnswersKey`, `ReplyAnswersClient`, `EcsPrivacy` and `RefreshFindsKey`
depend on the configuration. `Pipeline` states the conditions as predicates on
a configuration: `RedirectsSettle` (a redirect runs unconditionally only before
anything but a cache can have answered, all others only without a response),
`EcsFirst` (only the entry sequence deals with subnets: `ecs` comes before its
caches, which is what the repository's README asks for, with `reject`, `hosts`
or anything else before it; `no_ecs` comes before anything that answers or
after the last lookup) and `ForwardsLast` (an upstream is asked when no cache
is left to ask). The README's quick start and the `examples/*.yaml` put
`reject` and `hosts` first, then `ecs`, then the cache; `MCShipped` has that
order. `MCPipeline` assumes all three predicates, so TLC verifies that the 490
configurations of the run meet them; the theorems need them too, and the
section on proofs says what goes wrong without each. `redirect_after_answer`
is a configuration whose redirects do not settle.

Deadlock checking is on in the runs of the first five modules; `AtHorizon` and
`Done` are the only steps at the bound, `Replied` the only one of a request
that is over, and they require that nothing is in progress. It is off in
`upstream`, `plugin_graph`, `config_load`, `live` and `tls_accept`: there the
system may stop (all calls have ended, the configuration is rejected or loaded,
the process has ended, all clients are up), and the liveness properties rule
out that it stops too early.

**Fairness.** Always weak, and always of what the tokio scheduler, its timers
or straight-line code give:

* `cache_live`: the clock, the steps of a runnable task, due timers, a
  refresh's start and end.
* `upstream`: the clock and the timers of a call and of its bootstrap lookups.
  Nothing of the server, the network or a reply that could be read.
* `plugin_graph`, `config_load`: a synchronous function goes on.
* `live`: the reload loop, `serve`, a query and a refresh that have started go
  on; queries end at their timeout at the latest.
* `tls_accept`: the loops, the tasks of connections and the handshake's
  timeout; honest clients connect again and complete. Stalled peers need not
  hang up. The second part of `HonestServed`, that every honest client gets in,
  has a hypothesis of its own, `Calm`: from some moment on no stalled peer opens
  a connection and `accept` does not fail. The code does not bring that about,
  and it is not part of the specification: the first part, `HandshakesEnd`,
  holds without it.

Nothing is assumed of clients otherwise, of upstreams, the operator, flushes or
reloads.

**Refinement.** `ImplementsExchange` maps a call's program counter to idle,
running, ok or error; all of pools, retries and datagrams are stuttering.
`ImplementsChainCheck` and `LoadImplementsChainCheck` map the graph of calls or
includes and the verdict; the whole search is stuttering. All three include the
abstract specification's liveness.

### What the runs show

* A shard is an exact LRU cache for every call sequence in the bounds.
* `inflight` is exact: one refresh per key, under failure, timeout and reload.
* Staleness is bounded by the TTL (or the lazy window) plus the time one
  pipeline may take, since an answer is dated when it is stored. A flush is a
  barrier up to the same time: what queries in progress write afterwards
  survives it.
* Cached answers fit their keys and replies fit their questions across nested
  sequences, several caches and redirects on either side of them.
* A backup is used when the primary has failed or its window is over, and then
  at once; the request carries on with the used branch's context alone; a
  failure never beats an answer; a loser leaves nothing running. Two things the
  model makes plain without a document to contradict them: when the secondary
  has no answer, the primary's NXDOMAIN or NODATA, and any response from before
  the fallback, are given up with it and the query stays unanswered; and a
  secondary that finished and lost has still written its cache.
* An upstream's call always ends within its deadline, and a success is an answer
  to its own query, on every transport. Pooled sessions are clean and are held
  by the pool or by one call. All calls agree on one destination, and one
  family of addresses is enough to get it.
* Validation rejects exactly the graphs that are incomplete, cyclic or too deep,
  in any order of visits; loading does the same for includes. Requests on
  accepted graphs nest within the limit.
* After a reload every query read runs on the new rules, on connections of any
  age; replaced runtimes are released; the last SIGHUP counts; a listener that
  fails, at its start or later, ends the process.
* Whatever peers do, a TLS handshake that was taken on ends and gives its slot
  back. A listener recovers from a flood of stalled peers: once they stop
  coming, honest clients get in. While the flood lasts they may not: in the
  model as in the code, stalled peers that reconnect can refill every slot that
  comes free, and an honest client may be refused each time it tries.
* Two disagreements between documentation and code, recorded as findings: lazy
  hits leave the TTL of additional records alone, and a redirect after a local
  answer puts a false alias in front of it.

## Proofs

`ShardLemmas` proves what `Promote`, `Evict`, `ShardGet`, `ShardInsert` and
`ShardFlush` preserve. The inductive core is `Sound`: the queue is injective, it
ranges over exactly the map's domain, and the map is within capacity. The
capacity bound alone is not inductive: the loop stops when the *queue* is empty,
so one needs that the queue then covers the map.

`ShardProofs`, for any keys, entries and capacities (assumption: `Size` is a
set of naturals):

* `TypeCorrect`, `QueueCorrect`, `CapacityCorrect`: `TypeOK`,
  `QueueMatchesMap`, `CapacityBound` are invariant, from `Sound`.
* `RecencyCorrect`: `KeepsMostRecent` is invariant. The strengthening says that
  the full recency order has no duplicates and ends in the shard's queue, which
  is shorter than the capacity only if it is all of it.

`CacheProofs`, for any number of keys, shards, clients and refreshers and any
timing parameters (assumption: `CacheAssumption`):

* `TypeCorrect`: types, every shard `Sound`.
* `InflightCorrect`: `InflightExact` is invariant. It is inductive together
  with the types; the argument goes by what an action does to a task: a client's
  step, a refresher's step that keeps its key, a spawn, an end.
* `StalenessCorrect` and `FlushCorrect`: `BoundedStaleness` and `FlushBarrier`
  are invariant. Neither is inductive: a reply's age depends on when its answer
  was asked for, stored and looked up. `Dated` says this of every entry of every
  shard, of every task and of every reply: an entry was stored at or after its
  shard's last flush and at most one pipeline's time after it was asked for, a
  task that fetches is within its time, and a hit or a reply was within its
  entry's limits when it was looked up. The lemma `InsertKeeps` of
  `ShardLemmas` (what a shard holds after an insert was there before or is the
  new entry) carries it over a store.

`FallbackProofs`, for any upstreams, both modes and any times (assumption:
`FallbackAssumption`): the seven invariants of `Fallback`.

* `TypeCorrect`, `BackupCorrect`, `StandbyCorrect`, `WinnerCorrect`,
  `UsableCorrect`, `StoresCorrect`, `DropCorrect`: `TypeOK`,
  `BackupIsLastResort`, `StandbyInTime`, `OnlyWinnerShows`,
  `UsableBeatsFailure`, `StoresOwnWork`, `NoOrphans`.

  The inductive invariant has three parts. `BranchInv`: what the context, the
  exchanges and the cache of a branch may be at each of its program counters, in
  particular that every upstream it no longer awaits failed, and that what it
  ends with is its own. `RaceInv`: who may still run, and that a primary out of
  the race failed or had its window. `CtxInv`: the request's context is its own
  until a branch is absorbed and that branch's afterwards. A poll runs both
  branches and may decide the race in one step; the proof follows it through the
  intermediate states (`Sound`, `GivenUp`). The invariant was checked by TLC on
  `MCFallback`'s instance first.

`UpstreamProofs`, for any calls, queries, addresses, pool and times (assumption:
`UpstreamAssumption`: among others finitely many calls, a positive capacity, and
`None` neither a call nor a part of a query):

* `TypeCorrect`, `PoolCorrect`, `HolderCorrect`, `DestCorrect`,
  `BootstrapCorrect`: `TypeOK`, `PoolClean`, `OneHolder`, `DestAgreed` and
  `BootstrapPartial` are invariant.
* `ExchangeSafety`: an upstream implements the safety part of `Exchange` under
  the mapping of `Upstream!Promise`.

  `CallInv` is about one call: it holds a session in exactly three phases, and
  whatever it heard it heard from the server, for itself. `HolderInv` relates
  calls, pool and sessions: an open session is pooled or held, not both, by one
  holder; a held one carries at most the holder's own query or its answer; a
  pooled one carries nothing. That a session is put back only after its answer
  was read in full is what keeps the third from failing, and with it a call from
  reading the answer to another's query. `OneHolder` counts sessions: the held
  ones map injectively to running calls. For the refinement each action is
  shown to do to a call only what `Outcome` allows, and `Outcome` to be a step
  of `Exchange` or none.

  For the bootstrap, `BootInv` ties a call's two lookups together: which
  families have answered, that one of them is IPv4 as soon as A has answered,
  and how the lookups' deadline lies in the call's own. `Origin` says where an
  IPv6 destination comes from: some call found IPv6 addresses only and went on.
  Both need to know what `Dedup` and `SortByFamily` return; they are shown to
  keep the elements of a list and, in a list with an IPv4 address, to put one
  first.

`ConfigProofs`, first for `PluginGraph`, for any configurations and any limit
(assumption: `PluginGraphAssumption`, finitely many tags, the limit is positive
and configurations are functions from tags to plugins):

* `TypeCorrect`: the types, and a recursion of at most `MaxDepth` frames.
* `MemoCorrect`: `MemoRanksCalls` is invariant.
* `DepthCorrect`: `RequestDepthBounded` is invariant, the depth limit for
  configurations of every size.
* `VerdictCorrect`: the search implements the safety part of `ChainCheck`.

  The inductive invariant says of a frame that what it has followed is finished
  and shallower than its depth (`Stacked`), of a finished plugin that its depth
  lies within the limit (`Shallow`) and above that of its calls
  (`MemoRanksCalls`), of the whole that nothing is forgotten (`Covered`), and of
  a request that the depth of its i-th plugin is at most `MaxDepth + 1 - i`
  (`Falling`). The memo is what makes this necessary: that a plugin was once
  visited near the root says nothing of where it is called from next.

  The verdict of `ChainCheck` is defined by iterating a step on sets of nodes.
  What is reached no longer grows after as many rounds as there are nodes
  (`IterateSettles`). `Sound` are the nodes from which every chain ends, at
  something that exists: the least set that has every node whose references all
  are in it; an accepted search has put everything there. For a rejection the
  stack is shown to be a way through the graph (`Linked`) and every depth in it
  and in the memo that of a real chain (`Long`); the two make up `Deserved`.

Then for `ConfigLoad`, for any files, spellings and limit (assumption:
`ConfigLoadAssumption`, finitely many files, a positive limit):

* `MergeCorrect`: `MergedInOrder` is invariant.
* `IncludesCorrect`: loading implements the safety part of `ChainCheck`.

  `LoadInv` says of the frame at place i of the recursion that it has merged
  the text of its file up to the include it has come to, each include replaced
  by its text at depth `MaxIncludeDepth - i`; and that the includes it has come
  past are sound and start no chain that is too long. The first is what makes a
  merge in the order of the text, the second what an acceptance is worth:
  without a memo it is the recursion itself that has looked at everything.

`PipelineProofs`, for any names, rules, hosts, caches, queries and
configurations (assumption: `PipelineAssumption`):

* `TypeCorrect`, `RestoreCorrect`: `TypeOK` is invariant and `NeverRestored`
  holds of every step, in every configuration.
* `CachedCorrect`, `ReplyCorrect`: `CachedAnswersKey` and `ReplyAnswersClient`
  are invariant, in configurations that meet `RedirectsSettle`, with rules that
  lead nowhere twice (`RedirectsEnd`).
* `PrivacyCorrect`: `EcsPrivacy` is invariant in configurations that meet
  `EcsFirst`.
* `RefreshCorrect`: `RefreshFindsKey` is invariant in configurations that meet
  `ForwardsLast`.

  `Core` is the types, with what every answer in the context and every pending
  refresh is. Steps are sorted by what they do to the context (`StepKinds`):
  pass, answer, rewrite, attach or detach a subnet, mark, look up, end, time
  out, reject, call, resume. `Nesting` says which sequence a frame runs.

  `Paths` follows the names. A `Walk` is a list of aliases that leads from one
  name to another along the rules. The rewrites are a walk from the client's
  question to the query; an answer's chain is a walk to its owner; an entry
  found in a cache before the redirects are settled may be ahead of the query,
  and `Dest` says where the redirects still to come will take it. `Missing`
  then adds exactly the part of the walk that is not there yet, which is why a
  walk must not pass a name twice.

  `Subnets` says of the context, the pending writes and the entries that a
  response with a subnet belongs to a query or key with one, or is marked for
  stripping. What makes an `ecs` step safe after `hosts`, `reject` or a called
  sequence has answered is that the entry sequence has no write pending as long
  as it has come past no cache of its own (`Unkeyed`): nothing that gets a
  subnet later can be stored under a key without one.

  For the refreshes, `Now` is where a run is: program counter, frames, query
  and mark. Of a run without an answer `Move` tells the next `Now`, whatever the
  caches hold, unless the step asks an upstream or answers by itself
  (`NowMoves`). A run that has had no answer yet has come from its start by such
  moves (`Route`), or an upstream failed it and no lookup is left (`Over`). A
  hit therefore spawns a refresh with a route from the start to that lookup,
  and the refresh, which takes nothing from a cache, follows it (`Aimed`).

  What the conditions are for. Without `RedirectsSettle`, a redirect after
  `hosts` puts a false alias before the answer (the finding above), and so does
  an unconditional redirect after a cache that is used again by a sequence
  called later. With rules that go round (a to b before a cache, b to a after
  it) the missing aliases are taken for present. Without `EcsFirst`, an `ecs`
  after a cache has an answer with a subnet stored under a key without one,
  and so has a `no_ecs` between an answer and a cache. Without `ForwardsLast`,
  an upstream that failed a client and answers the refresh turns it away from a
  later cache that waits for `!has_resp`.

`ListenerProofs`, first for `TlsAccept` (assumption: `TlsAcceptAssumption`, in
particular finitely many peers): `RefusalCorrect`, the action property
`RefusedOnlyWhenBusy`, for any number of slots and peers. It rests on the
permits taken being exactly the handshakes not yet given up by their task
(`PermitsExact`), and on each connection being queued once (`Queued`). Then for
`Live` (assumption: `LiveAssumption`): `CurrentRules`, that
`QueryOnCurrentRules` is invariant for any configurations, listeners, sessions,
edits and signals. All runtimes ever current agree with `serve` on the service
(`OneService`), and what a session has seen never exceeds what it runs on
(`Remembered`).

With this every invariant and every safety property of a step that a run checks
is also proved. Loops over lists and iterated sets are recursive functions in
the models; since the prover cannot instantiate an induction rule, what they
compute is proved by looking at the least round that would differ (`Least`).

Only model-checked: liveness and fairness, which are out of the prover's reach.
These are `RefreshEnds`, `QueriesEnd`, `ReplacedReleased`, `LastReloadWins`,
`OneFailsAllStop`, `HonestServed`, and the promise to end of
`ImplementsExchange`, `ImplementsChainCheck` and `LoadImplementsChainCheck`.

## Plan

In order of weight; each item is a module with its run, then its theorems.

Done: `Shard`, `ShardLRU`, `Cache`, `Pipeline`, `Fallback`, `Exchange`,
`Upstream`, `ChainCheck`, `PluginGraph`, `ConfigLoad`, `Live`, `TlsAccept`, and
the proofs above.

1. An abstract specification of `Forward` and `Fallback` (the answer is that of
   the best branch within its window) and the refinement by `Fallback`.
2. `Console`: overlapping polls and the trend baseline.

## Not modelled

* Wire encoding, TLS, HTTP/2, sockets and YAML parsing: libraries and I/O.
* The parsing of addresses, ports, URLs, masks and host tables, and the
  arguments of plugins: pure functions of strings, with tests of their own.
* Suffix tries and IP sets: pure look-ups; steps' guards stand for them.
* The admin API beyond flush, the listener and `Live::get`: it formats JSON and
  checks headers. The counters of `metrics.rs` are relaxed and have no invariant
  that relates them.
* Logs, errors, the command line.
* The web console: its polls are in the plan, its rendering is not.

Parts the plan lists, or of which something is left out, are marked
`not_modelled` or `partly` in `PROJECT.json`.
