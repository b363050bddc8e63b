------------------------------ MODULE Upstream ------------------------------
(***************************************************************************)
(* One upstream server and the calls of Upstream::exchange on it, each a   *)
(* task of its own.  The calls share the destination, resolved once, and   *)
(* for TCP and TLS a pool of idle sessions.  Around them the server        *)
(* answers, answers badly, or not, closes sessions; datagrams are lost,    *)
(* repeated and reordered; callers drop calls; time passes.                *)
(***************************************************************************)
EXTENDS Naturals, Sequences, SequencesExt, FiniteSets, FiniteSetsExt

CONSTANTS Tasks,      \* the calls of exchange
          Query,      \* Query[t]: the id and the question of t's query
          Setups,     \* the configurations: a transport, and how the server is
                      \*   named ("static" is an IP address or dial_addr)
          V4, V6,     \* IP addresses
          Found,      \* Found[fam]: what a lookup for fam may return
          Limit,      \* ticks a call has
          BootMax,    \* ticks a bootstrap query has at most (2 s)
          Idle,       \* ticks a session stays good in the pool
          Cap,        \* the sessions the pool holds (POOL_CAP, 8)
          Datagrams,  \* datagrams a call reads (4)
          MaxSent,    \* bound: datagrams the server sends to one call
          MaxTime     \* bound: the clock

None == "none"

ASSUME UpstreamAssumption ==
  /\ V4 \cap V6 = {} /\ V4 # {}
  /\ Found["A"] \subseteq Seq(V4) /\ Found["AAAA"] \subseteq Seq(V6)
  /\ Setups \subseteq {"udp", "tcp", "tls", "doh"} \X {"static", "bootstrap", "lookup"}
  /\ \A n \in {Limit, BootMax, Idle, MaxSent, MaxTime} : n \in Nat
  /\ Cap \in Nat \ {0} /\ Datagrams \in Nat \ {0} /\ IsFiniteSet(Tasks)
  /\ None \notin Tasks
  /\ \A t \in Tasks : Query[t].id # None /\ Query[t].question # None

Family == {"A", "AAAA"}

(* What comes back over a session, a socket or HTTP: `to` is the call the  *)
(* server answers, None when the message answers nobody (undecodable, the  *)
(* query echoed, another id, another question), tc the truncation bit.     *)
Msg == [to : Tasks \cup {None}, id : {Query[t].id : t \in Tasks} \cup {None},
        question : {Query[t].question : t \in Tasks} \cup {None}, tc : BOOLEAN]

NoMsg == [to |-> None, id |-> None, question |-> None, tc |-> FALSE]

Reply(t, tc) == [to |-> t, id |-> Query[t].id, question |-> Query[t].question, tc |-> tc]

(* Answers of a broken server: another id, another question, garbage. *)
Stray(t) == { [to |-> None, id |-> Query[t].id, question |-> None, tc |-> FALSE],
              [to |-> None, id |-> None, question |-> Query[t].question, tc |-> FALSE] }

Session == 1 .. (Cap + Cardinality(Tasks))

VARIABLES kind, given,  \* the upstream's transport, and how it is named
          now,          \* the clock
          dest,         \* the destinations: the OnceLock, or PinResolver's cache
          pool,         \* StreamPool::slots
          sess,         \* the sessions with the server
          call          \* the calls

vars == << kind, given, now, dest, pool, sess, call >>

Running == {"boot", "lookup", "ready", "udp", "dial", "handshake", "reuse", "fresh", "http"}
Ended == {"ok", "err"}

Call == [pc : {"idle"} \cup Running \cup Ended,
         due : Nat,                   \* when the call times out
         ips : Seq(V4 \cup V6),       \* the bootstrap's answers so far
         open : SUBSET Family,        \* lookups still running
         bdue : Nat,                  \* when they time out
         dest : Seq(V4 \cup V6),      \* the destination the call uses
         sess : Session \cup {0},     \* the session it holds
         took : Nat,                  \* history: how long that session had idled
         seen : Nat,                  \* datagrams read
         rx : SUBSET Msg,             \* datagrams that have arrived
         sent : Nat,                  \* datagrams sent to it
         reply : Msg,
         answered : BOOLEAN,          \* history: the server has answered it
         famOk : SUBSET Family]       \* history: lookups that found something

(* Every variable keeps its type; in particular the pool holds at most Cap *)
(* sessions.                                                               *)
TypeOK ==
  /\ << kind, given >> \in Setups /\ now \in 0 .. MaxTime
  /\ dest \in Seq(V4 \cup V6)
  /\ pool \in Seq([s : Session, since : Nat]) /\ Len(pool) <= Cap
  /\ sess \in [Session -> [state : {"free", "open", "closed"}, owed : Seq(Tasks),
                           inbuf : Seq(Msg)]]
  /\ call \in [Tasks -> Call]

Free == [state |-> "free", owed |-> << >>, inbuf |-> << >>]

(* Upstream::connect: the transport by the scheme, empty pools, no         *)
(* destination yet.                                                        *)
Init ==
  /\ \E setup \in Setups : kind = setup[1] /\ given = setup[2]
  /\ now = 0
  /\ dest = << >> /\ pool = << >>
  /\ sess = [s \in Session |-> Free]
  /\ call = [t \in Tasks |->
       [pc |-> "idle", due |-> 0, ips |-> << >>, open |-> {}, bdue |-> 0, dest |-> << >>,
        sess |-> 0, took |-> 0, seen |-> 0, rx |-> {}, sent |-> 0, reply |-> NoMsg,
        answered |-> FALSE, famOk |-> {}]]

(* A call is over: what it awaited is dropped. *)
End(c, how) == [c EXCEPT !.pc = how, !.sess = 0, !.took = 0, !.rx = {}, !.sent = 0, !.seen = 0,
                           !.due = 0, !.bdue = 0, !.ips = << >>]

-----------------------------------------------------------------------------
(* The destination. *)

(* Half of the call's time at most, and the 2 s of a bootstrap query. *)
Budget == IF Limit \div 2 < BootMax THEN Limit \div 2 ELSE BootMax

Unsorted(ips) == ips

(* The elements of s at the places in K, in order: a loop over s. *)
Kept(s, K) ==
  LET kept[i \in 0 .. Len(s)] == IF i = 0 THEN << >>
                                 ELSE IF i \in K THEN Append(kept[i - 1], s[i])
                                 ELSE kept[i - 1]
  IN  kept[Len(s)]

(* IPv4 first, the order within a family kept. *)
SortByFamily(ips) ==
  Kept(ips, {i \in 1 .. Len(ips) : ips[i] \in V4}) \o Kept(ips, {i \in 1 .. Len(ips) : ips[i] \in V6})

(* Of equal neighbours the first. *)
Dedup(ips) == Kept(ips, {i \in 1 .. Len(ips) : i = 1 \/ ips[i - 1] # ips[i]})

(* A call that has resolved d for itself, but found the slot filled. *)
KeepOwn(d) == IF kind = "doh" THEN d ELSE << d[1] >>

(* OnceLock::get_or_init: the first value stays and everybody gets it.     *)
(* The cache of a DoH client is overwritten by whoever resolves last.      *)
Settle(d) == IF kind = "doh" THEN d
             ELSE IF dest # << >> THEN dest ELSE << d[1] >>

StaticDest == << CHOOSE ip \in V4 : TRUE >>

Begin(t) ==
  /\ call[t].pc = "idle" /\ now + Limit <= MaxTime
  /\ \E c \in { [call[t] EXCEPT !.due = now + Limit] } :
       \/ /\ kind = "doh" /\ given = "lookup"  \* no resolver of our own
          /\ call' = [call EXCEPT ![t] = [c EXCEPT !.pc = "http"]]
          /\ UNCHANGED dest
       \/ /\ ~(kind = "doh" /\ given = "lookup") /\ dest # << >>
          /\ call' = [call EXCEPT ![t] = [c EXCEPT !.pc = "ready", !.dest = dest]]
          /\ UNCHANGED dest
       \/ /\ dest = << >> /\ given = "static"
          /\ call' = [call EXCEPT ![t] = [c EXCEPT !.pc = "ready", !.dest = StaticDest]]
          /\ dest' = IF kind = "doh" THEN dest ELSE StaticDest  \* pins are not cached
       \/ /\ dest = << >> /\ given = "bootstrap"
          /\ call' = [call EXCEPT ![t] = [c EXCEPT !.pc = "boot", !.open = Family,
                                                   !.bdue = now + Budget]]
          /\ UNCHANGED dest
       \/ /\ dest = << >> /\ given = "lookup" /\ kind # "doh"
          /\ call' = [call EXCEPT ![t] = [c EXCEPT !.pc = "lookup"]]
          /\ UNCHANGED dest
  /\ UNCHANGED << kind, given, now, pool, sess >>

(* bootstrap_ips: the lookup for fam ends with list, empty when it failed  *)
(* or timed out.  The second to end decides.                               *)
LookupEnds(t, fam, list) ==
  \E ips \in {call[t].ips \o list}, open \in {call[t].open \ {fam}} :
    \E c \in { [call[t] EXCEPT !.ips = ips, !.open = open,
                 !.famOk = IF list = << >> THEN @ ELSE @ \cup {fam}] } :
      \/ /\ open # {}
         /\ call' = [call EXCEPT ![t] = c]
         /\ UNCHANGED dest
      \/ /\ open = {} /\ ips = << >>
         /\ call' = [call EXCEPT ![t] = End(c, "err")]
         /\ UNCHANGED dest
      \/ /\ open = {} /\ ips # << >>
         /\ dest' = Settle(Dedup(SortByFamily(ips)))
         /\ call' = [call EXCEPT ![t] =
              [c EXCEPT !.pc = "ready", !.ips = << >>, !.dest = Settle(Dedup(SortByFamily(ips)))]]

BootAnswer(t, fam, list) ==
  /\ call[t].pc = "boot" /\ fam \in call[t].open
  /\ LookupEnds(t, fam, list)
  /\ UNCHANGED << kind, given, now, pool, sess >>

BootTimeout(t, fam) ==
  /\ call[t].pc = "boot" /\ fam \in call[t].open /\ now = call[t].bdue
  /\ LookupEnds(t, fam, << >>)
  /\ UNCHANGED << kind, given, now, pool, sess >>

(* resolve_target: the system's resolver, its first answer. *)
SystemLookup(t, list) ==
  /\ call[t].pc = "lookup"
  /\ \/ /\ list # << >>
        /\ dest' = Settle(list)
        /\ call' = [call EXCEPT ![t].pc = "ready", ![t].dest = Settle(list)]
     \/ /\ list = << >>
        /\ call' = [call EXCEPT ![t].pc = "err"]
        /\ UNCHANGED dest
  /\ UNCHANGED << kind, given, now, pool, sess >>

-----------------------------------------------------------------------------
(* Sessions and the pool.  Dropping a stream closes it: what the server    *)
(* still owed on it never arrives.                                         *)

Leak(ss, s) == ss

Drop(ss, s) == IF s = 0 THEN ss ELSE [ss EXCEPT ![s] = Free]

(* StreamPool::take: the newest sessions first; those that have idled too  *)
(* long are dropped on the way.                                            *)
Takeable(i) == now - pool[i].since < Idle

Taken == Max({0} \cup {i \in 1 .. Len(pool) : Takeable(i)})

PutUnbounded(s) ==
  /\ pool' = Append(pool, [s |-> s, since |-> now])
  /\ sess' = [sess EXCEPT ![s].inbuf = Tail(@)]

(* StreamPool::put: dropped when the pool is full. *)
Put(s) ==
  IF Len(pool) < Cap
  THEN /\ pool' = Append(pool, [s |-> s, since |-> now])
       /\ sess' = [sess EXCEPT ![s].inbuf = Tail(@)]
  ELSE /\ sess' = Drop(sess, s)
       /\ UNCHANGED pool

(* write_framed: the query reaches the server if it still listens. *)
Write(ss, s, t) == IF ss[s].state = "open" THEN [ss EXCEPT ![s].owed = Append(@, t)] ELSE ss

(* tcp_exchange_pooled and tls_exchange_pooled, up to the reply: a pooled  *)
(* session if there is one, else a new one.                                *)
UsePool(t) ==
  /\ call[t].pc = "ready" /\ kind \in {"tcp", "tls"}
  /\ \E dropped \in { {pool[i].s : i \in (Taken + 1) .. Len(pool)} } :
       \E ss \in { [s \in Session |-> IF s \in dropped THEN Free ELSE sess[s]] } :
         \/ /\ Taken # 0
            /\ call' = [call EXCEPT ![t].pc = "reuse", ![t].sess = pool[Taken].s,
                                    ![t].took = now - pool[Taken].since]
            /\ sess' = Write(ss, pool[Taken].s, t)
            /\ pool' = SubSeq(pool, 1, Taken - 1)
         \/ /\ Taken = 0
            /\ call' = [call EXCEPT ![t].pc = "dial"]
            /\ sess' = ss
            /\ pool' = << >>
  /\ UNCHANGED << kind, given, now, dest >>

(* TcpStream::connect; for TLS the handshake comes before the query. *)
Dial(t) ==
  /\ call[t].pc = "dial"
  /\ \E s \in { CHOOSE x \in Session : sess[x] = Free } :
       \E ss \in { [sess EXCEPT ![s].state = "open"] } :
         /\ sess' = IF kind = "tls" THEN ss ELSE Write(ss, s, t)
         /\ call' = [call EXCEPT ![t].pc = IF kind = "tls" THEN "handshake" ELSE "fresh",
                                 ![t].sess = s]
  /\ UNCHANGED << kind, given, now, dest, pool >>

Handshake(t) ==
  /\ call[t].pc = "handshake" /\ sess[call[t].sess].state = "open"
  /\ call' = [call EXCEPT ![t].pc = "fresh"]
  /\ sess' = Write(sess, call[t].sess, t)
  /\ UNCHANGED << kind, given, now, dest, pool >>

(* Whatever error the transport returns: nothing left to try. *)
ConnectFails(t) ==
  /\ call[t].pc \in {"dial", "handshake", "udp", "http"}
  /\ call' = [call EXCEPT ![t] = End(@, "err")]
  /\ sess' = Drop(sess, call[t].sess)
  /\ UNCHANGED << kind, given, now, dest, pool >>

TakeById(t, m) == m.id = Query[t].id

(* dnsutil::take_response. *)
TakeResponse(t, m) == m.id = Query[t].id /\ m.question = Query[t].question

(* The pooled session failed: it is dropped and a new one tried.  A new    *)
(* session that fails ends the call.                                       *)
FramedFails(t) ==
  /\ call' = [call EXCEPT ![t] = IF @.pc = "reuse" THEN [@ EXCEPT !.pc = "dial", !.sess = 0]
                                 ELSE End(@, "err")]
  /\ sess' = Drop(sess, call[t].sess)
  /\ UNCHANGED pool

(* read_framed: one message.  It ends the call when it answers the query   *)
(* and the session goes to the pool; the session a truncated datagram is   *)
(* retried on is not pooled, and must bring the whole answer.              *)
ReadFramed(t) ==
  /\ call[t].pc \in {"reuse", "fresh"} /\ sess[call[t].sess].inbuf # << >>
  /\ \E m \in { Head(sess[call[t].sess].inbuf) } :
       \/ ~TakeResponse(t, m) /\ FramedFails(t)
       \/ /\ TakeResponse(t, m) /\ kind # "udp"
          /\ call' = [call EXCEPT ![t] = [End(@, "ok") EXCEPT !.reply = m]]
          /\ Put(call[t].sess)
       \/ /\ TakeResponse(t, m) /\ kind = "udp"
          /\ call' = [call EXCEPT ![t] = IF m.tc THEN End(@, "err")
                                         ELSE [End(@, "ok") EXCEPT !.reply = m]]
          /\ sess' = Drop(sess, call[t].sess)
          /\ UNCHANGED pool
  /\ UNCHANGED << kind, given, now, dest >>

(* The write or the read fails on a session the server has closed. *)
ReadFails(t) ==
  /\ call[t].pc \in {"reuse", "fresh"} /\ sess[call[t].sess].state = "closed"
  /\ FramedFails(t)
  /\ UNCHANGED << kind, given, now, dest >>

-----------------------------------------------------------------------------
(* Datagrams, HTTP. *)

(* udp_exchange_addr sends; doh_exchange posts. *)
Send(t) ==
  /\ call[t].pc = "ready" /\ kind \in {"udp", "doh"}
  /\ call' = [call EXCEPT ![t].pc = IF kind = "udp" THEN "udp" ELSE "http"]
  /\ UNCHANGED << kind, given, now, dest, pool, sess >>

(* One datagram of at most Datagrams: skipped unless it answers the query; *)
(* a truncated answer is asked for again over TCP.                         *)
Recv(t, m) ==
  /\ call[t].pc = "udp" /\ m \in call[t].rx
  /\ call' = [call EXCEPT ![t] =
       IF ~TakeResponse(t, m)
       THEN IF @.seen + 1 = Datagrams THEN End(@, "err")
            ELSE [@ EXCEPT !.seen = call[t].seen + 1, !.rx = call[t].rx \ {m}]
       ELSE IF m.tc THEN [@ EXCEPT !.pc = "dial", !.rx = {}]
       ELSE [End(@, "ok") EXCEPT !.reply = m]]
  /\ UNCHANGED << kind, given, now, dest, pool, sess >>

(* doh_exchange: the body of the response; another status is an error. *)
HttpBody(t, m) ==
  /\ call[t].pc = "http" /\ m \in call[t].rx
  /\ call' = [call EXCEPT ![t] = IF TakeResponse(t, m) THEN [End(@, "ok") EXCEPT !.reply = m]
                                 ELSE End(@, "err")]
  /\ UNCHANGED << kind, given, now, dest, pool, sess >>

GiveUpPooled(t) ==
  /\ call' = [call EXCEPT ![t] = End(@, "err")]
  /\ pool' = IF call[t].sess # 0 THEN Append(pool, [s |-> call[t].sess, since |-> now]) ELSE pool
  /\ UNCHANGED << kind, given, now, dest, sess >>

-----------------------------------------------------------------------------
(* The end of a call from outside: its own timeout, or the caller drops it *)
(* (a race lost, a branch abandoned).  The session it held goes with it.   *)
GiveUp(t) ==
  /\ call' = [call EXCEPT ![t] = End(@, "err")]
  /\ sess' = Drop(sess, call[t].sess)
  /\ UNCHANGED << kind, given, now, dest, pool >>

Timeout(t) == call[t].pc \in Running /\ now = call[t].due /\ GiveUp(t)

Cancel(t) == call[t].pc \in Running /\ GiveUp(t)

-----------------------------------------------------------------------------
(* The server and the network. *)

(* A reply to a query; for a query over UDP, a whole one. *)
Answers(m) == m.to # None /\ (kind = "udp" => ~m.tc)

(* One answer to the oldest query of a session; it may be wrong. *)
ServeSession(s, m) ==
  /\ sess[s].state = "open" /\ sess[s].owed # << >>
  /\ m \in {Reply(Head(sess[s].owed), tc) : tc \in BOOLEAN} \cup Stray(Head(sess[s].owed))
  /\ sess' = [sess EXCEPT ![s].owed = Tail(@), ![s].inbuf = Append(@, m)]
  /\ call' = IF Answers(m) THEN [call EXCEPT ![m.to].answered = TRUE] ELSE call
  /\ UNCHANGED << kind, given, now, dest, pool >>

CloseSession(s) ==
  /\ sess[s].state = "open"
  /\ sess' = [sess EXCEPT ![s].state = "closed", ![s].owed = << >>]
  /\ UNCHANGED << kind, given, now, dest, pool, call >>

(* Any number of datagrams, in any order, or none; one HTTP response. *)
Serve(t, m) ==
  /\ \/ call[t].pc = "udp" /\ call[t].sent < MaxSent
     \/ call[t].pc = "http" /\ call[t].sent < 1
  /\ m \in {Reply(t, tc) : tc \in BOOLEAN} \cup Stray(t)
  /\ call' = [call EXCEPT ![t].rx = @ \cup {m}, ![t].sent = @ + 1,
                          ![t].answered = @ \/ Answers(m)]
  /\ UNCHANGED << kind, given, now, dest, pool, sess >>

(* Timers fire when they are due. *)
Tick ==
  /\ now < MaxTime
  /\ \A t \in Tasks : /\ call[t].pc \in Running => now < call[t].due
                      /\ call[t].pc = "boot" => now < call[t].bdue
  /\ now' = now + 1
  /\ UNCHANGED << kind, given, dest, pool, sess, call >>

Next ==
  \/ \E t \in Tasks :
       \/ Begin(t) \/ UsePool(t) \/ Dial(t) \/ Handshake(t) \/ ConnectFails(t)
       \/ ReadFramed(t) \/ ReadFails(t) \/ Send(t) \/ Timeout(t) \/ Cancel(t)
       \/ \E fam \in Family : \/ BootTimeout(t, fam)
                              \/ \E list \in Found[fam] : BootAnswer(t, fam, list)
       \/ \E list \in Found["A"] \cup Found["AAAA"] : SystemLookup(t, list)
       \/ \E m \in call[t].rx : Recv(t, m) \/ HttpBody(t, m)
       \/ \E m \in Msg : Serve(t, m)
  \/ \E s \in Session : CloseSession(s) \/ \E m \in Msg : ServeSession(s, m)
  \/ Tick

(* The clock goes on and the timer of a call fires; nothing is asked of    *)
(* the server, the network or the bootstrap.                               *)
Fairness ==
  /\ WF_vars(Tick)
  /\ \A t \in Tasks : WF_vars(Timeout(t))
  /\ \A t \in Tasks : \A fam \in Family : WF_vars(BootTimeout(t, fam))

Spec == Init /\ [][Next]_vars /\ Fairness

-----------------------------------------------------------------------------
(* Properties. *)

(* A pooled session is clean: every query sent on it has had its reply,    *)
(* and nothing is left unread that a later call could take for its own.    *)
(* And whoever takes one takes a fresh one, though the pool drops sessions *)
(* that have idled too long only when somebody takes from it.  Calls that  *)
(* fail, time out or are dropped never return their session                *)
(* (tcp_exchange_pooled puts after an Ok only).                            *)
PoolClean ==
  /\ \A i \in 1 .. Len(pool) : sess[pool[i].s].owed = << >> /\ sess[pool[i].s].inbuf = << >>
  /\ \A t \in Tasks : call[t].pc = "reuse" => call[t].took < Idle

(* An open session has one holder, the pool or a running call, so what is  *)
(* open is bounded by the pool's capacity and the calls under way, however *)
(* calls end (StreamPool::put, dropped futures).                           *)
OneHolder ==
  /\ \A s \in Session : sess[s] # Free =>
       Cardinality({t \in Tasks : call[t].sess = s}) +
         Cardinality({i \in 1 .. Len(pool) : pool[i].s = s}) = 1
  /\ Cardinality({s \in Session : sess[s] # Free}) <=
       Cap + Cardinality({t \in Tasks : call[t].pc \in Running})

(* All calls use one destination, even those that resolved the name at the *)
(* same time and got different addresses (cached_dest).                    *)
DestAgreed ==
  kind # "doh" => \A t \in Tasks : call[t].dest # << >> => call[t].dest = dest

(* A bootstrap makes the most of its answers: one family suffices, an IPv6 *)
(* destination means that whoever settled it had no IPv4 address           *)
(* (bootstrap_ips), and while it lasts at least half of the call's time is *)
(* left for the server itself (the comment in exchange_inner).             *)
BootstrapPartial ==
  given = "bootstrap" =>
    /\ \A t \in Tasks : call[t].pc = "err" /\ call[t].dest = << >> /\ call[t].open = {} =>
                          call[t].famOk = {}
    /\ dest # << >> /\ dest[1] \in V6 => \E t \in Tasks : call[t].famOk = {"AAAA"}
    /\ \A t \in Tasks : call[t].pc = "boot" => call[t].due - now >= Limit - Limit \div 2

(* Upstream::exchange is one exchange (module Exchange): every call ends,  *)
(* in an error or in the server's reply to its own query, never in a late  *)
(* or stray one, whatever the transport did on the way; over UDP never in  *)
(* a truncated one, which is asked for again over TCP.                     *)
Promise == INSTANCE Exchange WITH
  status <- [t \in Tasks |-> IF call[t].pc \in Running THEN "running" ELSE call[t].pc],
  answered <- [t \in Tasks |-> call[t].answered]

ImplementsExchange == Promise!Spec
=============================================================================
