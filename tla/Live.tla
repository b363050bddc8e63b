-------------------------------- MODULE Live --------------------------------
(***************************************************************************)
(* The process: Live::serve with its listeners, the sessions that clients  *)
(* open through them, the loop that reloads the configuration on SIGHUP,   *)
(* and main, which waits for serve or for a signal to stop.  A runtime     *)
(* (plugins, rules, caches) lives as long as somebody holds it; the        *)
(* sessions take the current one anew for each query.                      *)
(***************************************************************************)
EXTENDS Naturals, Sequences

CONSTANTS Configs,    \* what the configuration file may contain
          First,      \* what it contains at the start
          Listeners,  \* the listeners a configuration may have, the API's too
          Sessions,   \* client connections; a datagram is one of one query
          MaxEdits,   \* bound: changes of the file
          MaxSignals  \* bound: SIGHUPs

(* A configuration is broken (unreadable, cyclic, a plugin that cannot be  *)
(* built) or not; `service` stands for its servers, API and log settings.  *)
Config == [broken : BOOLEAN, service : STRING, rules : STRING]

ASSUME LiveAssumption ==
  /\ Configs \subseteq Config /\ First \in Configs /\ ~First.broken
  /\ MaxEdits \in Nat /\ MaxSignals \in Nat

VARIABLES disk,      \* the file
          edits,     \* how often it has changed
          told,      \* history: a SIGHUP was sent since it last changed
          signals,   \* SIGHUPs sent
          hup,       \* a SIGHUP is pending: several merge into one
          loop,      \* reload_loop
          rts,       \* the runtimes swapped in so far; the last is current
          serve,     \* Live::serve
          listener,  \* the tasks of the first configuration's listeners
          session,   \* the session tasks
          refresh,   \* a background refresh of some cache
          proc       \* the process

vars == << disk, edits, told, signals, hup, loop, rts, serve, listener, session, refresh, proc >>
files == << disk, edits, told, signals >>
tasks == << listener, session, refresh >>

Current == Len(rts)

(* Who keeps runtime i: the lock, serve, a query, a refresh under way. *)
Held(i) ==
  \/ i = Current
  \/ serve.rt = i
  \/ \E s \in Sessions : session[s].pc = "run" /\ session[s].rt = i
  \/ refresh.pc = "run" /\ refresh.rt = i

Idle == [pc |-> "wait", cfg |-> First]
At(pc, seen, rt) == [pc |-> pc, seen |-> seen, rt |-> rt]
NoSession == At("none", 0, 0)
NoRefresh == [pc |-> "none", rt |-> 0]

(* main, Start: the first configuration is built before anything runs. *)
Init ==
  /\ disk = First /\ edits = 0 /\ told = FALSE /\ signals = 0 /\ hup = FALSE
  /\ loop = [Idle EXCEPT !.pc = "install"]
  /\ rts = << First >>
  /\ serve = [pc |-> "start", service |-> First.service, rt |-> 0]
  /\ \E ls \in SUBSET Listeners : listener = [l \in ls |-> "off"]
  /\ session = [s \in Sessions |-> NoSession]
  /\ refresh = NoRefresh
  /\ proc = "run"

-----------------------------------------------------------------------------
(* The operator. *)

Edit(c) ==
  /\ proc = "run" /\ edits < MaxEdits /\ c # disk
  /\ disk' = c /\ edits' = edits + 1 /\ told' = FALSE
  /\ UNCHANGED << signals, hup, loop, rts, serve, tasks, proc >>

(* Without a handler, or before there is one, SIGHUP ends the process. *)
Hangup ==
  /\ proc = "run" /\ signals < MaxSignals
  /\ signals' = signals + 1 /\ told' = TRUE
  /\ \/ /\ loop.pc \in {"install", "gone"}
        /\ proc' = "killed" /\ listener' = [l \in DOMAIN listener |-> "dead"]
        /\ UNCHANGED hup
     \/ /\ loop.pc \notin {"install", "gone"}
        /\ hup' = TRUE
        /\ UNCHANGED << proc, listener >>
  /\ UNCHANGED << disk, edits, loop, rts, serve, session, refresh >>

-----------------------------------------------------------------------------
(* reload_loop and reload_file. *)

(* The handler is installed, or the loop returns. *)
Install ==
  /\ proc = "run" /\ loop.pc = "install"
  /\ loop' \in {Idle, [Idle EXCEPT !.pc = "gone"]}
  /\ UNCHANGED << files, hup, rts, serve, tasks, proc >>

ReceiveHangup ==
  /\ proc = "run" /\ loop.pc = "wait" /\ hup
  /\ hup' = FALSE
  /\ loop' = [loop EXCEPT !.pc = "load"]
  /\ UNCHANGED << files, rts, serve, tasks, proc >>

(* A loop that forgets what arrived while it was busy. *)
ForgetHangups == hup' = FALSE /\ loop' = Idle

BackToWait == loop' = Idle /\ UNCHANGED hup

(* Config::load_file; a file that cannot be loaded ends the attempt. *)
LoadFile ==
  /\ proc = "run" /\ loop.pc = "load"
  /\ loop' = [pc |-> "build", cfg |-> disk]
  /\ UNCHANGED << files, hup, rts, serve, tasks, proc >>

AnyService(cfg) == TRUE

(* The comparison of servers, API and log settings with the runtime that   *)
(* is current when the new one is ready.                                   *)
SameService(cfg) == cfg.service = rts[Current].service

(* Runtime::build has failed, or the new runtime is not acceptable: it is  *)
(* dropped.                                                                *)
RejectReload ==
  /\ proc = "run" /\ loop.pc = "build"
  /\ loop.cfg.broken \/ ~SameService(loop.cfg)
  /\ BackToWait
  /\ UNCHANGED << files, rts, serve, tasks, proc >>

SwapRuntime ==
  /\ proc = "run" /\ loop.pc = "build"
  /\ ~loop.cfg.broken /\ SameService(loop.cfg)
  /\ rts' = Append(rts, loop.cfg)
  /\ BackToWait
  /\ UNCHANGED << files, serve, tasks, proc >>

-----------------------------------------------------------------------------
(* Live::serve and main. *)

(* serve has returned or was dropped. *)
Gone == [pc |-> "gone", service |-> serve.service, rt |-> 0]

(* The snapshot kept instead of the settings copied from it. *)
HoldSnapshot == [pc |-> "up", service |-> rts[Current].service, rt |-> Current]

CopySettings == [pc |-> "up", service |-> rts[Current].service, rt |-> 0]

(* validate_service: a configuration without listeners and API serves      *)
(* nothing, and main returns the error.                                    *)
RefuseServe ==
  /\ proc = "run" /\ serve.pc = "start" /\ DOMAIN listener = {}
  /\ serve' = Gone
  /\ proc' = "failed"
  /\ UNCHANGED << files, hup, loop, rts, tasks >>

(* The listener settings are copied, the runtime is let go, and one task   *)
(* per listener is spawned.                                                *)
StartServe ==
  /\ proc = "run" /\ serve.pc = "start" /\ DOMAIN listener # {}
  /\ serve' = CopySettings
  /\ listener' = [l \in DOMAIN listener |-> "bind"]
  /\ UNCHANGED << files, hup, loop, rts, session, refresh, proc >>

(* spawn_listener: all sockets of a listener are bound, or it fails. *)
Bind(l, outcome) ==
  /\ proc = "run" /\ listener[l] = "bind"
  /\ listener' = [listener EXCEPT ![l] = outcome]
  /\ UNCHANGED << files, hup, loop, rts, serve, session, refresh, proc >>

(* A listener that was up returns or panics. *)
ListenerFails(l) ==
  /\ proc = "run" /\ listener[l] = "up"
  /\ listener' = [listener EXCEPT ![l] = "dead"]
  /\ UNCHANGED << files, hup, loop, rts, serve, session, refresh, proc >>

AllEnded == \A l \in DOMAIN listener : listener[l] = "dead"

(* JoinSet::join_next. *)
SomeEnded == \E l \in DOMAIN listener : listener[l] = "dead"

(* The first listener to end ends the service: the others are aborted and  *)
(* main returns the error.                                                 *)
ServeFails ==
  /\ proc = "run" /\ serve.pc = "up" /\ SomeEnded
  /\ listener' = [l \in DOMAIN listener |-> "dead"]
  /\ serve' = Gone
  /\ proc' = "failed"
  /\ UNCHANGED << files, hup, loop, rts, session, refresh >>

(* shutdown_signal: serve is dropped, and its JoinSet with it. *)
Shutdown ==
  /\ proc = "run"
  /\ listener' = [l \in DOMAIN listener |-> "dead"]
  /\ serve' = Gone
  /\ proc' = "stopped"
  /\ UNCHANGED << files, hup, loop, rts, session, refresh >>

-----------------------------------------------------------------------------
(* Sessions: serve_framed, and the task of a datagram. *)

Connect(s) ==
  /\ proc = "run" /\ session[s].pc = "none" /\ \E l \in DOMAIN listener : listener[l] = "up"
  /\ session' = [session EXCEPT ![s] = At("open", 0, 0)]
  /\ UNCHANGED << files, hup, loop, rts, serve, listener, refresh, proc >>

(* A query has been read; `seen` remembers the rules in force then. *)
ReadQuery(s) ==
  /\ proc = "run" /\ session[s].pc = "open"
  /\ session' = [session EXCEPT ![s] = At("got", Current, 0)]
  /\ UNCHANGED << files, hup, loop, rts, serve, listener, refresh, proc >>

(* live.get(), and the pipeline starts at the listener's entry. *)
Handle(s) ==
  /\ proc = "run" /\ session[s].pc = "got"
  /\ session' = [session EXCEPT ![s] = At("run", session[s].seen, Current)]
  /\ UNCHANGED << files, hup, loop, rts, serve, listener, refresh, proc >>

(* The reply is written, or handle timed out; the runtime is let go. *)
Answer(s) ==
  /\ proc = "run" /\ session[s].pc = "run"
  /\ session' = [session EXCEPT ![s] = At("open", 0, 0)]
  /\ UNCHANGED << files, hup, loop, rts, serve, listener, refresh, proc >>

(* End of stream, an error, or the idle timeout. *)
Close(s) ==
  /\ proc = "run" /\ session[s].pc = "open"
  /\ session' = [session EXCEPT ![s] = NoSession]
  /\ UNCHANGED << files, hup, loop, rts, serve, listener, refresh, proc >>

(* A lazy hit spawns a refresh, which knows its runtime by a Weak. *)
KickRefresh(s) ==
  /\ proc = "run" /\ session[s].pc = "run" /\ refresh.pc = "none"
  /\ refresh' = [pc |-> "spawned", rt |-> session[s].rt]
  /\ UNCHANGED << files, hup, loop, rts, serve, listener, session, proc >>

(* Weak::upgrade fails when nobody holds the runtime any more. *)
PollRefresh ==
  /\ proc = "run" /\ refresh.pc = "spawned"
  /\ refresh' = IF Held(refresh.rt) THEN [refresh EXCEPT !.pc = "run"] ELSE NoRefresh
  /\ UNCHANGED << files, hup, loop, rts, serve, listener, session, proc >>

EndRefresh ==
  /\ proc = "run" /\ refresh.pc = "run"
  /\ refresh' = NoRefresh
  /\ UNCHANGED << files, hup, loop, rts, serve, listener, session, proc >>

Next ==
  \/ \E c \in Configs : Edit(c)
  \/ Hangup \/ Install \/ ReceiveHangup \/ LoadFile \/ RejectReload \/ SwapRuntime
  \/ RefuseServe \/ StartServe \/ ServeFails \/ Shutdown
  \/ \E l \in DOMAIN listener : ListenerFails(l) \/ \E o \in {"up", "dead"} : Bind(l, o)
  \/ \E s \in Sessions : \/ Connect(s) \/ ReadQuery(s) \/ Handle(s) \/ Answer(s)
                         \/ Close(s) \/ KickRefresh(s)
  \/ PollRefresh \/ EndRefresh

(* Tasks that can run do, and a query ends at its timeout at the latest;   *)
(* nothing is asked of the operator, the clients or the listeners.         *)
Fairness ==
  /\ WF_vars(Install) /\ WF_vars(ReceiveHangup) /\ WF_vars(LoadFile)
  /\ WF_vars(RejectReload \/ SwapRuntime)
  /\ WF_vars(RefuseServe) /\ WF_vars(StartServe) /\ WF_vars(ServeFails)
  /\ \A s \in Sessions : WF_vars(Handle(s)) /\ WF_vars(Answer(s))
  /\ WF_vars(PollRefresh) /\ WF_vars(EndRefresh)

Spec == Init /\ [][Next]_vars /\ Fairness

-----------------------------------------------------------------------------
(* Properties. *)

(* A query runs on rules at least as new as those in force when it was     *)
(* read, on a connection of any age, and on a runtime that knows the entry *)
(* its listener was started with, because a reload that would change it is *)
(* refused (serve_framed, reload_file).                                    *)
QueryOnCurrentRules ==
  \A s \in Sessions : session[s].pc = "run" =>
    session[s].rt >= session[s].seen /\ rts[session[s].rt].service = serve.service

(* A runtime that was replaced is let go, with its caches and rules, once  *)
(* the queries and refreshes on it have ended (Live::serve's comment).     *)
ReplacedReleased ==
  \A i \in 1 .. MaxSignals : (i < Current) ~> (~Held(i) \/ proc # "run")

(* No SIGHUP is lost: once the operator has stopped, the rules in force    *)
(* are those of the file, or the file is one that must be refused.         *)
LastReloadWins ==
  <>[](told /\ proc = "run" => \/ rts[Current].rules = disk.rules
                               \/ disk.broken \/ disk.service # rts[Current].service)

(* One listener that fails or stops takes the whole service down: the      *)
(* process ends, with no listener left behind (Live::serve).               *)
OneFailsAllStop ==
  (\E l \in DOMAIN listener : listener[l] = "dead") ~> (proc # "run" /\ \A l \in DOMAIN listener : listener[l] # "up")
=============================================================================
