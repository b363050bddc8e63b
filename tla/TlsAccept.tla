------------------------------ MODULE TlsAccept -----------------------------
(***************************************************************************)
(* How TLS connections get in: the accept loop of spawn_tcp (DoT), which   *)
(* hands every connection to a task that holds one of MAX_TLS_HANDSHAKES   *)
(* permits during the handshake, and TlsIncoming::accept (DoH), which      *)
(* drives the handshakes itself.  Both refuse a connection when too many   *)
(* handshakes are under way.  Peers answer, or stall.                      *)
(***************************************************************************)
EXTENDS Naturals, Sequences, FiniteSets

CONSTANTS Modes,    \* the kinds of listener: among "dot" and "doh"
          Honest,   \* clients that complete the handshake in time and try
                    \*   again when refused
          Stalled,  \* peers that open a connection and say nothing, as often
                    \*   as they like
          Slots     \* MAX_TLS_HANDSHAKES, 128

Conn == Honest \cup Stalled

ASSUME TlsAcceptAssumption ==
  /\ Modes \subseteq {"dot", "doh"} /\ Honest \cap Stalled = {} /\ IsFiniteSet(Conn)
  /\ Slots \in Nat \ {0}

VARIABLES mode,     \* the listener's kind
          backlog,  \* connections the kernel has, not accepted yet
          conn,     \* where each client's connection is
          permits,  \* DoT: the permits taken
          asleep    \* DoH: the pause after an error of accept

tlsVars == << mode, backlog, conn, permits, asleep >>

In(states) == {c \in Conn : conn[c] \in states}

TlsInit ==
  /\ mode \in Modes
  /\ backlog = << >>
  /\ conn = [c \in Conn |-> "away"]
  /\ permits = 0 /\ asleep = FALSE

-----------------------------------------------------------------------------
(* Peers and the network. *)

Dial(c) ==
  /\ conn[c] = "away"
  /\ conn' = [conn EXCEPT ![c] = "queued"]
  /\ backlog' = Append(backlog, c)
  /\ UNCHANGED << mode, permits, asleep >>

(* The last message of the handshake is there; the peer has hung up. *)
Completes(c) ==
  /\ c \in Honest /\ conn[c] = "shake"
  /\ conn' = [conn EXCEPT ![c] = "ready"]
  /\ UNCHANGED << mode, backlog, permits, asleep >>

HangsUp(c) ==
  /\ c \in Stalled /\ conn[c] = "shake"
  /\ conn' = [conn EXCEPT ![c] = "broken"]
  /\ UNCHANGED << mode, backlog, permits, asleep >>

(* The handshake's own timeout. *)
TimesOut(c) ==
  /\ c \in Stalled /\ conn[c] = "shake"
  /\ conn' = [conn EXCEPT ![c] = "broken"]
  /\ UNCHANGED << mode, backlog, permits, asleep >>

-----------------------------------------------------------------------------
(* spawn_tcp. *)

AcceptDot ==
  /\ mode = "dot" /\ backlog # << >>
  /\ backlog' = Tail(backlog)
  /\ IF permits < Slots
     THEN permits' = permits + 1 /\ conn' = [conn EXCEPT ![Head(backlog)] = "shake"]
     ELSE conn' = [conn EXCEPT ![Head(backlog)] = "away"] /\ UNCHANGED permits
  /\ UNCHANGED << mode, asleep >>

(* The permit given back on the way to the session only. *)
LeakOnError(c) == IF conn[c] = "broken" THEN permits ELSE permits - 1

ReleasePermit(c) == permits - 1

(* The task of a connection goes on when its handshake has ended; the      *)
(* permit is dropped before the session is served, or with the task.       *)
RunDot(c) ==
  /\ mode = "dot" /\ conn[c] \in {"ready", "broken"}
  /\ permits' = ReleasePermit(c)
  /\ conn' = [conn EXCEPT ![c] = IF @ = "ready" THEN "up" ELSE "away"]
  /\ UNCHANGED << mode, backlog, asleep >>

-----------------------------------------------------------------------------
(* TlsIncoming::accept. *)

(* A finished handshake is taken from the set: a connection to return, or  *)
(* an error to log.                                                        *)
Drain(c) ==
  /\ mode = "doh" /\ ~asleep /\ conn[c] \in {"ready", "broken"}
  /\ conn' = [conn EXCEPT ![c] = IF @ = "ready" THEN "up" ELSE "away"]
  /\ UNCHANGED << mode, backlog, permits, asleep >>

(* select! without `biased`: any branch that is ready. *)
Unbiased == TRUE

(* select! is biased: sockets are admitted when no handshake has ended.    *)
(* One poll of the select, handshakes.next() first, then accept with the   *)
(* test of len(), is one step, so "ended" means ended when the poll began:  *)
(* a handshake whose last message arrives between the two is one that ends *)
(* just after the step.                                                    *)
Drained == In({"ready", "broken"}) = {}

AdmitDoh ==
  /\ mode = "doh" /\ ~asleep /\ backlog # << >> /\ Drained
  /\ backlog' = Tail(backlog)
  /\ conn' = [conn EXCEPT ![Head(backlog)] =
                IF Cardinality(In({"shake", "ready", "broken"})) >= Slots THEN "away"
                ELSE "shake"]
  /\ UNCHANGED << mode, permits, asleep >>

(* accept fails: DoH sleeps, and drives no handshake meanwhile; DoT just   *)
(* tries again.                                                            *)
AcceptFails ==
  /\ mode = "doh" /\ ~asleep /\ Drained
  /\ asleep' = TRUE
  /\ UNCHANGED << mode, backlog, conn, permits >>

Wake ==
  /\ asleep
  /\ asleep' = FALSE
  /\ UNCHANGED << mode, backlog, conn, permits >>

Loop == AcceptDot \/ AdmitDoh \/ Wake \/ \E c \in Conn : RunDot(c) \/ Drain(c)

TlsNext ==
  \/ Loop \/ AcceptFails
  \/ \E c \in Conn : Dial(c) \/ Completes(c) \/ HangsUp(c) \/ TimesOut(c)

(* The loop and the tasks run, timers fire, honest clients do their part.  *)
(* Nothing is asked of those that stall.                                   *)
TlsFairness ==
  /\ WF_tlsVars(AcceptDot) /\ WF_tlsVars(Wake)
  /\ WF_tlsVars(AdmitDoh \/ \E c \in Conn : Drain(c))
  /\ \A c \in Conn : WF_tlsVars(RunDot(c))
  /\ \A c \in Honest : WF_tlsVars(Dial(c)) /\ WF_tlsVars(Completes(c))
  /\ \A c \in Stalled : WF_tlsVars(TimesOut(c))

TlsSpec == TlsInit /\ [][TlsNext]_tlsVars /\ TlsFairness

-----------------------------------------------------------------------------
(* Properties. *)

(* A connection refused, and how many handshakes are under way then. *)
Refusal ==
  \A c \in Conn : conn[c] = "queued" /\ conn'[c] = "away" =>
    Cardinality(In(IF mode = "dot" THEN {"shake", "ready", "broken"} ELSE {"shake"})) >= Slots

(* A connection is refused only while Slots handshakes are really under    *)
(* way: established sessions take no slot, failed handshakes give theirs   *)
(* back, and for DoH a handshake that has ended is taken out before the    *)
(* next connection is looked at (spawn_tcp's permit, the biased select).   *)
RefusedOnlyWhenBusy == [][Refusal]_tlsVars

(* Whatever the peers do, a handshake that has been taken on ends and      *)
(* gives its slot back, an honest client's with the session up: stalled    *)
(* peers that come again and again, and an accept that keeps failing, do   *)
(* not keep the loop from the handshakes that have ended (the timeouts of  *)
(* spawn_tcp and TlsIncoming::accept, the biased select).                  *)
HandshakesEnd ==
  \A c \in Conn : (conn[c] = "shake") ~> (conn[c] = IF c \in Honest THEN "up" ELSE "away")

(* From some moment on the stalled peers open no connection and accept     *)
(* does not fail.  Nothing in the code sees to that: while stalled peers   *)
(* refill every slot that comes free, honest clients are refused.          *)
Calm == <>[](~asleep /\ \A c \in Stalled : conn[c] # "queued")

(* Honest clients are served.  Every handshake that was taken on ends, an  *)
(* honest one well, whatever peers do; and the listener recovers from a    *)
(* flood: once the stalled peers stop coming every honest client gets its  *)
(* connection, whatever slots, permits and queued sockets are left behind. *)
HonestServed ==
  /\ HandshakesEnd
  /\ Calm => \A c \in Honest : (conn[c] = "queued") ~> (conn[c] = "up")
=============================================================================
