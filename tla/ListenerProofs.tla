--------------------------- MODULE ListenerProofs ---------------------------
(***************************************************************************)
(* Proofs about the listeners, for any number of clients: which TLS        *)
(* connections get in (module TlsAccept) and on which rules a query is     *)
(* answered (module Live).                                                 *)
(*                                                                         *)
(* TlsAccept.  Connections are refused only when all handshake slots are   *)
(* taken.  The inductive part is that the permits taken are exactly the    *)
(* handshakes whose task has not gone on yet, which needs that a           *)
(* connection waits in the backlog once at most and is not shaking hands   *)
(* then.                                                                   *)
(***************************************************************************)
EXTENDS Live, TlsAccept, SequenceTheorems, FiniteSetTheorems, TLAPS

States == {"away", "queued", "shake", "ready", "broken", "up"}

(* The handshakes that hold a slot. *)
Holding == {"shake", "ready", "broken"}

Types ==
  /\ mode \in {"dot", "doh"}
  /\ backlog \in Seq(Conn)
  /\ conn \in [Conn -> States]
  /\ permits \in Nat

Queued ==
  /\ \A i \in 1 .. Len(backlog) : conn[backlog[i]] = "queued"
  /\ \A i, j \in 1 .. Len(backlog) : i # j => backlog[i] # backlog[j]

PermitsExact == mode = "dot" => permits = Cardinality(In(Holding))

IInv == Types /\ Queued /\ PermitsExact

-----------------------------------------------------------------------------

(* Connection c goes to state t. *)
Goes(c, t) == conn' = [conn EXCEPT ![c] = t]

LEMMA GoesFacts ==
  ASSUME Types, NEW c \in Conn, NEW t \in States, Goes(c, t)
  PROVE  /\ conn' \in [Conn -> States] /\ conn'[c] = t
         /\ \A d \in Conn : d # c => conn'[d] = conn[d]
BY DEF Types, Goes

(* How the number of handshakes changes. *)
LEMMA HoldingCount ==
  ASSUME Types, NEW c \in Conn, NEW t \in States, Goes(c, t)
  PROVE  /\ Cardinality(In(Holding)) \in Nat
         /\ (conn[c] \in Holding <=> t \in Holding) => In(Holding)' = In(Holding)
         /\ conn[c] \notin Holding /\ t \in Holding =>
              Cardinality(In(Holding)') = Cardinality(In(Holding)) + 1
         /\ conn[c] \in Holding /\ t \notin Holding =>
              /\ Cardinality(In(Holding)') = Cardinality(In(Holding)) - 1
              /\ Cardinality(In(Holding)') \in Nat
<1>1. /\ conn'[c] = t /\ \A d \in Conn : d # c => conn'[d] = conn[d]
  BY GoesFacts
<1>2. IsFiniteSet(Conn) /\ In(Holding) \subseteq Conn
  BY TlsAcceptAssumption DEF In
<1>3. IsFiniteSet(In(Holding))
  BY <1>2, FS_Subset
<1>4. Cardinality(In(Holding)) \in Nat
  BY <1>3, FS_CardinalityType
<1>5. (conn[c] \in Holding <=> t \in Holding) => In(Holding)' = In(Holding)
  BY <1>1 DEF In
<1>6. ASSUME conn[c] \notin Holding, t \in Holding
      PROVE  Cardinality(In(Holding)') = Cardinality(In(Holding)) + 1
  <2>1. In(Holding)' = In(Holding) \cup {c} /\ c \notin In(Holding)
    BY <1>1, <1>6 DEF In
  <2> QED
    BY <1>3, <2>1, FS_AddElement
<1>7. ASSUME conn[c] \in Holding, t \notin Holding
      PROVE  /\ Cardinality(In(Holding)') = Cardinality(In(Holding)) - 1
             /\ Cardinality(In(Holding)') \in Nat
  <2>1. In(Holding)' = In(Holding) \ {c} /\ c \in In(Holding)
    BY <1>1, <1>7 DEF In
  <2>2. Cardinality(In(Holding)') = Cardinality(In(Holding)) - 1 /\ IsFiniteSet(In(Holding)')
    BY <1>3, <2>1, FS_RemoveElement
  <2> QED
    BY <2>2, FS_CardinalityType
<1> QED
  BY <1>4, <1>5, <1>6, <1>7

(* A connection that is not queued, before or after, does not disturb the  *)
(* backlog.                                                                *)
LEMMA QueuedKept ==
  ASSUME Types, Queued, NEW c \in Conn, NEW t \in States, Goes(c, t),
         conn[c] # "queued", UNCHANGED backlog
  PROVE  Queued'
<1>1. \A d \in Conn : d # c => conn'[d] = conn[d]
  BY GoesFacts
<1>2. \A i \in 1 .. Len(backlog) : backlog[i] \in Conn
  BY ElementOfSeq DEF Types
<1> QED
  BY <1>1, <1>2 DEF Queued

(* The first of the backlog is accepted, or refused. *)
LEMMA HeadLeaves ==
  ASSUME Types, Queued, backlog # << >>, NEW t \in States, Goes(Head(backlog), t),
         backlog' = Tail(backlog)
  PROVE  /\ Head(backlog) \in Conn /\ conn[Head(backlog)] = "queued"
         /\ backlog' \in Seq(Conn) /\ Queued'
<1>1. backlog \in Seq(Conn) /\ Len(backlog) \in Nat /\ Len(backlog) >= 1
  BY EmptySeq, LenProperties DEF Types
<1>2. Head(backlog) = backlog[1] /\ 1 \in 1 .. Len(backlog)
  BY <1>1
<1>3. Head(backlog) \in Conn /\ conn[Head(backlog)] = "queued"
  BY <1>1, <1>2, ElementOfSeq DEF Queued
<1>4. \A d \in Conn : d # Head(backlog) => conn'[d] = conn[d]
  BY <1>3, GoesFacts
<1>5. /\ backlog' \in Seq(Conn) /\ Len(backlog') = Len(backlog) - 1
      /\ \A i \in 1 .. Len(backlog') : backlog'[i] = backlog[i + 1]
  BY <1>1, HeadTailProperties
<1>6. ASSUME NEW i \in 1 .. Len(backlog')
      PROVE  i + 1 \in 1 .. Len(backlog) /\ i + 1 # 1 /\ backlog'[i] = backlog[i + 1]
  BY <1>1, <1>5
<1>7. \A i \in 1 .. Len(backlog') : conn'[backlog'[i]] = "queued"
  <2> SUFFICES ASSUME NEW i \in 1 .. Len(backlog') PROVE conn'[backlog'[i]] = "queued"
    OBVIOUS
  <2>1. backlog[i + 1] \in Conn /\ backlog[i + 1] # backlog[1] /\ conn[backlog[i + 1]] = "queued"
    BY <1>1, <1>2, <1>6, ElementOfSeq DEF Queued
  <2> QED
    BY <1>2, <1>4, <1>6, <2>1
<1>8. \A i, j \in 1 .. Len(backlog') : i # j => backlog'[i] # backlog'[j]
  <2> SUFFICES ASSUME NEW i \in 1 .. Len(backlog'), NEW j \in 1 .. Len(backlog'), i # j
               PROVE  backlog'[i] # backlog'[j]
    OBVIOUS
  <2>1. i + 1 # j + 1
    BY <1>1, <1>5
  <2> QED
    BY <1>6, <2>1 DEF Queued
<1> QED
  BY <1>3, <1>5, <1>7, <1>8 DEF Queued

LEMMA InitIInv == TlsInit => IInv
<1> SUFFICES ASSUME TlsInit PROVE IInv
  OBVIOUS
<1>1. Types
  BY TlsAcceptAssumption DEF TlsInit, Types, States
<1>2. Len(backlog) = 0
  BY DEF TlsInit
<1>3. In(Holding) = {}
  BY DEF TlsInit, In, Holding
<1>4. Cardinality(In(Holding)) = 0
  BY <1>3, FS_EmptySet
<1> QED
  BY <1>1, <1>2, <1>4 DEF IInv, Queued, PermitsExact, TlsInit

LEMMA ConnectKeeps ==
  ASSUME IInv, NEW c \in Conn, Dial(c)
  PROVE  IInv'
<1>1. Types /\ Queued /\ PermitsExact
  BY DEF IInv
<1>2. conn[c] = "away" /\ backlog' = Append(backlog, c) /\ UNCHANGED << mode, permits >>
  BY DEF Dial
<1>3. Goes(c, "queued") /\ "queued" \in States
  BY DEF Dial, Goes, States
<1>4. /\ conn' \in [Conn -> States] /\ conn'[c] = "queued"
      /\ \A d \in Conn : d # c => conn'[d] = conn[d]
  BY <1>1, <1>3, GoesFacts
<1>5. backlog \in Seq(Conn) /\ Len(backlog) \in Nat
  BY <1>1, LenProperties DEF Types
<1>6. /\ backlog' \in Seq(Conn) /\ Len(backlog') = Len(backlog) + 1
      /\ \A i \in 1 .. Len(backlog) : backlog'[i] = backlog[i]
      /\ backlog'[Len(backlog) + 1] = c
  BY <1>2, <1>5
<1>7. \A i \in 1 .. Len(backlog) : backlog[i] \in Conn /\ backlog[i] # c
  BY <1>1, <1>2, <1>5, ElementOfSeq DEF Queued
<1>8. Queued'
  BY <1>1, <1>4, <1>5, <1>6, <1>7 DEF Queued
<1>9. In(Holding)' = In(Holding)
  BY <1>1, <1>2, <1>3, HoldingCount DEF Holding
<1> QED
  BY <1>1, <1>2, <1>4, <1>6, <1>8, <1>9 DEF IInv, Types, PermitsExact

(* A handshake goes from one holding state to another. *)
LEMMA ShakeKeeps ==
  ASSUME IInv, NEW c \in Conn, Completes(c) \/ HangsUp(c) \/ TimesOut(c)
  PROVE  IInv'
<1>1. Types /\ Queued /\ PermitsExact
  BY DEF IInv
<1>2. conn[c] = "shake" /\ UNCHANGED << mode, backlog, permits >>
  BY DEF Completes, HangsUp, TimesOut
<1>3. PICK t \in {"ready", "broken"} : Goes(c, t)
  BY DEF Completes, HangsUp, TimesOut, Goes
<1>4. t \in States
  BY DEF States
<1>5. conn' \in [Conn -> States]
  BY <1>1, <1>3, <1>4, GoesFacts
<1>6. Queued'
  BY <1>1, <1>2, <1>3, <1>4, QueuedKept
<1>7. In(Holding)' = In(Holding)
  BY <1>1, <1>2, <1>3, <1>4, HoldingCount DEF Holding
<1> QED
  BY <1>1, <1>2, <1>5, <1>6, <1>7 DEF IInv, Types, PermitsExact

LEMMA AcceptDotKeeps ==
  ASSUME IInv, AcceptDot
  PROVE  IInv' /\ Refusal
<1>1. Types /\ Queued /\ PermitsExact
  BY DEF IInv
<1>2. /\ mode = "dot" /\ backlog # << >> /\ backlog' = Tail(backlog) /\ UNCHANGED mode
      /\ permits = Cardinality(In(Holding)) /\ permits \in Nat /\ Slots \in Nat
  BY <1>1, TlsAcceptAssumption DEF AcceptDot, PermitsExact, Types
<1> DEFINE h == Head(backlog)
<1>3. CASE permits < Slots /\ permits' = permits + 1 /\ Goes(h, "shake")
  <2>1. "shake" \in States
    BY DEF States
  <2>2. h \in Conn /\ conn[h] = "queued" /\ backlog' \in Seq(Conn) /\ Queued'
    BY <1>1, <1>2, <1>3, <2>1, HeadLeaves
  <2>3. /\ conn' \in [Conn -> States] /\ conn'[h] = "shake"
        /\ \A d \in Conn : d # h => conn'[d] = conn[d]
    BY <1>1, <1>3, <2>1, <2>2, GoesFacts
  <2>4. permits' = Cardinality(In(Holding)')
    BY <1>1, <1>2, <1>3, <2>1, <2>2, HoldingCount DEF Holding
  <2>5. Refusal
    BY <2>3 DEF Refusal
  <2> QED
    BY <1>1, <1>2, <1>3, <2>2, <2>3, <2>4, <2>5 DEF IInv, Types, PermitsExact
<1>4. CASE ~(permits < Slots) /\ UNCHANGED permits /\ Goes(h, "away")
  <2>1. "away" \in States
    BY DEF States
  <2>2. h \in Conn /\ conn[h] = "queued" /\ backlog' \in Seq(Conn) /\ Queued'
    BY <1>1, <1>2, <1>4, <2>1, HeadLeaves
  <2>3. conn' \in [Conn -> States]
    BY <1>1, <1>4, <2>1, <2>2, GoesFacts
  <2>4. In(Holding)' = In(Holding)
    BY <1>1, <1>4, <2>1, <2>2, HoldingCount DEF Holding
  <2>5. Refusal
    BY <1>2, <1>4 DEF Refusal, Holding
  <2> QED
    BY <1>1, <1>2, <1>4, <2>2, <2>3, <2>4, <2>5 DEF IInv, Types, PermitsExact
<1> QED
  BY <1>3, <1>4 DEF AcceptDot, Goes

LEMMA RunDotKeeps ==
  ASSUME IInv, NEW c \in Conn, RunDot(c)
  PROVE  IInv'
<1>1. Types /\ Queued /\ PermitsExact
  BY DEF IInv
<1>2. /\ mode = "dot" /\ conn[c] \in {"ready", "broken"} /\ permits' = permits - 1
      /\ UNCHANGED << mode, backlog >>
  BY DEF RunDot, ReleasePermit
<1>3. PICK t \in {"up", "away"} : Goes(c, t)
  BY <1>1 DEF RunDot, Goes, Types
<1>4. t \in States
  BY DEF States
<1>5. conn' \in [Conn -> States]
  BY <1>1, <1>3, <1>4, GoesFacts
<1>6. Queued'
  BY <1>1, <1>2, <1>3, <1>4, QueuedKept
<1>7. permits' = Cardinality(In(Holding)') /\ permits' \in Nat
  BY <1>1, <1>2, <1>3, <1>4, HoldingCount DEF Holding, PermitsExact
<1> QED
  BY <1>1, <1>2, <1>5, <1>6, <1>7 DEF IInv, Types, PermitsExact

LEMMA DrainKeeps ==
  ASSUME IInv, NEW c \in Conn, Drain(c)
  PROVE  IInv'
<1>1. Types /\ Queued
  BY DEF IInv
<1>2. /\ mode = "doh" /\ conn[c] \in {"ready", "broken"}
      /\ UNCHANGED << mode, backlog, permits >>
  BY DEF Drain
<1>3. PICK t \in {"up", "away"} : Goes(c, t)
  BY <1>1 DEF Drain, Goes, Types
<1>4. t \in States
  BY DEF States
<1>5. conn' \in [Conn -> States]
  BY <1>1, <1>3, <1>4, GoesFacts
<1>6. Queued'
  BY <1>1, <1>2, <1>3, <1>4, QueuedKept
<1> QED
  BY <1>1, <1>2, <1>5, <1>6 DEF IInv, Types, PermitsExact

(* When nothing is left to drain, what counts against the limit are        *)
(* handshakes under way.                                                   *)
LEMMA AdmitDohKeeps ==
  ASSUME IInv, AdmitDoh
  PROVE  IInv' /\ Refusal
<1>1. Types /\ Queued
  BY DEF IInv
<1>2. /\ mode = "doh" /\ backlog # << >> /\ backlog' = Tail(backlog) /\ Drained
      /\ UNCHANGED << mode, permits >>
  BY DEF AdmitDoh
<1> DEFINE h == Head(backlog)
<1>3. PICK t \in {"away", "shake"} :
        Goes(h, t) /\ (t = "away" => Cardinality(In({"shake", "ready", "broken"})) >= Slots)
  BY DEF AdmitDoh, Goes
<1>4. t \in States
  BY DEF States
<1>5. h \in Conn /\ conn[h] = "queued" /\ backlog' \in Seq(Conn) /\ Queued'
  BY <1>1, <1>2, <1>3, <1>4, HeadLeaves
<1>6. /\ conn' \in [Conn -> States] /\ conn'[h] = t
      /\ \A d \in Conn : d # h => conn'[d] = conn[d]
  BY <1>1, <1>3, <1>4, <1>5, GoesFacts
<1>7. In({"shake", "ready", "broken"}) = In({"shake"})
  BY <1>2 DEF Drained, In
<1>8. Refusal
  BY <1>2, <1>3, <1>6, <1>7 DEF Refusal
<1> QED
  BY <1>1, <1>2, <1>5, <1>6, <1>8 DEF IInv, Types, PermitsExact

(* Steps that move no connection. *)
LEMMA StillKeeps ==
  ASSUME IInv, UNCHANGED << mode, backlog, conn, permits >>
  PROVE  IInv'
<1>1. In(Holding)' = In(Holding)
  BY DEF In
<1> QED
  BY <1>1 DEF IInv, Types, Queued, PermitsExact

LEMMA NextKeeps == IInv /\ [TlsNext]_tlsVars => IInv' /\ (Refusal \/ UNCHANGED tlsVars)
<1> SUFFICES ASSUME IInv, [TlsNext]_tlsVars PROVE IInv' /\ (Refusal \/ UNCHANGED tlsVars)
  OBVIOUS
<1>1. CASE AcceptDot
  BY <1>1, AcceptDotKeeps
<1>2. CASE AdmitDoh
  BY <1>2, AdmitDohKeeps
<1>3. CASE \E c \in Conn : RunDot(c) \/ Drain(c) \/ Dial(c) \/ Completes(c) \/ HangsUp(c) \/ TimesOut(c)
  <2>1. IInv'
    BY <1>3, RunDotKeeps, DrainKeeps, ConnectKeeps, ShakeKeeps
  <2>2. Refusal
    <3>1. PICK c \in Conn : RunDot(c) \/ Drain(c) \/ Dial(c) \/ Completes(c) \/ HangsUp(c) \/ TimesOut(c)
      BY <1>3
    <3>2. Types
      BY DEF IInv
    <3>3. /\ \A d \in Conn : d # c => conn'[d] = conn[d]
          /\ conn[c] # "queued"
      BY <3>1, <3>2 DEF Types, RunDot, Drain, Dial, Completes, HangsUp, TimesOut
    <3> QED
      BY <3>3 DEF Refusal
  <2> QED
    BY <2>1, <2>2
<1>4. CASE AcceptFails \/ Wake \/ UNCHANGED tlsVars
  <2>1. UNCHANGED << mode, backlog, conn, permits >>
    BY <1>4 DEF AcceptFails, Wake, tlsVars
  <2>2. Refusal
    BY <2>1 DEF Refusal
  <2> QED
    BY <2>1, <2>2, StillKeeps
<1> QED
  BY <1>1, <1>2, <1>3, <1>4 DEF TlsNext, Loop

(* For any number of slots and peers, DoT and DoH alike: whoever is turned *)
(* away finds all slots taken by handshakes under way (spawn_tcp,          *)
(* TlsIncoming::accept).                                                   *)
THEOREM RefusalCorrect == TlsSpec => RefusedOnlyWhenBusy
<1>1. TlsInit => IInv
  BY InitIInv
<1>2. IInv /\ [TlsNext]_tlsVars => IInv'
  BY NextKeeps
<1>3. IInv /\ [TlsNext]_tlsVars => [Refusal]_tlsVars
  BY NextKeeps
<1> QED
  BY <1>1, <1>2, <1>3, PTL DEF TlsSpec, RefusedOnlyWhenBusy

-----------------------------------------------------------------------------
(* Live.  Queries run on current rules, for every set of configurations,   *)
(* listeners and sessions and any number of edits and signals.  The        *)
(* property alone is not inductive: it needs that every runtime ever       *)
(* swapped in serves what the first one serves, whichever was current when *)
(* it was compared, and that a session knows no runtime that does not      *)
(* exist yet.                                                              *)

SessionRec == [pc : {"none", "open", "got", "run"}, seen : Nat, rt : Nat]

LiveTypes ==
  /\ disk \in Configs
  /\ loop.cfg \in Configs
  /\ rts \in Seq(Configs) /\ Len(rts) >= 1
  /\ session \in [Sessions -> SessionRec]

(* All runtimes, and serve, agree on listeners, API and log settings. *)
OneService ==
  /\ serve.service = First.service
  /\ \A i \in 1 .. Len(rts) : rts[i].service = First.service

(* What a session remembers has happened, and in this order. *)
Remembered ==
  \A s \in Sessions :
    /\ session[s].seen <= Len(rts)
    /\ session[s].pc = "run" => /\ session[s].rt \in 1 .. Len(rts)
                                /\ session[s].rt >= session[s].seen

LiveInv == LiveTypes /\ OneService /\ Remembered

-----------------------------------------------------------------------------

(* Steps that leave runtimes, serve and sessions alone. *)
LEMMA AloneKeeps ==
  ASSUME LiveInv, UNCHANGED << rts, session >>, serve'.service = serve.service,
         disk' \in Configs, loop'.cfg \in Configs
  PROVE  LiveInv'
BY DEF LiveInv, LiveTypes, OneService, Remembered

(* Session s moves on. *)
Moves(s, p, b, c) == session' = [session EXCEPT ![s] = At(p, b, c)]

(* Steps of one session. *)
LEMMA SessionKeeps ==
  ASSUME LiveInv, UNCHANGED << disk, loop, rts, serve >>,
         NEW s \in Sessions, NEW p \in {"none", "open", "got", "run"}, NEW b \in Nat, NEW c \in Nat,
         Moves(s, p, b, c),
         b <= Len(rts), p = "run" => c \in 1 .. Len(rts) /\ c >= b
  PROVE  LiveInv'
<1> DEFINE r == At(p, b, c)
<1>0. r \in SessionRec /\ r.pc = p /\ r.seen = b /\ r.rt = c
  BY DEF At, SessionRec
<1> HIDE DEF r
<1>1. session \in [Sessions -> SessionRec]
  BY DEF LiveInv, LiveTypes
<1>2. session' \in [Sessions -> SessionRec]
  BY <1>0, <1>1 DEF Moves, r
<1>3. \A t \in Sessions : session'[t] = IF t = s THEN r ELSE session[t]
  BY <1>1 DEF Moves, r
<1>4. LiveTypes'
  BY <1>2 DEF LiveInv, LiveTypes
<1>5. OneService'
  BY DEF LiveInv, OneService
<1>6. Remembered'
  BY <1>0, <1>3 DEF LiveInv, Remembered
<1> QED
  BY <1>4, <1>5, <1>6 DEF LiveInv

LEMMA InitLive ==
  ASSUME Init
  PROVE  LiveInv
<1>1. First \in Configs
  BY LiveAssumption
<1>2. rts \in Seq(Configs) /\ Len(rts) = 1 /\ rts[1] = First
  BY <1>1 DEF Init
<1>3. loop.cfg = First /\ serve.service = First.service /\ disk = First
  BY DEF Init, Idle
<1>4. NoSession \in SessionRec /\ NoSession.seen = 0 /\ NoSession.pc = "none"
  BY DEF NoSession, At, SessionRec
<1>5. session = [s \in Sessions |-> NoSession]
  BY DEF Init
<1>6. LiveTypes
  BY <1>1, <1>2, <1>3, <1>4, <1>5 DEF LiveTypes
<1>7. OneService
  BY <1>2, <1>3 DEF OneService
<1>8. Remembered
  BY <1>2, <1>4, <1>5 DEF Remembered
<1> QED
  BY <1>6, <1>7, <1>8 DEF LiveInv

(* reload_file: only what serves the same is swapped in. *)
LEMMA SwapKeeps ==
  ASSUME LiveInv, SwapRuntime
  PROVE  LiveInv'
<1>1. LiveTypes /\ OneService /\ Remembered
  BY DEF LiveInv
<1> DEFINE n == Len(rts)
<1>2. n \in Nat /\ n >= 1 /\ rts \in Seq(Configs) /\ loop.cfg \in Configs
  BY <1>1, LenProperties DEF LiveTypes
<1>3. rts' = Append(rts, loop.cfg) /\ loop' = Idle /\ UNCHANGED << disk, serve, session >>
  BY DEF SwapRuntime, BackToWait, files, tasks
<1>4. loop.cfg.service = First.service
  BY <1>1, <1>2 DEF SwapRuntime, SameService, Current, OneService
<1>5. /\ rts' \in Seq(Configs) /\ Len(rts') = n + 1 /\ rts'[n + 1] = loop.cfg
      /\ \A i \in 1 .. n : rts'[i] = rts[i]
  BY <1>2, <1>3
<1> HIDE DEF n
<1>6. loop'.cfg \in Configs
  BY <1>3, LiveAssumption DEF Idle
<1>7. LiveTypes'
  BY <1>1, <1>2, <1>3, <1>5, <1>6 DEF LiveTypes
<1>8. \A i \in 1 .. n : rts[i].service = First.service
  BY <1>1 DEF OneService, n
<1>9. OneService'
  BY <1>1, <1>2, <1>3, <1>4, <1>5, <1>8 DEF OneService
<1>10. Remembered'
  <2>1. \A s \in Sessions : session[s].seen \in Nat /\ session[s].rt \in Nat
    BY <1>1 DEF LiveTypes, SessionRec
  <2> QED
    BY <1>1, <1>2, <1>3, <1>5, <2>1 DEF Remembered, n
<1> QED
  BY <1>7, <1>9, <1>10 DEF LiveInv

(* The steps of a session, each with the record it leaves. *)
LEMMA SessionStepsKeep ==
  ASSUME LiveInv, NEW s \in Sessions,
         Connect(s) \/ ReadQuery(s) \/ Handle(s) \/ Answer(s) \/ Close(s)
  PROVE  LiveInv'
<1>1. session[s] \in SessionRec /\ Len(rts) \in Nat /\ Len(rts) >= 1
  BY LenProperties DEF LiveInv, LiveTypes
<1>2. session[s].seen \in Nat /\ session[s].seen <= Len(rts)
  BY <1>1 DEF SessionRec, LiveInv, Remembered
<1>3. UNCHANGED << disk, loop, rts, serve >>
  BY DEF Connect, ReadQuery, Handle, Answer, Close, files
<1>4. CASE Connect(s) \/ Answer(s)
  <2>1. Moves(s, "open", 0, 0)
    BY <1>4 DEF Moves, Connect, Answer
  <2> QED
    BY <1>1, <1>3, <2>1, SessionKeeps
<1>5. CASE ReadQuery(s)
  <2>1. Moves(s, "got", Len(rts), 0)
    BY <1>5 DEF Moves, ReadQuery, Current
  <2> QED
    BY <1>1, <1>3, <2>1, SessionKeeps
<1>6. CASE Handle(s)
  <2>1. Moves(s, "run", session[s].seen, Len(rts))
    BY <1>6 DEF Moves, Handle, Current
  <2> QED
    BY <1>1, <1>2, <1>3, <2>1, SessionKeeps
<1>7. CASE Close(s)
  <2>1. Moves(s, "none", 0, 0)
    BY <1>7 DEF Moves, Close, NoSession
  <2> QED
    BY <1>1, <1>3, <2>1, SessionKeeps
<1> QED
  BY <1>4, <1>5, <1>6, <1>7

(* Everything else leaves the runtimes and the sessions alone. *)
LEMMA OtherStepsKeep ==
  ASSUME LiveInv,
         \/ \E c \in Configs : Edit(c)
         \/ Hangup \/ Install \/ ReceiveHangup \/ LoadFile \/ RejectReload
         \/ RefuseServe \/ StartServe \/ ServeFails \/ Shutdown
         \/ \E l \in DOMAIN listener : ListenerFails(l) \/ \E o \in {"up", "dead"} : Bind(l, o)
         \/ \E s \in Sessions : KickRefresh(s)
         \/ PollRefresh \/ EndRefresh
         \/ UNCHANGED vars
  PROVE  LiveInv'
<1>1. disk \in Configs /\ loop.cfg \in Configs /\ First \in Configs
  BY LiveAssumption DEF LiveInv, LiveTypes
<1>2. rts[Len(rts)].service = First.service /\ serve.service = First.service
  BY LenProperties DEF LiveInv, LiveTypes, OneService
<1>3. UNCHANGED << rts, session >>
  BY DEF Edit, Hangup, Install, ReceiveHangup, LoadFile, RejectReload, RefuseServe,
         StartServe, ServeFails, Shutdown, ListenerFails, Bind, KickRefresh, PollRefresh, EndRefresh, vars, tasks
<1>4. disk' \in Configs
  BY <1>1 DEF Edit, Hangup, Install, ReceiveHangup, LoadFile, RejectReload, RefuseServe,
         StartServe, ServeFails, Shutdown, ListenerFails, Bind, KickRefresh, PollRefresh, EndRefresh, vars, files
<1>5. loop'.cfg \in Configs
  <2>1. CASE UNCHANGED loop
    BY <1>1, <2>1
  <2>2. CASE Install
    BY <1>1, <2>2 DEF Install, Idle
  <2>3. CASE ReceiveHangup
    BY <1>1, <2>3 DEF ReceiveHangup
  <2>4. CASE LoadFile
    BY <1>1, <2>4 DEF LoadFile
  <2>5. CASE RejectReload
    BY <1>1, <2>5 DEF RejectReload, BackToWait, Idle
  <2> QED
    BY <2>1, <2>2, <2>3, <2>4, <2>5 DEF Edit, Hangup, RefuseServe, StartServe, ServeFails,
       Shutdown, ListenerFails, Bind, KickRefresh, PollRefresh, EndRefresh, vars
<1>6. serve'.service = serve.service
  <2>1. CASE UNCHANGED serve
    BY <2>1
  <2>2. CASE StartServe
    BY <1>2, <2>2 DEF StartServe, CopySettings, Current
  <2>3. CASE RefuseServe \/ ServeFails \/ Shutdown
    BY <2>3 DEF RefuseServe, ServeFails, Shutdown, Gone
  <2> QED
    BY <2>1, <2>2, <2>3 DEF Edit, Hangup, Install, ReceiveHangup, LoadFile, RejectReload,
       ListenerFails, Bind, KickRefresh, PollRefresh, EndRefresh, vars
<1> QED
  BY <1>3, <1>4, <1>5, <1>6, AloneKeeps

LEMMA NextLive ==
  ASSUME LiveInv, [Next]_vars
  PROVE  LiveInv'
<1>1. CASE SwapRuntime
  BY <1>1, SwapKeeps
<1>2. CASE \E s \in Sessions : Connect(s) \/ ReadQuery(s) \/ Handle(s) \/ Answer(s) \/ Close(s)
  BY <1>2, SessionStepsKeep
<1> QED
  BY <1>1, <1>2, OtherStepsKeep DEF Next

(* For every history of reloads, accepted and refused, a query runs on     *)
(* rules no older than those in force when it was read, and on a runtime   *)
(* that serves what the listeners were started for.                        *)
THEOREM CurrentRules == Spec => []QueryOnCurrentRules
<1>1. Init => LiveInv
  BY InitLive
<1>2. LiveInv /\ [Next]_vars => LiveInv'
  BY NextLive
<1>3. LiveInv => QueryOnCurrentRules
  BY DEF LiveInv, LiveTypes, OneService, Remembered, QueryOnCurrentRules
<1> QED
  BY <1>1, <1>2, <1>3, PTL DEF Spec
=============================================================================
