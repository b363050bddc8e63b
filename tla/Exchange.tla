------------------------------ MODULE Exchange ------------------------------
(***************************************************************************)
(* What an upstream promises: every query given to exchange ends, once, in *)
(* an error or in a reply that the server sent to that very query.  How    *)
(* the server was reached (a datagram, a pooled session, a fresh one, a    *)
(* second try) does not show.                                              *)
(***************************************************************************)
CONSTANTS Tasks  \* the calls of exchange

VARIABLES status,   \* status[t]: where the call is
          answered  \* answered[t]: the server has answered the query of t

vars == << status, answered >>

Init == /\ status = [t \in Tasks |-> "idle"]
        /\ answered = [t \in Tasks |-> FALSE]

Begin(t) == /\ status[t] = "idle"
            /\ status' = [status EXCEPT ![t] = "running"]
            /\ UNCHANGED answered

(* The server answers the query of t; a second answer, and one that comes  *)
(* when the call has ended, change nothing.                                *)
Answer(t) == /\ status[t] # "idle"
             /\ answered' = [answered EXCEPT ![t] = TRUE]
             /\ UNCHANGED status

End(t) == /\ status[t] = "running"
          /\ \/ answered[t] /\ status' = [status EXCEPT ![t] = "ok"]
             \/ status' = [status EXCEPT ![t] = "err"]
          /\ UNCHANGED answered

Next == \E t \in Tasks : Begin(t) \/ Answer(t) \/ End(t)

(* What is promised of every prefix of a run: nothing ends in a reply that *)
(* the server did not send.                                                *)
Safety == Init /\ [][Next]_vars

Spec == Safety /\ \A t \in Tasks : WF_vars(End(t))
=============================================================================
