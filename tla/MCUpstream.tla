----------------------------- MODULE MCUpstream -----------------------------
(* Two calls that ask the same question with the same id, the case in      *)
(* which a late reply would pass for an answer.                            *)
EXTENDS Upstream, TLC

CONSTANTS t1, t2, a1, a2, b1

MCQuery == [t \in Tasks |-> [id |-> "id1", question |-> "q1"]]

MCSetups ==
  { << "udp", "static" >>, << "tcp", "static" >>, << "tcp", "lookup" >>,
    << "tls", "bootstrap" >>, << "doh", "bootstrap" >>, << "doh", "static" >>,
    << "doh", "lookup" >> }

MCFound == [fam \in Family |-> {<< >>} \cup
              IF fam = "A" THEN { << a1 >>, << a2, a1 >> } ELSE { << b1 >> }]
=============================================================================
