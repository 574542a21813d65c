----------------------------- MODULE MCAgentLoop -----------------------------
(* A small instance of AgentLoop: two clones, one of which may stop. *)
EXTENDS AgentLoop

CONSTANTS c1, c2, w1, w2, w3

MCClones == {c1, c2}
MCRunning == {c1}
MCWorkers == {w1, w2, w3}
MCAttempts == [beat |-> 1, verify |-> 1, fence |-> 2, release |-> 1]
MCHome == [w \in MCWorkers |-> IF w = w3 THEN c2 ELSE c1]
=============================================================================
