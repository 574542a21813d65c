----------------------------- MODULE MCTicketIntake ----------------------------
(* A small instance of TicketIntake: three tickets, one door of each kind, one *)
(* catalog entry and two requests at a time.                                 *)
EXTENDS TicketIntake, TLC

CONSTANTS t1, t2, t3, n1, u1, b1, e1, q1, q2

MCTickets == {t1, t2, t3}
MCEntries == {e1}
MCEndorsements == {n1}
MCAccounts == {u1}
MCBatches == {b1}
MCRequests == {q1, q2}

Same == Permutations(MCTickets) \union Permutations(MCRequests)
=============================================================================
