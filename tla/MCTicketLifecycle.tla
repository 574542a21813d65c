------------------------- MODULE MCTicketLifecycle -------------------------
(* Small instances of TicketLifecycle. *)
EXTENDS TicketLifecycle, TLC

CONSTANTS t1, t2, u1, u2, p1, p2, a1, x1, x2

MCOneTicket == {t1}
MCTickets == {t1, t2}
MCNoTickets == {}
MCExternal == {t2}
MCStaff == {u1, u2}
MCPolicies == {p1, p2}
MCAmounts == {a1}
MCTxs == {x1, x2}
MCOneTx == {x1}

MCSymmetry == Permutations(MCTxs) \union Permutations(MCStaff)
=============================================================================
