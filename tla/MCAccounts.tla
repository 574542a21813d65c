------------------------------ MODULE MCAccounts ------------------------------
(* A small instance of Accounts: two administrators, room for a third *)
(* account, one custom role and two requests at a time.               *)
EXTENDS Accounts, TLC

CONSTANTS u1, u2, u3, q1, q2, t1, t2, agent

MCUsers == {u1, u2, u3}
MCFirstAdmins == {u1, u2}
MCCustomRoles == {agent}
MCRequests == {q1, q2}
MCTokens == {t1, t2}

Same == Permutations({u1, u2}) \union Permutations(MCRequests) \union Permutations(MCTokens)
=============================================================================
