------------------------------ MODULE MCOpenApi ------------------------------
(* A small instance of OpenApi: one user may have two keys, calls *)
(* come from one address, a bucket holds two tokens.                    *)
EXTENDS OpenApi, TLC

CONSTANTS k1, k2, k3, u1, q1, q2, a1, c1, c2

MCKeys == {k1, k2, k3}
MCOwners == {u1}
MCRequests == {q1, q2}
MCAddresses == {a1}
MCCalls == {c1, c2}

Same == Permutations(MCKeys) \union Permutations(MCRequests) \union Permutations(MCCalls)
=============================================================================
