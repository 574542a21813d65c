-------------------------- MODULE MCCallbackDelivery --------------------------
(* Small instances of CallbackDelivery. *)
EXTENDS CallbackDelivery, TLC

CONSTANTS k1, k2, u1, u2

MCOneDelivery == {1}
MCTwoDeliveries == {1, 2}
MCOneTick == {k1}
MCTwoTicks == {k1, k2}
MCOneOperator == {u1}
MCTwoOperators == {u1, u2}
MCBackoff == <<1, 2>>
MCShortBackoff == <<1>>

MCSymmetry == Permutations(MCTwoTicks) \union Permutations(MCTwoOperators)
=============================================================================
