--------------------------- MODULE MCHuifuIngestion ---------------------------
(* A small instance of HuifuIngestion: two contents about one complaint, *)
(* one row kept from the time when attachments were part of the digest.  *)
EXTENDS HuifuIngestion

CONSTANTS w1, w2, e1, e2, c1

MCRows == {1, 2, 3}
MCEvents == {e1, e2}
MCLegacy == [r \in {1} |-> e1]
MCComplaintOf == [e \in MCEvents |-> c1]
MCWorkers == {w1, w2}
=============================================================================
