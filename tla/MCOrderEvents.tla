--------------------------- MODULE MCOrderEvents ----------------------------
(* Orders may be exchanged with one another: only invariants are checked.    *)
EXTENDS OrderEvents, TLC

Exchangeable == Permutations(OrderId)
==============================================================================
