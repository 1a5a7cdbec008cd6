--------------------------- MODULE MCX402Payments ---------------------------
(* X402Payments with every URL at one unit of the one asset.  Requests are   *)
(* told apart by what they do only.                                          *)
EXTENDS X402Payments, TLC

MCPrice == [k \in Keys |-> 1]
MCSymmetry == Permutations(Requests)
=============================================================================
