------------------------------ MODULE MCTrade -------------------------------
(* Instances of Trade for TLC. *)
EXTENDS Trade
=============================================================================
