----------------------------- MODULE MCKlineCache -----------------------------
(* A small instance of the candle cache for TLC. *)
EXTENDS KlineCache, TLC

Symmetry == Permutations(Requests) \cup Permutations(Keys)
=============================================================================
