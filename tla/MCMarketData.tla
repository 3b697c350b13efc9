----------------------------- MODULE MCMarketData -----------------------------
(* A small instance of the market data for TLC. *)
EXTENDS MarketData, TLC

Symmetry == Permutations(Exchanges) \cup Permutations(Symbols)
            \cup Permutations(Subscribers) \cup Permutations(Refreshers)
=============================================================================
