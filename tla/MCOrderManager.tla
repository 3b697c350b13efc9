---------------------------- MODULE MCOrderManager ----------------------------
(* Small instances of the order managers for TLC. *)
EXTENDS OrderManager, TLC

CONSTANTS o1, o2, x1, x2

BinanceAndHyperliquid == [x \in Exchanges |-> IF x = x1 THEN "binance" ELSE "hyperliquid"]
Htx == [x \in Exchanges |-> "htx"]

Symmetry == Permutations(Orders) \cup Permutations(Clients)
=============================================================================
