-------------------------- MODULE MCSharedConnection --------------------------
(* A small instance of the shared connection for TLC. *)
EXTENDS SharedConnection, TLC

Symmetry == Permutations(Clients) \cup Permutations(Assets) \cup Permutations(Sessions)
=============================================================================
