---------------------------- MODULE MCPaperAccount ----------------------------
(* Small instances of the paper account for TLC. *)
EXTENDS PaperAccount, TLC

Symmetry == Permutations(Clients)
=============================================================================
