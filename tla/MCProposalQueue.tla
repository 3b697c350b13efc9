--------------------------- MODULE MCProposalQueue ---------------------------
(* Instances of ProposalQueue for TLC. *)
EXTENDS ProposalQueue, TLC

Symmetry == Permutations(Handlers)
=============================================================================
