----------------------------- MODULE MCGuardrails -----------------------------
(* A small instance of the guardrails for TLC. *)
EXTENDS Guardrails

CONSTANTS x1, x2

\* A strict configuration and one that leaves everything to the defaults.
TwoConfigs == {[listed |-> {x1}, min |-> 1, max |-> 2, secs |-> 3],
               [listed |-> {x1}, min |-> 0, max |-> 0, secs |-> 0]}
=============================================================================
