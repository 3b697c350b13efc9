--------------------------- MODULE MCAnalysisEngine ---------------------------
(* A small instance of the analysis engine for TLC. *)
EXTENDS AnalysisEngine, TLC

CONSTANTS s1, s2

Good == [symbol |-> s1, sound |-> TRUE, limit |-> TRUE, priced |-> TRUE,
         confidence |-> 80, tier |-> "low", storable |-> TRUE]

\* A good item, one the parser repairs but the table refuses, one for another symbol,
\* one the parser refuses.
FourItems == {Good,
              [Good EXCEPT !.confidence = 120, !.tier = "other", !.storable = FALSE],
              [Good EXCEPT !.symbol = s2, !.limit = FALSE, !.priced = FALSE],
              [Good EXCEPT !.priced = FALSE]}

EmptyOrOne == {{}, {s1}}
=============================================================================
