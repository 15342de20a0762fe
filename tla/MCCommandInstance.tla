------------------------- MODULE MCCommandInstance -------------------------
(* Two command instances of one definition "d1" (parameters {v1}; progress *)
(* and results {v0, v1}, v0 the empty ValueMap) plus an unknown name "u1". *)
EXTENDS CommandInstance

MCParamSchema == [d \in {"d1"} |-> {"v1"}]
MCProgressSchema == [d \in {"d1"} |-> {"v0", "v1"}]
MCResultsSchema == [d \in {"d1"} |-> {"v0", "v1"}]

=============================================================================
