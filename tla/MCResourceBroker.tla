--------------------------- MODULE MCResourceBroker ----------------------------
(* An instance of ResourceBroker for TLC *)
EXTENDS ResourceBroker, TLC

\* No query is told from another: every property is an invariant
QuerySymmetry == Permutations(Queries)
================================================================================
