----------------------------- MODULE MC_ParserApi -----------------------------
(***************************************************************************)
(* Model-checking instances of ParserApi.                                  *)
(***************************************************************************)
EXTENDS ParserApi, TLC

\* The REST handler goroutines are interchangeable.
ClientSymmetry == Permutations(Clients)

=============================================================================
