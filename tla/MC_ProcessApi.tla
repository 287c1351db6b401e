----------------------------- MODULE MC_ProcessApi -----------------------------
(***************************************************************************)
(* Model-checking instance of ProcessApi.                                  *)
(***************************************************************************)
EXTENDS ProcessApi, TLC

\* The REST clients are interchangeable, and so are the instance ids.
ProcessSymmetry == Permutations(Clients) \cup Permutations(Ids)

=============================================================================
