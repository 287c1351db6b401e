------------------------------ MODULE MC_JobsApi ------------------------------
(***************************************************************************)
(* Model-checking instances of JobsApi: two REST handlers, two job keys.   *)
(***************************************************************************)
EXTENDS JobsApi, TLC

\* The two handlers are interchangeable.
ClientSymmetry == Permutations(Clients)

=============================================================================
