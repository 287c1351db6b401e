--------------------------- MODULE MC_RateLimitInv ---------------------------
(***************************************************************************)
(* The inductive invariant of RateLimit_proofs, model-checked on the       *)
(* instance of MC_RateLimit before it is proved.                           *)
(***************************************************************************)
EXTENDS MC_RateLimit, RateLimit_proofs
=============================================================================
