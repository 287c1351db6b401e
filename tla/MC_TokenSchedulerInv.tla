------------------------- MODULE MC_TokenSchedulerInv -------------------------
(***************************************************************************)
(* The inductive invariants of the proofs, model-checked on the process    *)
(* graphs of MC_TokenScheduler before they are proved.                     *)
(***************************************************************************)
EXTENDS MC_TokenScheduler, TokenScheduler_proofs
=============================================================================
