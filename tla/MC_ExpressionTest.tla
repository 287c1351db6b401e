-------------------------- MODULE MC_ExpressionTest --------------------------
(* TLC instance: two contexts, two result texts, up to three test cases.   *)
EXTENDS ExpressionTest, TLC

MC_Ctxs == {"", "{\"x\":1}"}
MC_Values == {"1", "true"}
=============================================================================
