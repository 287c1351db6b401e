----------------------------- MODULE MC_RateLimit -----------------------------
(***************************************************************************)
(* Model-checking instances of RateLimit.                                  *)
(***************************************************************************)
EXTENDS RateLimit, TLC

\* Two API keys, one address, the API path, and the health and metrics
\* paths that the default configuration skips.
MCKeys == {"k1", "k2"}
MCPaths == {"/health", "/metrics", "/api"}

\* The request goroutines are interchangeable.
RequestSymmetry == Permutations(Requests)

=============================================================================
