----------------------------- MODULE MCMCPStdio -----------------------------
(* Model-checking parameters for MCPStdio. *)
EXTENDS MCPStdio, TLC
=============================================================================
