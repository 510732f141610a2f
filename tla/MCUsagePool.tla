----------------------------- MODULE MCUsagePool -----------------------------
(* Model-checking parameters for UsagePool: a session on each of two workers  *)
(* and a worker that may start late.                                          *)
EXTENDS UsagePool, TLC
CONSTANTS w1, w2, w3, s1, s2
HomeOf == s1 :> w1 @@ s2 :> w2
=============================================================================
