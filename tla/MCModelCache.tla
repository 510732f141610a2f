----------------------------- MODULE MCModelCache -----------------------------
(* Model-checking parameters for ModelCache. *)
EXTENDS ModelCache, TLC
=============================================================================
