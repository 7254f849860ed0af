------------------------- MODULE MCTaintEngineCache -------------------------
(* Instances of TaintEngineCache for TLC. *)
EXTENDS TaintEngineCache, TLC

CallerSymmetry == Permutations(Callers)
=============================================================================
