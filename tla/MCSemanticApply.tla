---------------------------- MODULE MCSemanticApply ---------------------------
(* Instances of SemanticApply for TLC: candidates and workers are interchangeable. *)
EXTENDS SemanticApply, TLC

Interchangeable == Permutations(Candidates) \cup Permutations(Workers)

===============================================================================
