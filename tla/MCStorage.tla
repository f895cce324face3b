----------------------------- MODULE MCStorage -----------------------------
(* Storage with interchangeable processes, sessions and IDs.               *)
EXTENDS Storage, TLC

Symmetry == Permutations(Procs) \cup Permutations(Values) \cup Permutations(Ids)
============================================================================
