----------------------------- MODULE MCMlThreshold -----------------------------
(* Small instances of MlThreshold for TLC. *)
EXTENDS MlThreshold, TLC

\* Request slots are interchangeable.
Symmetry == Permutations(Requests)
=============================================================================
