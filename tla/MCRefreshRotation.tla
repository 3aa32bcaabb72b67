-------------------------- MODULE MCRefreshRotation --------------------------
(* Small instances of RefreshRotation for TLC. *)
EXTENDS RefreshRotation, TLC

\* Families, users and request slots are interchangeable: sound for the safety
\* runs, which check no liveness.
Symmetry == Permutations(Families) \cup Permutations(Users)
                \cup Permutations(Requests)
=============================================================================
