---------------------------- MODULE MCDriftBaseline ----------------------------
(* Small instances of DriftBaseline for TLC. *)
EXTENDS DriftBaseline, TLC

\* Inodes and runs are interchangeable.
Symmetry ==
    Permutations(Inodes) \cup Permutations(Checkers) \cup Permutations(Refreshers)
=============================================================================
