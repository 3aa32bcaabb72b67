---------------------------- MODULE MCExplanations ----------------------------
(* A small instance of Explanations for TLC. *)
EXTENDS Explanations, TLC

\* Requests are interchangeable.
Symmetry == Permutations(Asked)
=============================================================================
