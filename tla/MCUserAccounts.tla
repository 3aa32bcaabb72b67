--------------------------- MODULE MCUserAccounts ---------------------------
(* A small instance of UserAccounts for TLC. *)
EXTENDS UserAccounts, TLC

\* Request slots are interchangeable.
Symmetry == Permutations(Requests)
=============================================================================
