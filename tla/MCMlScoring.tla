------------------------------ MODULE MCMlScoring ------------------------------
(* A small instance of MlScoring for TLC. *)
EXTENDS MlScoring, TLC

CONSTANTS v1, v2, plain, odd

\* v1 tells the two kinds of request apart, v2 fails on one of them.
Scores ==
    [v \in Versions |-> [k \in Keys |-> [e \in Rests |->
        CASE v = v1 /\ e = plain -> 0
          [] v = v1 /\ e = odd -> One
          [] v = v2 /\ e = plain -> 1
          [] OTHER -> None]]]

\* Requests in flight are interchangeable.
Symmetry == Permutations(Requests)
=============================================================================
