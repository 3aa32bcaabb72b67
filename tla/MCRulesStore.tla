----------------------------- MODULE MCRulesStore -----------------------------
(* Small instances of RulesStore for TLC. *)
EXTENDS RulesStore, TLC

CONSTANTS a, b

\* Two keys in either order, and payloads that name one of them twice.
Imports == {<<a, b>>, <<b, a>>, <<a, b, a>>, <<a, a>>}

\* Ids and request slots are interchangeable; the keys are not (Imports).
Symmetry == Permutations(Ids) \cup Permutations(Requests)
=============================================================================
