---------------------------- MODULE GateBenchmark ----------------------------
(***************************************************************************)
(* The benchmark (bench/run.py): it sends a corpus of benign probes and then *)
(* one of malicious probes to a gateway, one at a time, and fails when too   *)
(* many of the first are blocked or too many of the second are not.          *)
(*                                                                         *)
(* The budgets are counted in parts: 5 % and 30 % of the probes of a label.  *)
(***************************************************************************)
EXTENDS Integers, Sequences, FiniteSets

CONSTANTS
    MaxProbes,   \* bound: probes of a corpus
    Warmup,      \* probes dropped from the front
    BenchParts,  \* what the budgets are parts of
    FprBudget,   \* 0.05, in parts
    FnrBudget    \* 0.30, in parts

ConstantsAssumption ==
    /\ MaxProbes \in Nat /\ Warmup \in Nat
    /\ BenchParts \in Nat \ {0}
    /\ FprBudget \in 0..BenchParts /\ FnrBudget \in 0..BenchParts

Benign == 0
Malicious == 1
Outcomes == {"403", "other", "error"}

VARIABLES
    probes,   \* labels of the probes still to send
    results,  \* [label, blocked, error] of those that were sent
    target,   \* "up" or "down"
    verdict,  \* "none", "ok" (exit 0) or "breach" (exit 2)
    denied    \* history: malicious probes that were answered 403

bvars == <<probes, results, target, verdict, denied>>

Corpus(benign, malicious) ==
    [i \in 1..(benign + malicious) |-> IF i <= benign THEN Benign ELSE Malicious]

\* run_bench: both corpora, less the first Warmup probes.
Init ==
    /\ \E benign, malicious \in 0..MaxProbes :
          probes = SubSeq(Corpus(benign, malicious), Warmup + 1, benign + malicious)
    /\ results = <<>>
    /\ target \in {"up", "down"}
    /\ verdict = "none"
    /\ denied = 0

\* Mutated form of the operator below: whatever is not a 2xx or 3xx is a block.
BlockedUnlessOk(outcome) == outcome \in {"403", "error"}

\* _fire: "403 is the protective contract"; an error is not blocked.
Blocked403(outcome) == outcome = "403"

\* One turn of _run.
Fire(outcome) ==
    /\ probes # <<>>
    /\ target = "down" => outcome = "error"
    /\ probes' = Tail(probes)
    /\ results' = Append(results, [label |-> Head(probes), blocked |-> Blocked403(outcome)])
    /\ denied' = denied + (IF Head(probes) = Malicious /\ outcome = "403" THEN 1 ELSE 0)
    /\ UNCHANGED <<target, verdict>>

Outage ==
    /\ target = "up" /\ probes # <<>>
    /\ target' = "down"
    /\ UNCHANGED <<probes, results, verdict, denied>>

Picked(label, blocked) ==
    {i \in DOMAIN results : results[i] = [label |-> label, blocked |-> blocked]}
Amount(label, blocked) == Cardinality(Picked(label, blocked))
Measured(label) == Amount(label, TRUE) + Amount(label, FALSE)
Floored(n) == IF n = 0 THEN 1 ELSE n

\* _summarise and the exit code of main.
Breach ==
    \/ Amount(Benign, TRUE) * BenchParts > FprBudget * Floored(Measured(Benign))
    \/ Amount(Malicious, FALSE) * BenchParts > FnrBudget * Floored(Measured(Malicious))

Summarise ==
    /\ probes = <<>> /\ verdict = "none"
    /\ verdict' = IF Breach THEN "breach" ELSE "ok"
    /\ UNCHANGED <<probes, results, target, denied>>

Next ==
    \/ \E outcome \in Outcomes : Fire(outcome)
    \/ Outage
    \/ Summarise

Spec == Init /\ [][Next]_bvars

-----------------------------------------------------------------------------
(* Properties *)

\* A benchmark that passes has had 403 from at least 70 % of the attacks it
\* measured: a gateway that goes down on the way cannot pass with what is left,
\* because attacks come last and an error never counts as a block.
PassIsProtection ==
    verdict = "ok" =>
        denied * BenchParts >= (BenchParts - FnrBudget) * Measured(Malicious)
=============================================================================
