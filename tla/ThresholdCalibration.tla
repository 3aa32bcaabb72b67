------------------------- MODULE ThresholdCalibration -------------------------
(***************************************************************************)
(* How the block threshold is chosen (waf_ml/threshold.py): the CLI reads a  *)
(* file of labelled scores row by row and takes the lowest threshold of a    *)
(* grid whose false-positive rate is within the budget.  The evaluation of a *)
(* model (waf_ml/eval.py) cuts the same kind of sample at a recall.  What    *)
(* the threshold is for is the comparison in the proxy (score.lua).          *)
(*                                                                         *)
(* Scores lie on the grid and half-way between its points: 2 * Steps stands  *)
(* for 1.0.  Rates are compared by cross-multiplication.                     *)
(***************************************************************************)
EXTENDS Integers, Sequences, FiniteSets

CONSTANTS
    Steps,    \* the grid has Steps + 1 points (201)
    MaxRows,  \* bound: rows of the file
    Parts,    \* budgets and recalls are counted in parts of this
    Budgets,  \* target_fpr, in parts; may be negative
    Recalls,  \* target recall, in parts
    Bad       \* a cell int() or float() refuses

ConstantsAssumption ==
    /\ Steps \in Nat \ {0}
    /\ MaxRows \in Nat
    /\ Parts \in Nat \ {0}
    /\ Budgets \subseteq Int
    /\ Recalls \subseteq 0..Parts
    /\ Bad \notin Int

Certain == 2 * Steps
Scores == 0..Certain
Grid == {2 * i : i \in 0..Steps}
Labels == {0, 1}

VARIABLES
    file,    \* rows read so far
    y, s,    \* the two lists of _load_scores_csv
    budget,  \* target_fpr of the calibration
    theta,   \* -1 before it; Certain + 1 when it raises
    recall,  \* target of the evaluation
    cut,     \* its threshold, -1 before
    fpr      \* false positives it reports at the cut

cvars == <<file, y, s, budget, theta, recall, cut, fpr>>
lists == <<file, y, s>>
chosen == <<budget, theta>>
evaluated == <<recall, cut, fpr>>

\* Rows of a label whose score passes the test.
Of(label) == {i \in DOMAIN y : y[i] = label}
At(label, th) == {i \in Of(label) : s[i] >= th}

Count(S) == Cardinality(S)
AtLeastOne(n) == IF n = 0 THEN 1 ELSE n

\* fprs[i] <= max(target_fpr, 0.0).
WithinBudget(th, b) ==
    Count(At(0, th)) * Parts <= (IF b > 0 THEN b ELSE 0) * AtLeastOne(Count(Of(0)))

Init ==
    /\ file = <<>> /\ y = <<>> /\ s = <<>>
    /\ budget = 0 /\ theta = -1
    /\ recall = 0 /\ cut = -1 /\ fpr = 0

-----------------------------------------------------------------------------
(* Reading *)

\* One turn of the loop of _load_scores_csv: the label is appended before the
\* score is parsed, so that a row whose score is bad leaves its label behind.
ReadRow(label, score) ==
    /\ theta = -1 /\ cut = -1
    /\ Len(file) < MaxRows
    /\ file' = Append(file, [label |-> label, score |-> score])
    /\ y' = IF label = Bad THEN y ELSE Append(y, label)
    /\ s' = IF Bad \in {label, score} THEN s ELSE Append(s, score)
    /\ UNCHANGED <<chosen, evaluated>>

-----------------------------------------------------------------------------
(* Choosing *)

\* calibrate raises on lists of different lengths and on empty ones.
Refused == Len(y) # Len(s) \/ Len(y) = 0

\* Mutated form of the choice below: the highest threshold within the budget.
ChoiceHighest(b, th) ==
    IF \E t \in Grid : WithinBudget(t, b)
    THEN WithinBudget(th, b) /\ \A t \in Grid : WithinBudget(t, b) => t <= th
    ELSE th = Certain

\* argmin over the valid points; argmax of the grid when there is none.
Choice(b, th) ==
    IF \E t \in Grid : WithinBudget(t, b)
    THEN WithinBudget(th, b) /\ \A t \in Grid : WithinBudget(t, b) => th <= t
    ELSE th = Certain

Calibrate(b) ==
    /\ theta = -1
    /\ ~Refused
    /\ budget' = b
    /\ theta' \in {th \in Grid : Choice(b, th)}
    /\ UNCHANGED <<lists, evaluated>>

Raise ==
    /\ theta = -1
    /\ Refused
    /\ theta' = Certain + 1
    /\ UNCHANGED <<lists, budget, evaluated>>

\* _fpr_at_recall: the walk down the sorted scores stops at the positive that
\* reaches the target.  Rows of one score come in any order, and those behind
\* the stop are not counted.
Reaches(th, t) == Count(At(1, th)) * Parts >= t * AtLeastOne(Count(Of(1)))

Evaluate(t) ==
    /\ cut = -1
    /\ ~Refused
    /\ recall' = t
    /\ IF \E i \in DOMAIN s : Reaches(s[i], t)
       THEN \E i \in DOMAIN s :
                /\ Reaches(s[i], t)
                /\ \A j \in DOMAIN s : Reaches(s[j], t) => s[j] <= s[i]
                /\ cut' = s[i]
                /\ fpr' \in Count(At(0, s[i] + 1))..Count(At(0, s[i]))
       ELSE /\ cut' = 0
            /\ fpr' = AtLeastOne(Count(Of(0)))
    /\ UNCHANGED <<lists, chosen>>

\* Mutated form of the gate below: no kill switch.
GateAlways(score) == score >= theta

\* score.lua, once the proxy has been given theta.
Gate(score) == theta < Certain /\ score >= theta

-----------------------------------------------------------------------------
Next ==
    \/ \E label \in Labels \cup {Bad}, score \in Scores \cup {Bad} : ReadRow(label, score)
    \/ \E b \in Budgets : Calibrate(b)
    \/ Raise
    \/ \E t \in Recalls : Evaluate(t)

Spec == Init /\ [][Next]_cvars

-----------------------------------------------------------------------------
(* Properties *)

Calibrated == theta \in Grid

\* Whole rows of the file, as the operator wrote them.
Rows(label) == {i \in DOMAIN file : file[i].label = label /\ file[i].score # Bad}
Blocked(label) == {i \in Rows(label) : Gate(file[i].score)}

\* A calibration that answers has put each score with the label of its row, and
\* the proxy blocks no more of the benign rows than the budget allows, also when
\* no threshold of the grid does and when a score is 1.0.
GateKeepsBudget ==
    Calibrated =>
        Count(Blocked(0)) * Parts <=
            (IF budget > 0 THEN budget ELSE 0) * AtLeastOne(Count(Rows(0)))

\* The two ways to pick a threshold agree: if the operator allows false positives
\* at all, and the cut the evaluation reports is below 1.0, on the grid and within
\* that budget, the proxy that uses the calibrated threshold catches at least the
\* recall the cut was made for.  A budget of 0 is left out: calibrate's docstring
\* has it never block.
BudgetBuysRecall ==
    /\ Calibrated
    /\ budget > 0
    /\ cut \in Grid \ {Certain}
    /\ WithinBudget(cut, budget)
    => Count(Blocked(1)) * Parts >= recall * Count(Rows(1))
=============================================================================
