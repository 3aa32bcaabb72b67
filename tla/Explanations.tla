----------------------------- MODULE Explanations -----------------------------
(***************************************************************************)
(* POST /explain: which features drove a score.  The service's worker        *)
(* threads (main.py) share one optional TreeSHAP explainer behind a lock       *)
(* (shap_explainer.py) and fall back on weights times features; the panel      *)
(* (api/ml.py) waits 20 ms and checks the answer against a schema of its own.  *)
(* Of the numbers, only the method that gave them is kept.                     *)
(***************************************************************************)
EXTENDS Naturals

CONSTANTS
    Asked,  \* requests for an explanation in flight
    None

Estimators == {"lr", "xgb", "iforest"}  \* what train.py leaves behind

ConstantsAssumption == None \notin Estimators \cup Asked

Tree(e) == e \in {"xgb", "iforest"}

\* Method of weights times features.
WeightsOf(e) ==
    CASE e = "lr" -> "coef" [] e = "xgb" -> "feature_importances" [] OTHER -> "unsupported"

\* Methods ExplainResponse of the panel accepts; the service's also has "shap".
PanelMethods == {"coef", "feature_importances", "unsupported"}

\* A process: its model (whether it was trained on these feature columns),
\* ML_USE_SHAP, and whether shap can be imported.
Setups == [model : Estimators \cup {None}, fits : BOOLEAN, shap : BOOLEAN, installed : BOOLEAN]

VARIABLES
    setup,
    importFailed,  \* _IMPORT_FAILED
    explainer,     \* _EXPLAINER_CACHE holds one for the model
    holder,        \* who holds _LOCK
    built,         \* history: explainers this process has built
    stage,         \* where a request stands in the service
    scored,        \* its prob is a number
    reply,         \* its answer: a method, or "500"
    shown          \* what the panel answered: none, fallback, answer or 5xx

evars == <<setup, importFailed, explainer, holder, built, stage, scored, reply, shown>>
shared == <<setup, importFailed, explainer, holder, built>>

Go(r, to) == stage' = [stage EXCEPT ![r] = to]
Reply(r, m) == Go(r, "replied") /\ reply' = [reply EXCEPT ![r] = m]

Init ==
    /\ setup \in Setups
    /\ importFailed = FALSE /\ explainer = FALSE
    /\ holder = None /\ built = 0
    /\ stage = [r \in Asked |-> "idle"]
    /\ scored = [r \in Asked |-> FALSE]
    /\ reply = [r \in Asked |-> None]
    /\ shown = [r \in Asked |-> "none"]

-----------------------------------------------------------------------------
(* _explain_request *)

Arrive(r) ==
    /\ stage[r] = "idle"
    /\ Go(r, "begin")
    /\ shown' = [shown EXCEPT ![r] = "none"]
    /\ UNCHANGED <<shared, scored, reply>>

\* No model, or no features.
Unexplained(r) ==
    /\ stage[r] = "begin"
    /\ Reply(r, "unsupported")
    /\ scored' = [scored EXCEPT ![r] = FALSE]
    /\ UNCHANGED <<shared, shown>>

\* A failing prediction does not end the request, and one on other columns fails.
Predict(r) ==
    /\ stage[r] = "begin"
    /\ setup.model # None
    /\ \E ok \in IF setup.fits THEN BOOLEAN ELSE {FALSE} : scored' = [scored EXCEPT ![r] = ok]
    /\ Go(r, IF setup.shap /\ Tree(setup.model) THEN "import" ELSE "weights")
    /\ UNCHANGED <<shared, reply, shown>>

Import(r) ==
    /\ stage[r] = "import"
    /\ importFailed' = (importFailed \/ ~setup.installed)
    /\ Go(r, IF importFailed' THEN "weights" ELSE "lock")
    /\ UNCHANGED <<setup, explainer, holder, built, scored, reply, shown>>

\* Mutated form of the step below: there is no lock.
LockNot(r) ==
    /\ stage[r] = "lock"
    /\ holder' = r
    /\ Go(r, "locked")
    /\ UNCHANGED <<setup, importFailed, explainer, built, scored, reply, shown>>

Lock(r) ==
    /\ stage[r] = "lock"
    /\ holder = None
    /\ holder' = r
    /\ Go(r, "locked")
    /\ UNCHANGED <<setup, importFailed, explainer, built, scored, reply, shown>>

Cached(r) ==
    /\ stage[r] = "locked"
    /\ explainer
    /\ holder' = None
    /\ Go(r, "compute")
    /\ UNCHANGED <<setup, importFailed, explainer, built, scored, reply, shown>>

\* The cache has none, and TreeExplainer is called under the lock.
Miss(r) ==
    /\ stage[r] = "locked"
    /\ ~explainer
    /\ Go(r, "building")
    /\ UNCHANGED <<shared, scored, reply, shown>>

Build(r) ==
    /\ stage[r] = "building"
    /\ explainer' = TRUE
    /\ built' = built + 1
    /\ holder' = None
    /\ Go(r, "compute")
    /\ UNCHANGED <<setup, importFailed, scored, reply, shown>>

\* TreeExplainer raises on the model; the next request tries again.
BuildFails(r) ==
    /\ stage[r] = "building"
    /\ holder' = None
    /\ Go(r, "weights")
    /\ UNCHANGED <<setup, importFailed, explainer, built, scored, reply, shown>>

ShapValues(r) ==
    /\ stage[r] = "compute"
    /\ Reply(r, "shap")
    /\ UNCHANGED <<shared, scored, shown>>

\* shap_values raises, or has another shape.
ShapFails(r) ==
    /\ stage[r] = "compute"
    /\ Go(r, "weights")
    /\ UNCHANGED <<shared, scored, reply, shown>>

\* The length of the product is checked only after numpy has multiplied, which
\* raises on other columns.
Weights(r) ==
    /\ stage[r] = "weights"
    /\ LET method == WeightsOf(setup.model)
       IN  Reply(r, IF method # "unsupported" /\ ~setup.fits THEN "500" ELSE method)
    /\ UNCHANGED <<shared, scored, shown>>

-----------------------------------------------------------------------------
(* The panel *)

Checked(r) ==
    CASE reply[r] = "500" -> "fallback"
      [] reply[r] \in PanelMethods -> IF scored[r] THEN "answer" ELSE "fallback"
      [] OTHER -> "5xx"

\* An answer after the panel has given up is dropped.
Show(r) ==
    /\ stage[r] = "replied"
    /\ Go(r, "idle")
    /\ shown' = [shown EXCEPT ![r] = IF @ = "none" THEN Checked(r) ELSE @]
    /\ UNCHANGED <<shared, scored, reply>>

\* A timeout or a network error; the service goes on.
GiveUp(r) ==
    /\ stage[r] # "idle"
    /\ shown[r] = "none"
    /\ shown' = [shown EXCEPT ![r] = "fallback"]
    /\ UNCHANGED <<shared, stage, scored, reply>>

\* The service restarts with the model it finds; connections are cut.
Restart ==
    /\ \E m \in Estimators \cup {None} : setup' = [setup EXCEPT !.model = m]
    /\ importFailed' = FALSE /\ explainer' = FALSE
    /\ holder' = None /\ built' = 0
    /\ stage' = [r \in Asked |-> "idle"]
    /\ shown' = [r \in Asked |->
                    IF stage[r] # "idle" /\ shown[r] = "none" THEN "fallback" ELSE shown[r]]
    /\ UNCHANGED <<scored, reply>>

Explain(r) ==
    \/ Arrive(r) \/ Unexplained(r) \/ Predict(r)
    \/ Import(r) \/ Lock(r) \/ Cached(r) \/ Miss(r) \/ Build(r) \/ BuildFails(r)
    \/ ShapValues(r) \/ ShapFails(r) \/ Weights(r)
    \/ Show(r) \/ GiveUp(r)

Next == Restart \/ \E r \in Asked : Explain(r)

Spec == Init /\ [][Next]_evars

-----------------------------------------------------------------------------
(* Properties *)

\* "each model artefact builds the explainer exactly once, even though the
\* handler is called per-request": not twice under any interleaving of worker
\* threads, and an answer that claims SHAP was given by that explainer.
OneExplainer ==
    /\ built <= 1
    /\ \A r \in Asked :
          stage[r] = "replied" /\ reply[r] = "shap" =>
              built = 1 /\ ~importFailed /\ setup.shap /\ Tree(setup.model)

\* "ML being broken NEVER raises a 5xx out of the panel API" (api/ml.py).
NeverServerError == \A r \in Asked : shown[r] # "5xx"
=============================================================================
