----------------------------- MODULE MCComponents -----------------------------
(***************************************************************************)
(* Small instances of components that share no state, for one run of TLC.   *)
(* The initial state chooses the component that runs; the others stay as     *)
(* they are.  LoginRateLimit and BrowserSession are extended, the others are  *)
(* instantiated.                                                            *)
(***************************************************************************)
EXTENDS LoginRateLimit, BrowserSession, TLC

CONSTANTS
    One, Requests, Garbage, Absent,                  \* MlThreshold
    Steps, MaxRows, Parts, Budgets, Recalls, Bad,    \* ThresholdCalibration
    Cooldown, MaxUptime,                             \* Notifier, with Calls
    MaxProbes, Warmup, BenchParts, FprBudget, FnrBudget, \* GateBenchmark
    Ids, Names, RuleKeys, ConfigKeys, MaxAudit, MaxGeneration,  \* MemoryRepositories
    None                                             \* and Explanations, with Calls

VARIABLES
    running,  \* the component chosen
    stored, audit, pc, prev, new, row, committed, answered,
    file, y, s, budget, theta, recall, cut, fpr,
    uptime, last, posting, sent, silenced,
    probes, results, target, verdict, denied,
    used, byId, joined, byEmail, rows, trail, kv, families, answer,
    setup, importFailed, explainer, holder, built, stage, scored, reply, shown

thresholdVars == <<stored, audit, pc, prev, new, row, committed, answered>>
calibrationVars == <<file, y, s, budget, theta, recall, cut, fpr>>
notifierVars == <<uptime, last, posting, sent, silenced>>
benchVars == <<probes, results, target, verdict, denied>>
memoryVars == <<used, byId, joined, byEmail, rows, trail, kv, families, answer>>
explainVars == <<setup, importFailed, explainer, holder, built, stage, scored,
                 reply, shown>>

Threshold == INSTANCE MlThreshold
Calibration == INSTANCE ThresholdCalibration
Notify == INSTANCE Notifier
Bench == INSTANCE GateBenchmark
Memory == INSTANCE MemoryRepositories
Explain == INSTANCE Explanations WITH Asked <- Calls

ASSUME InstanceAssumption ==
    /\ Threshold!ConstantsAssumption /\ Calibration!ConstantsAssumption
    /\ Notify!ConstantsAssumption /\ Bench!ConstantsAssumption
    /\ Memory!ConstantsAssumption /\ Explain!ConstantsAssumption

\* Tabs and calls are interchangeable.
Symmetry == Permutations(Tabs) \cup Permutations(Calls)

Component ==
    {"limit", "threshold", "calibration", "session", "notifier", "bench",
     "memory", "explain"}

\* One initial state of each component that does not run.
AtRest ==
    /\ running # "threshold" => stored = One
    /\ running # "notifier" => uptime = 0
    /\ running # "bench" => probes = <<>> /\ target = "up"
    /\ running # "memory" => used = "users"
    /\ running # "explain" =>
          setup = [model |-> None, fits |-> TRUE, shap |-> FALSE, installed |-> FALSE]

SomeInit ==
    /\ running \in Component
    /\ Init /\ Threshold!Init /\ Calibration!Init /\ SessionInit
    /\ Notify!Init /\ Bench!Init /\ Memory!Init /\ Explain!Init
    /\ AtRest

\* Only the component that runs moves.
Others(name) ==
    /\ running = name
    /\ UNCHANGED running
    /\ IF name = "limit" THEN TRUE ELSE UNCHANGED vars
    /\ IF name = "threshold" THEN TRUE ELSE UNCHANGED thresholdVars
    /\ IF name = "calibration" THEN TRUE ELSE UNCHANGED calibrationVars
    /\ IF name = "session" THEN TRUE ELSE UNCHANGED sessionVars
    /\ IF name = "notifier" THEN TRUE ELSE UNCHANGED notifierVars
    /\ IF name = "bench" THEN TRUE ELSE UNCHANGED benchVars
    /\ IF name = "memory" THEN TRUE ELSE UNCHANGED memoryVars
    /\ IF name = "explain" THEN TRUE ELSE UNCHANGED explainVars

SomeNext ==
    \/ Others("limit") /\ Next
    \/ Others("threshold") /\ Threshold!Next
    \/ Others("calibration") /\ Calibration!Next
    \/ Others("session") /\ SessionNext
    \/ Others("notifier") /\ Notify!Next
    \/ Others("bench") /\ Bench!Next
    \/ Others("memory") /\ Memory!Next
    \/ Others("explain") /\ Explain!Next

SomeSpec ==
    SomeInit /\ [][SomeNext]_<<running, vars, thresholdVars, calibrationVars,
                                sessionVars, notifierVars, benchVars, memoryVars,
                                explainVars>>

-----------------------------------------------------------------------------
(* Properties of the instances, stated and explained in their modules *)

\* MlThreshold: an answered PUT has committed.
AnswersAreStored == Threshold!AnswersAreStored

\* ThresholdCalibration: the gate stays within the false-positive budget, ...
GateKeepsBudget == Calibration!GateKeepsBudget

\* ... and catches what a cut within the budget would.
BudgetBuysRecall == Calibration!BudgetBuysRecall

\* Notifier: no storms, and no other silence.
CooldownHolds == Notify!CooldownHolds

\* GateBenchmark: a pass is earned.
PassIsProtection == Bench!PassIsProtection

\* MemoryRepositories: the doubles answer as PostgreSQL does, but for two named
\* differences (Memory!ImplementsContract, not looked at where another component
\* runs).
ImplementsContract ==
    Memory!Contract!Init /\
        [][running = "memory" =>
              Memory!Contract!Next \/ Memory!OldestFirst \/ Memory!OtherSpelling]_memoryVars

\* Explanations: one explainer for a model.
OneExplainer == Explain!OneExplainer
=============================================================================
