CONSTANTS
    Accounts = {a1, a2}
    MaxHits = 2
    Window = 2
    MaxTime = 6
    One = 2
    Requests = {r1, r2}
    Garbage = Garbage
    Absent = Absent
    Steps = 2
    MaxRows = 3
    Parts = 2
    Budgets = {0, 1}
    Recalls = {1, 2}
    Bad = Bad
    Calls = {c1, c2}
    Tabs = {t1, t2}
    MaxIssued = 3
    Cooldown = 2
    MaxUptime = 6
    MaxProbes = 4
    Warmup = 1
    BenchParts = 20
    FprBudget = 1
    FnrBudget = 6
    Ids = {i1, i2}
    Names = {n1, n2}
    RuleKeys = {k1, k2}
    ConfigKeys = {"ml_block_threshold", "other"}
    MaxAudit = 3
    MaxGeneration = 2
    None = None
SPECIFICATION SomeSpec
SYMMETRY Symmetry
CHECK_DEADLOCK FALSE
INVARIANTS
    LimitHolds
    RefusalIsEarned
    AnswersAreStored
    GateKeepsBudget
    BudgetBuysRecall
    RefusedOnlyByAnother
    WritesStayInSession
    CooldownHolds
    PassIsProtection
    OneExplainer
PROPERTIES
    ImplementsContract
