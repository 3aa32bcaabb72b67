CONSTANTS
    Families = {f1}
    Users = {u1}
    Requests = {r1, r2}
    MaxGen = 2
    CommitFirst = FALSE
    NoToken = NoToken
    NoRow = NoRow
SPECIFICATION FairSpec
INVARIANTS
    NeverAhead
    LogoutIsDurable
PROPERTY
    EveryRequestEnds
