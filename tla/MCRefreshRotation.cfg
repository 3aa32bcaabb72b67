CONSTANTS
    Families = {f1, f2}
    Users = {u1}
    Requests = {r1, r2}
    MaxGen = 2
    CommitFirst = TRUE
    NoToken = NoToken
    NoRow = NoRow
SPECIFICATION Spec
SYMMETRY Symmetry
INVARIANTS
    SingleUse
    NeverAhead
    LogoutIsDurable
PROPERTIES
    RevokedIsFinal
    ImplementsSingleUse
