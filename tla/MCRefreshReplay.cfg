CONSTANTS
    Families = {f1}
    Users = {u1}
    Requests = {r1, r2}
    MaxGen = 2
    CommitFirst = TRUE
    NoToken = NoToken
    NoRow = NoRow
SPECIFICATION Spec

INVARIANT
    ReplayRevokesFamily
