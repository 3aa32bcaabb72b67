CONSTANTS
    a = a
    b = b
    Keys = {a, b}
    Ids = {i1, i2, i3, i4}
    Requests = {r1, r2}
    Payloads <- Imports
    Ops = {"create", "bulk", "update", "delete"}
    NoKey = NoKey
    NoId = NoId
SPECIFICATION FairSpec
INVARIANTS
    UniqueKeys
    TrailGivesTable
PROPERTIES
    EveryRequestEnds
