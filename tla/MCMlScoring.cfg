CONSTANTS
    Keys = {k1}
    v1 = v1
    v2 = v2
    plain = plain
    odd = odd
    Versions = {v1, v2}
    Rests = {plain, odd}
    Requests = {r1, r2}
    One = 2
    TTL = 2
    Score <- Scores
    None = None
SPECIFICATION Spec
SYMMETRY Symmetry
INVARIANTS
    StaleEntriesDie
    ScoresKeepTheirVersion
PROPERTIES
    OldModelFadesOut
    BlockNeedsScore
