CONSTANTS
    Users = {admin, other}
    Seeded = admin
    Requests = {r1, r2}
    Ttl = 2
    Span = 1
SPECIFICATION Spec
SYMMETRY Symmetry
INVARIANTS
    AuthorityFades
    LockoutNeedsTwo
PROPERTIES
    RotationIsFinal
    ExposureIsExplained
