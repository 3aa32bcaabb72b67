CONSTANTS
    Checkers = {c1}
    Refreshers = {p1, p2}
    Inodes = {i1, i2, i3, i4}
    NBlocks = 2
    LogLimit = 1
    MaxLog = 2
    MaxRuns = 3
    Trainer = Trainer
    NoFile = NoFile
    Nobody = Nobody
SPECIFICATION Spec
SYMMETRY Symmetry
INVARIANTS
    NeverTorn
    PreviousIsKept
    LateOrBuried
