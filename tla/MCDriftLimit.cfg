CONSTANTS
    Checkers = {c1}
    Refreshers = {p1}
    Inodes = {i1, i2}
    NBlocks = 2
    LogLimit = 2
    MaxLog = 3
    MaxRuns = 1
    Trainer = Trainer
    NoFile = NoFile
    Nobody = Nobody
SPECIFICATION Spec
SYMMETRY Symmetry
PROPERTY
    GateSeesEveryAlert
