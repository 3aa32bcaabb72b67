CONSTANTS
    One = 2
    Requests = {r1, r2}
    Garbage = Garbage
    Absent = Absent
SPECIFICATION Spec
SYMMETRY Symmetry
INVARIANT
    ChangeIsAudited
