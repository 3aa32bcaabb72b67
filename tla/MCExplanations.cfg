CONSTANTS
    Asked = {q1, q2}
    None = None
SPECIFICATION Spec
SYMMETRY Symmetry
INVARIANT
    NeverServerError
