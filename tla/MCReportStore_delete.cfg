SPECIFICATION Spec
CONSTANTS
    r1 = r1
    r2 = r2
    q1 = q1
    q2 = q2
    Report = {r1}
    Request = {q1, q2}
SYMMETRY Symmetry
INVARIANT
    DeletedFromStorage
