SPECIFICATION Spec
CONSTANTS
    Tasks = {t1, t2}
    Stories = {s1, s2}
    Sprints = {m1, m2}
    None = None
    Requests = {r1, r2}
SYMMETRY ClosingSymmetry
INVARIANTS TypeOK SerialExact ClosingExact
CHECK_DEADLOCK FALSE
