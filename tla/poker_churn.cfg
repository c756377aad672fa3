SPECIFICATION Spec
CONSTANTS
    NoRow = NoRow
    MaxChurn = 1
    NoValue = NoValue
    Requests = {r1, r2}
    Edits = {e1}
    Away = {"away"}
    Estimators = {"ana", "ben"}
    Observers = {}
    Posted = {3, 4, 5}
    Patched = {5}
    Targets = {"here", "foreign"}
SYMMETRY RequestSymmetry
INVARIANTS TypeOK
PROPERTY BoardSpec
CHECK_DEADLOCK FALSE
