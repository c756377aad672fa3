SPECIFICATION Spec
CONSTANTS
    NoRow = NoRow
    NoValue = NoValue
    MaxChurn = 1
    Requests = {r1, r2}
    Estimators = {"ana", "ben"}
    Observers = {}
    Edits = {}
    Away = {}
    Posted = {3}
    Patched = {5}
    Targets = {"here"}
PROPERTY TallySeesEveryone
CHECK_DEADLOCK FALSE
