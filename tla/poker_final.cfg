SPECIFICATION VotingSpec
CONSTANTS
    NoRow = NoRow
    NoValue = NoValue
    MaxChurn = 0
    Requests = {r1, r2, r3}
    Estimators = {"ana", "ben"}
    Observers = {}
    Edits = {}
    Away = {}
    Posted = {3, 5}
    Patched = {5}
    Targets = {"here"}
INVARIANT FinalRowsAgree
CHECK_DEADLOCK FALSE
