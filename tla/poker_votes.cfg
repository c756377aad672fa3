SPECIFICATION FairVotingSpec
CONSTANTS
    NoRow = NoRow
    MaxChurn = 0
    NoValue = NoValue
    Requests = {r1, r2, r3}
    Estimators = {"ana", "ben"}
    Observers = {"olga"}
    Edits = {}
    Away = {}
    Posted = {3, 5}
    Patched = {5}
    Targets = {"here", "missing"}
INVARIANTS ConsensusNotMissed EveryoneVoted ViewsAgree
PROPERTIES FinalLinked
CHECK_DEADLOCK FALSE
