SPECIFICATION Spec
CONSTANTS
    Members = {ana, ben}
    Outsiders = {zoe}
    Workers = {w1}
    Requests = {r1, r2, r3}
    Lists <- TwoLists
    NoRetro = NoRetro
    MaxPosts = 2
    MaxLosses = 1
SYMMETRY VoteSymmetry
INVARIANTS TypeOK NoPhantomVotes LoneVotesStand LoneExact
PROPERTY RefusedOnlyAfterVote
CHECK_DEADLOCK FALSE
