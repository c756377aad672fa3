SPECIFICATION Spec
CONSTANTS
    Members = {ana}
    Outsiders = {}
    Workers = {w1, w2}
    Requests = {r1, r2}
    Lists <- TwoLists
    NoRetro = NoRetro
    MaxPosts = 2
    MaxLosses = 0
INVARIANT VotesOnce
CHECK_DEADLOCK FALSE
