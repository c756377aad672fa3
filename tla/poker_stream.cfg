SPECIFICATION Spec
CONSTANTS
    Streams = {s1, s2}
    MaxLen = 3
    MaxMessages = 5
INVARIANTS TypeOK GaplessUntilFull
PROPERTIES FeedSpec GetsToTheLimit
CHECK_DEADLOCK FALSE
