SPECIFICATION Spec
CONSTANTS
    Keys = {k1, k2}
    Base = base
    maxConnectionErrors = 3
    maxMissedHeartbeats = 2
    MaxPages = 3
    MaxLogins = 2
INVARIANTS TypeOK NeverStuck ServerKnows
PROPERTIES Restored
CHECK_DEADLOCK FALSE
