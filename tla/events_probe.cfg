SPECIFICATION Spec
CONSTANTS
    busy = busy
    other = other
    Clients = {busy, other}
    Keys = {k1, k2}
    NoTable = NoTable
    MaxCommands <- CommandsOf
INVARIANTS ProbeTells
CHECK_DEADLOCK FALSE
