SPECIFICATION Spec
CONSTANTS
    busy = busy
    other = other
    Clients = {busy, other}
    Keys = {k1, k2}
    NoTable = NoTable
    MaxCommands <- CommandsOf
INVARIANTS ChannelsClosed
CHECK_DEADLOCK FALSE
