SPECIFICATION Spec
CONSTANTS
    Streams = {s1}
    MaxLen = 2
    MaxMessages = 3
PROPERTY KeepsNotifying
CHECK_DEADLOCK FALSE
