SPECIFICATION SlotSpec
CONSTANTS
    Streams = {s1, s2}
    MaxEvents = 4
INVARIANTS SlotTypeOK NoneNeedsTwo
PROPERTIES FeedSpec LastEventArrives
CHECK_DEADLOCK FALSE
