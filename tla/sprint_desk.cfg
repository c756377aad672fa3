SPECIFICATION Spec
CONSTANTS
    Tasks = {t1, t2}
    Stories = {s1, s2}
    Users = {u1}
    Questions = {yesterday, today}
    Requests = {r1, r2, r3, r4}
    None = None
SYMMETRY DeskSymmetry
INVARIANTS TypeOK SettledTruth OneMeeting AnswersKept
CHECK_DEADLOCK FALSE
