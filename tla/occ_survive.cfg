SPECIFICATION Spec
CONSTANTS
    Status = status
    Milestone = milestone
    Fields = {status, milestone}
    Edits = {e1, e2}
    Others = {o1}
    None = None

PROPERTY EditsSurvive
CHECK_DEADLOCK FALSE
