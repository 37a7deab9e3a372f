SPECIFICATION Spec
CONSTANTS
    Values <- MCValues
    MaxValues = 1
    NameLength = 3
    None = None
INVARIANTS AnswerDeletedOnce
CHECK_DEADLOCK FALSE
