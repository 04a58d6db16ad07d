CONSTANT Values <- MCValues
SPECIFICATION Spec
INVARIANTS TypeOK DocumentedAnswered
PROPERTY DocumentShown
CHECK_DEADLOCK FALSE
