CONSTANTS
    Amount = 2
SPECIFICATION Spec
INVARIANTS IdIsKnown
CHECK_DEADLOCK FALSE
