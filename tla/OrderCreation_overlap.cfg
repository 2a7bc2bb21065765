CONSTANTS
    Amount = 1
SPECIFICATION Spec
INVARIANTS CreatedOnce
CHECK_DEADLOCK FALSE
