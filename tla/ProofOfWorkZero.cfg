SPECIFICATION Spec
CONSTANTS
    MAX_NONCE = 10
    threads = 3
INVARIANTS
    NoSolutionInRange
CHECK_DEADLOCK FALSE
