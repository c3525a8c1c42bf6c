SPECIFICATION SdkSpec
CONSTANTS
    Threads = {t1, t2}
    Threshold = 2
    MaxAttempts = 3
    MaxResponses = 5
INVARIANTS
    OpensOnConsecutiveFailures
