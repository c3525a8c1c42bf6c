SPECIFICATION Spec
CONSTANTS
    Levels = {1, 2, 3}
    KeyPairs = {"k1", "k2"}
    Plaintexts = {"m1", "m2"}
    MaxMessages = 2
INVARIANTS
    RoundTrip
CHECK_DEADLOCK FALSE
