SPECIFICATION SaleSpec
CONSTANTS
    Items = {1, 2}
    Bidders = {b1, b2}
    Packages = {{1}, {2}, {1, 2}}
    Values = {1, 2}
    Nonces = {0}
    MaxBids = 2
INVARIANTS
    PaysAtMostItsBid
CHECK_DEADLOCK FALSE
