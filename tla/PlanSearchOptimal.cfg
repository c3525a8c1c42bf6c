SPECIFICATION SearchSpec
CONSTANTS
    Tree <- MCTree
    Costs = {0, 1, 2}
    Amounts = {1}
    Pool = 4
INVARIANTS
    PlanIsOptimal
CHECK_DEADLOCK FALSE
