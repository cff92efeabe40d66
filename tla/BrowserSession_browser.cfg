SPECIFICATION SessionSpec
CONSTANTS
    c1 = c1
    c2 = c2
    Slots = {c1, c2}
    MaxFlows = 2
    MaxTokens = 2
SYMMETRY Symmetry
CHECK_DEADLOCK FALSE
INVARIANTS
    OneExchangePerCode
    SignOutRevokes
