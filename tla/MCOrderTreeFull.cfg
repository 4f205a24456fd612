SPECIFICATION Spec
CONSTANTS
    KeyBits = 3
    MaxNodes = 8
    OrderInputs <- MCOrders
    Removals <- MCRemovals
    MaxTs = 2
INVARIANT
    BootingMakesRoom
