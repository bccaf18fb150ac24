CONSTANTS
    Requests <- AllRequests
    IntMax = 15
SPECIFICATION Spec
INVARIANTS
    ComputesTheDefinition
    PlainIsServed
CHECK_DEADLOCK FALSE
