SPECIFICATION Spec

CONSTANTS
    Counts = {0, 4, 6}
    Width = 2
    Firsts = {0, 2}
    Steps = {2}
    Bounds <- MCBounds
    MaxCalls = 4

INVARIANT TraversalsAgree

PROPERTY ImplementsVectorMaps

CHECK_DEADLOCK FALSE
