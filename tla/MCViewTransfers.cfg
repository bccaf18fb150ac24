SPECIFICATION Spec

CONSTANTS
    Cells = {0, 1, 2, 3, 4, 5, 6, 7}
    Values = {0, 1, 2, 3, 4, 5, 6, 7, 8}
    Moved = 0
    Fills = {0}
    Views <- MCViews
    Firsts <- MCFirsts
    Memories <- MCMemories
    MaxTransfers = 2

INVARIANTS
    TypeOK
    Assigned
    AssignedByIndex
    SwapRearranges
    SwapExchanges
    MovedOnce
    RoundTrip
    Trichotomy

CHECK_DEADLOCK FALSE
