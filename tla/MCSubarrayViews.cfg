SPECIFICATION Spec

CONSTANTS
    Roots <- MCRoots
    Firsts = {0, 1}
    Steps = {2}
    RootWidth = 4
    Widths = {2, 4}
    Members <- MCMembers
    MaxElements = 16
    MaxDims = 3
    MaxCalls = 3

INVARIANTS
    ExtensionsExist
    IteratorsAgreeWithIndices
    ElementsAreCanonical

PROPERTY ImplementsIndexMaps

CHECK_DEADLOCK FALSE
