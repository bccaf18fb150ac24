SPECIFICATION Spec

CONSTANTS
    Iterators = {i, j}
    Ranges <- MCRanges

INVARIANTS
    PointsAtItsElement
    SubscriptReachesItsElement
    ComparisonsFollowTheElements

VIEW Distinguished
