CONSTANTS
    t1 = t1
    t2 = t2
    Thread <- Threads
    Requests <- AskedFor
    PlanBound = 1
    Handle = {h1, h2, h3, h4, h5}
SPECIFICATION Spec
INVARIANTS
    TransformsAsAsked
    OneOwner
    NotShared
CHECK_DEADLOCK FALSE
