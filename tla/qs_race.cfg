CONSTANTS
    p1 = p1
    p2 = p2
    c1 = c1
    m1 = m1
    none = none
    NoThread = none
    Producers <- TwoProducers
    Consumers <- OneManager
    Managers <- OneManager
    QueueSize = 1
    Sizes <- OneOrTwo
    Wait = TRUE
    AllocCb = TRUE
    Spurious = TRUE
    MaxCalls = 2
SPECIFICATION Spec
INVARIANT LockOwnership
INVARIANT Conservation
INVARIANT AttachBound
 
CHECK_DEADLOCK FALSE
