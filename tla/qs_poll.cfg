CONSTANTS
    p1 = p1
    p2 = p2
    c1 = c1
    m1 = m1
    none = none
    NoThread = none
    Producers <- OneProducer
    Consumers <- OneConsumer
    Managers <- OneManager
    QueueSize = 1
    Sizes <- OneOrTwo
    Wait = FALSE
    AllocCb = TRUE
    Spurious = FALSE
    MaxCalls = 2
SPECIFICATION Spec
PROPERTY EveryCallReturns
CHECK_DEADLOCK FALSE
