CONSTANTS
    p1 = p1
    p2 = p2
    c1 = c1
    m1 = m1
    none = none
    NoThread = none
    Producers <- OneProducer
    Consumers <- OneConsumer
    Managers <- Nobody
    QueueSize = 2
    Sizes <- OneOrTwo
    Wait = TRUE
    AllocCb = FALSE
    Spurious = FALSE
    MaxCalls = 6
SPECIFICATION Spec
INVARIANT AnswerHonest
INVARIANT NoLostWakeup
PROPERTY Settles
CHECK_DEADLOCK FALSE
