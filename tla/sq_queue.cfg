CONSTANTS
    s1 = s1
    s2 = s2
    s3 = s3
    s4 = s4
    p1 = p1
    Surface <- Surfaces4
    Producers <- Prods
    Sizes <- SizesUpTo3
    Manners <- Proper
SYMMETRY Symmetry
SPECIFICATION Spec
INVARIANT NoUseAfterFree
INVARIANT ListsSound
INVARIANT WaitJustified
INVARIANT DeliveryOrder
INVARIANT AttachCount
PROPERTY HeldSurfacesSurvive
PROPERTY Implements
