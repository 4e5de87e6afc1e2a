CONSTANTS
    t1 = t1
    b1 = b1
    b2 = b2
    b3 = b3
    x1 = x1
    x2 = x2
    x3 = x3
    s1 = s1
    null = null
    NULL = null
    Thread <- OneThread
    Bo <- ThreeBos
    Priv <- ThreePrivs
    Surf <- OneSurf
    Envs <- Process
    SwapBusy = FALSE
    MaxInit = 1
    MaxMap = 1
    MaxSurfRef = 1
    UIntMod = 256
    MaxBos = 2
    SurfaceBoAlloc = FALSE
    MaxRing = 2
    CountMod = 2
    MaxFrames = 3
    MaxHeld = 1
SYMMETRY Symmetry
SPECIFICATION DumpSpec
INVARIANT RingRefExact
INVARIANT RingHoldsLatest
INVARIANT LockBalance
