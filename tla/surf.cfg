CONSTANTS
    t1 = t1
    t2 = t2
    b1 = b1
    b2 = b2
    x1 = x1
    x2 = x2
    s1 = s1
    s2 = s2
    null = null
    NULL = null
    Thread <- TwoThreads
    Bo <- TwoBos
    Priv <- TwoPrivs
    Surf <- TwoSurfs
    Envs <- ShareAndMap
    SwapBusy = FALSE
    MaxInit = 1
    MaxMap = 1
    MaxSurfRef = 1
    UIntMod = 256
    MaxBos = 2
    SurfaceBoAlloc = FALSE
SYMMETRY Symmetry
SPECIFICATION SurfaceSpec
INVARIANT WindowSafe
INVARIANT SharedRefExact
INVARIANT SharedManagerRefs
INVARIANT BackPointers
INVARIANT CountExact
INVARIANT SurfacesHeld
INVARIANT MapAllOrNothing
INVARIANT LockBalance
