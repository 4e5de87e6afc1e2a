CONSTANTS
    t1 = t1
    b1 = b1
    b2 = b2
    x1 = x1
    x2 = x2
    s1 = s1
    s2 = s2
    k1 = k1
    k2 = k2
    d1 = d1
    d2 = d2
    null = null
    NULL = null
    Thread <- OneThread
    Bo <- TwoBos
    Priv <- TwoPrivs
    Surf <- TwoSurfs
    Key <- TwoKeys
    Data <- TwoData
    Envs <- UserOrDebug
    SwapBusy = FALSE
    MaxInit = 1
    MaxMap = 0
    MaxSurfRef = 1
    UIntMod = 3
    MaxBos = 2
    SurfaceBoAlloc = TRUE
    MaxUserData = 3
    DebugEnv <- Debugged
    DebugKey <- OneKey
    DebugValue <- Values
    MaxDebugData = 2
SYMMETRY Symmetry
SPECIFICATION DebugDataSpec
INVARIANT DataOwnedOnce
INVARIANT DebugDataShown
