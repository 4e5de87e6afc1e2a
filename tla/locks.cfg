CONSTANTS
    t1 = t1
    t2 = t2
    t3 = t3
    Thread <- Threads
    Call <- Calls
    Suspect <- OutOfOrder
    Program <- Programs
    Mutex <- Mutexes
    Rank <- RankOf
    Ranks = 6
    Shared <- Lists
    Guard <- GuardOf
    Nobody = "nobody"
SYMMETRY Symmetry
SPECIFICATION Spec
INVARIANT OnlySuspectsDeadlock
INVARIANT OnlySuspectsRace
CHECK_DEADLOCK FALSE
