CONSTANTS
    c1 = c1
    Process <- OneProcess
    User <- Users
    MaxFd = 2
    Setter <- Setters
    Getter <- Getters
    Client <- OneProcess
    MaxCalls = 2
    Modules <- TwoModules
    MaxInits = 1
    Timeline <- Timelines
    MaxValue = 1
    Timeout <- Timeouts
    MaxInterrupt = 1
    Uses <- Processes
SPECIFICATION StartupSpec
INVARIANT HeldIsRight
INVARIANT FdsAccounted
INVARIANT OneModule
INVARIANT WaitAnswers
PROPERTY CallsReturn
CHECK_DEADLOCK FALSE
