SPECIFICATION SpecRaces
CONSTANTS
    MAX_PID = 4
    TERMINAL_COUNT = 2
    Status = {256}
INVARIANTS
    CallerIsCurrent
    NeverLost
    OwnPageAndStack
    ForegroundIsLeaf
    OneChainPerTerminal
    IInv
PROPERTY
    IdentityKept
CHECK_DEADLOCK FALSE
