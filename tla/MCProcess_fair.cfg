SPECIFICATION FairSpecToHazard
CONSTANTS
    MAX_PID = 3
    TERMINAL_COUNT = 2
    Status = {0, 256}
INVARIANT
    ReturnsChildStatus
PROPERTIES
    EveryTerminalRuns
    HaltCompletes
CHECK_DEADLOCK FALSE
