SPECIFICATION SpecToHazard
CONSTANTS
    MAX_PID = 3
    TERMINAL_COUNT = 2
    Status = {256}
INVARIANTS
    RefusalIsMinusOne
CHECK_DEADLOCK FALSE
