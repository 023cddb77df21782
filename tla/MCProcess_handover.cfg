SPECIFICATION SpecHandover
CONSTANTS
    MAX_PID = 3
    TERMINAL_COUNT = 2
    Status = {256}
INVARIANTS
    TerminatedNeverCurrent
CHECK_DEADLOCK FALSE
