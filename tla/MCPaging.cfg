SPECIFICATION PagingSpec
CONSTANTS
    MAX_PID = 3
    TERMINAL_COUNT = 2
    PT0_addr = 1040
    PT1_addr = 1041
INVARIANTS
    NothingStale
    ReachesOwn
