SPECIFICATION FairSpec
CONSTANTS
    TERMINAL_COUNT = 3
    OtherIrqs = {4, 12}
    MaxFrames = 3
INVARIANTS
    NothingLeftInService
    NoUndefinedInterrupt
PROPERTIES
    ShellsStart
    RequestsServed
    ClockGoesOn
