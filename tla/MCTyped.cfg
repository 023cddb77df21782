SPECIFICATION TypedSpec
CONSTANTS
    TERMINAL_COUNT = 2
    CHARACTER_BUFFER_SIZE = 3
    Keys = {"a", "1", "ENTER", "ALT", "F1", "F2"}
INVARIANT ReadReturnsInput
