SPECIFICATION FairSpec
CONSTANTS
    TERMINAL_COUNT = 2
    CHARACTER_BUFFER_SIZE = 2
    Keys = {"a", "l", "esc", "ENTER", "BACKSPACE", "SHIFT", "SHIFT_UP", "CTRL", "CTRL_UP",
            "ALT", "CAPSLOCK", "CAPSLOCK_UP", "F1", "F2", "other"}
    Users <- MCUsers
INVARIANTS
    NoOverrun
PROPERTIES
    MailboxStable
    WindowOnlyOnFirstRead
    ImplementsLineDiscipline
    EveryReadReturns
