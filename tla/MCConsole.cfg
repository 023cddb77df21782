SPECIFICATION UserSpec
CONSTANTS
    TERMINAL_COUNT = 2
    NUM_ROWS = 2
    NUM_COLS = 1
    CHARACTER_BUFFER_SIZE = 3
    Keys = {"l", "ENTER", "BACKSPACE", "ALT", "F1", "F2", "CTRL", "CTRL_UP"}
    Users <- MCUsers
    Texts <- MCTexts
INVARIANTS
    PagesOwned
    LineIsOnScreen
PROPERTIES
    ImplementsScreens
    CursorFollows
