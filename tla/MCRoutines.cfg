SPECIFICATION Spec
CONSTANTS
    WIDTH = 8
    MaxLen = 3
    SIZE = 11
    MAX_NAME_LENGTH = 3
    FOUR_KB = 3
    DATA_BLOCK_COUNT = 2
    MaxBlocks = 3
    MAX_LENGTH_ARG = 6
    BUF_SIZE = 2
    ENTRY_POINT_LOCATION = 3
    magic_number <- MCMagic
    PageSize = 8
    MaxCommand = 5
    Letters = {"a", "b"}
    Contents <- MCContents
    FileNames <- MCFileNames
    NUM_ROWS = 3
    NUM_COLS = 2
    MaxText = 8
    MaxWord = 3
    BUFSIZE = 4
    MaxFile = 7
    MaxFrame = 4
INVARIANTS
    StringsAreRight
    DoneRight
    ReadsAndFinds
    CommandIsRun
    TextIsShown
    PrintsMatchingLines
    FramesMatch
CHECK_DEADLOCK FALSE
