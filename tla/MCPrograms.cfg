SPECIFICATION Spec
CONSTANTS
    MAX_NAME_LENGTH = 3
    FOUR_KB = 2
    DATA_BLOCK_COUNT = 2
    MAX_FD_NUM = 4
    Image <- MCImage
    Names <- MCNames
    Arguments <- MCArguments
    Counts = {1, 4}
    MaxReads = 7
INVARIANTS
    DescriptorsKept
    SyserrPasses
    ProgramsPrint
PROPERTY CallsAreContained
