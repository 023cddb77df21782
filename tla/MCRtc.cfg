SPECIFICATION RtcFairSpec
CONSTANTS
    TERMINAL_COUNT = 2
    Frequencies <- MCFrequencies
INVARIANTS
    RateIsAsAsked
PROPERTIES
    ReadWaits
    ReadReturns
