SPECIFICATION FairSpec
CONSTANTS
    Record = {e1}
    Attached = {a1}
    Detached = {d1}
    Codes = {0, 1}
    Chunk <- Pieces
    MaxPrinted = 2
INVARIANTS
    FramesAreWhole
    OutputIsComplete
    CodeBeforeClose
PROPERTIES
    SilentAfterClose
    SessionsEnd
    ReapedForGood
CHECK_DEADLOCK FALSE
