SPECIFICATION Spec
CONSTANTS
    Base = 4
    BufSize = 8
    MaxIo = 16
    Char = 1
    Texts <- MCTexts
    Protocols = {1, 2}
    MaxSend = 3
CHECK_DEADLOCK FALSE
INVARIANTS FramesKeptApart DriftIsSkipped ReaderInBounds OverReadOnlyWhenFull
PROPERTY EverythingArrives
