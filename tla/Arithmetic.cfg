SPECIFICATION Spec
CONSTANTS
    Limbs = 4
    OddRadix = 64
    Excess = 5
    Factor = 3
    Loads <- MCLoads
    Radix = 4
    Top <- MCTop
    Word = 128
    Block = 8
    Room = 2
    LenBytes = 1
    One = 1000
    Zero = 0
    FieldNumbers <- MCFieldNumbers
    MaxOps = 4
    Hashes <- MCHashes
    ScalarTexts <- MCScalarTexts
    Keys <- MCKeys
    Pads <- MCPads
    PolyBlocks <- MCPolyBlocks
    MaxPolyBlocks = 3
    Pieces = {0, 1, 3, 8, 11}
    MaxBytes = 26
CHECK_DEADLOCK FALSE
INVARIANTS FieldMatches ScalarsReduced TagMatches PaddedOnce
