SPECIFICATION Spec
CONSTANTS
    Key = {k1, k2}
    Nonce = {n1}
    NoKey = NoKey
    P = 2
    ZeroByte <- MCZeroByte
    KB = 4
    MaxLen = 3
    MaxSealed = 1
    MaxAgain = 1
CHECK_DEADLOCK FALSE
INVARIANTS
    TypeOK
    StreamsTheLayout
    TagOfLayout
    OpensOnlySealed
