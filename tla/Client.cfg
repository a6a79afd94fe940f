SPECIFICATION FairSpec
CONSTANTS
    Session = {s1, s2}
    Ident = {k1, k2}
    NoKey = NoKey
    NoSession = NoSession
CHECK_DEADLOCK FALSE
INVARIANTS
    TypeOK
    SignalsMatchMap
    OpenIsReachable
PROPERTIES
    DirectorySpec
    ConnectEnds
    CallsReturn
