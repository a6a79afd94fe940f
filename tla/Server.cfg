SPECIFICATION FairSpec
CONSTANTS
    Session = {s1, s2}
    Ident = {k1, k2}
    NoKey = NoKey
    NoSession = NoSession
    Size = 2
    PeerLists = {{k1, k2}}
    MaxSet = 1
    MayShutDown = TRUE
CHECK_DEADLOCK FALSE
INVARIANTS
    TypeOK
    SignalsMatchMap
    ContextInRange
    KeysBelongTogether
PROPERTIES
    DirectorySpec
    ClientIsHandled
    ShutdownCompletes
