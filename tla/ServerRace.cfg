SPECIFICATION Spec
CONSTANTS
    Session = {s1, s2}
    Ident = {k1}
    NoKey = NoKey
    NoSession = NoSession
    Size = 1
    PeerLists = {{k1}}
    MaxSet = 0
    MayShutDown = FALSE
CHECK_DEADLOCK FALSE
INVARIANTS
    NoMapRace
