SPECIFICATION Spec
CONSTANTS
    a = a
    b = b
    NoKey = NoKey
    Garbled = garbled
    Ident <- MCIdent
    Setups <- MatchingSetups
    Text = {t1}
    MaxSend = 2
    EarlySend = FALSE
    NetworkFails = FALSE
    ClientCloses = FALSE
CHECK_DEADLOCK FALSE
INVARIANTS
    NonceUsedOnce
