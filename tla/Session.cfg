SPECIFICATION FairSpec
CONSTANTS
    a = a
    b = b
    NoKey = NoKey
    Garbled = garbled
    Ident <- MCIdent
    Setups <- AllSetups
    Text = {t1, t2}
    MaxSend = 2
    EarlySend = FALSE
    NetworkFails = TRUE
    ClientCloses = TRUE
CHECK_DEADLOCK FALSE
INVARIANTS
    TypeOK
    Authenticated
    KeystreamsAligned
    AfterCloseBounded
PROPERTIES
    ChannelSpec
    FinishedIsStable
    HandshakeCompletes
    TextsArrive
