SPECIFICATION Spec
CONSTANTS
    Key = {k1, k2}
    Nonce = {n1}
    Zero = Zero
    B = 3
    M = 3
    StartCounters <- MCStartCounters
    MaxBytes = 13
INVARIANTS
    TypeOK
    StreamInOrder
    UsedOnce
