SPECIFICATION Spec
CONSTANTS
    Prime = 13
    D = 6
    SqrtM1 = 5
    BaseX = 4
    BaseY = 8
    Digits = 4
    C121666 = 2
    L = 5
    Sha512 <- MCSha512
    Seeds = {1, 2}
    Scalars = {7, 40961}
    Randoms = {24, 4093}
    StrangeKeys <- MCStrangeKeys
    StrangeR <- MCStrangeR
    StrangeS = {0, 3, 8192}
    StrangeU = {8}
    None = None
CHECK_DEADLOCK FALSE
INVARIANTS KeysMatch VerifyIsEquation OneSecret
