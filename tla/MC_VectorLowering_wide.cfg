CONSTANTS
    WordBits = 32
    MaxFixedBits = 64
    CountBits = 32
    HwVectors <- WideHwVectors
    Supported <- WideSupported
    Stmts <- MCStmts
    MaxLen = 2
SPECIFICATION Spec
INVARIANT VectorOperandsTiled
