CONSTANTS
    WordBits = 32
    MaxFixedBits = 64
    CountBits = 32
    HwVectors <- MCHwVectors
    Supported <- MCSupported
    Stmts <- MCStmts
    MaxLen = 2
SPECIFICATION Spec
INVARIANTS TypeOK VectorOperandsTiled SecondRunNoop SwarCorrect
