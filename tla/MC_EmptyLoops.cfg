CONSTANTS
    Loops <- MCLoops
    Root = 0
    Parent <- MCParent
    Blocks <- MCBlocks
    Freq0 <- MCFreq0
    DomBody <- MCDomBody
    ExitBlock <- MCExitBlock
    FreqIn <- MCFreqIn
    ExitCount0 <- MCExitCount0
    NonExitCount0 <- MCNonExitCount0
    ProbBase = 10000
SPECIFICATION Spec
INVARIANTS TypeOK PostOrder RemovedExactly
PROPERTIES CollapseConservesExit
