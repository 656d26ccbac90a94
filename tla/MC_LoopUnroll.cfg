CONSTANTS
    Loops <- MCLoops
    Root = 0
    Parent <- MCParent
    Unknown = Unknown
    NiterChoices <- MCNiterChoices
    InsnChoices <- MCInsnChoices
    Hot = {1, 3}
    EvalOnly = {2}
    NotOnceEachIter = {}
    NonDuplicable = {1}
    MaxPeelTimes = 2
    MaxPeeledInsns = 12
    Passes = {"ivcanon", "cunroll", "pipeline"}
    InnerDependent = {1}
    NotCached = NotCached
SPECIFICATION Spec
INVARIANTS TypeOK GrowthAuthorised NoStaleCount FixedPoint
PROPERTIES Termination
