CONSTANTS
    Loops <- MCLoops
    Root = 0
    Parent <- MCParent
    Unknown = Unknown
    NiterChoices <- MCNiterChoices
    InsnChoices <- MCInsnChoices
    Hot = {1, 3}
    EvalOnly = {2}
    NotOnceEachIter = {}
    NonDuplicable = {}
    MaxPeelTimes = 2
    MaxPeeledInsns = 12
    Passes = {"cunroll"}
    InnerDependent = {1}
    NotCached = NotCached
SPECIFICATION Spec
INVARIANT SpecPeeledBudget
