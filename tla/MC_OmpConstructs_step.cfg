CONSTANTS
    NType <- NT1
    ForInputs <- IncrInputs
    AtomicInputs <- MCAtomicInputs
    Bodies = {b1}
    CriticalNames = {nm1}
    Decls <- MCDecls
    ClauseInputs <- MCClauseInputs
    Nowait = Nowait
    NullClause = NullClause
    Cl1 = Cl1
    Cl2 = Cl2
    Cl3 = Cl3
    NoName = NoName
    NoStmt = NoStmt
    MaxCalls = 2
SPECIFICATION Spec
INVARIANTS ForStepInvariant
