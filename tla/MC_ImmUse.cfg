CONSTANTS
    x = x
    y = y
    u1 = u1
    u2 = u2
    u3 = u3
    u4 = u4
    s1 = s1
    s2 = s2
    Names <- MCNames
    Var = x
    Uses <- MCUses
    Stmts <- MCStmts
    StmtOf <- MCStmtOf
    Operands <- MCOperands
    Regs <- MCNames
    Marker = Marker
    Null = Null
    NoName = NoName
    NoStmt = NoStmt
    NoUse = NoUse
SPECIFICATION Spec
INVARIANTS TypeOK ChainsWellFormed CountsAgree
PROPERTIES ImplementsImmUseSets WalkEnds
