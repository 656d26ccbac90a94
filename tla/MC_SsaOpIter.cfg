CONSTANTS
    Stmts <- MCStmts
    NoStmt <- MCNoStmt
SPECIFICATION Spec
INVARIANTS TypeOK QueriesAgree
PROPERTIES ImplementsOperandWalk
