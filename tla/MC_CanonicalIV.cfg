CONSTANT W = 4
SPECIFICATION Spec
INVARIANT TypeOK
PROPERTY ImplementsLoopExit
CHECK_DEADLOCK FALSE
