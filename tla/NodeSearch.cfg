CONSTANT MaxCount = 9
SPECIFICATION Spec
INVARIANTS TypeOK LubIsLeast FindIsRight
PROPERTY Terminates
CHECK_DEADLOCK FALSE
