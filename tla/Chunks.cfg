SPECIFICATION Spec
CONSTANT MaxLines = 6
CHECK_DEADLOCK FALSE
INVARIANT SectionsAsWritten
