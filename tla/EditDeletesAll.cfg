SPECIFICATION Spec
CONSTANT Sources <- AllSources
CONSTANT MaxEdits = 2
INVARIANT DeletesAll
CHECK_DEADLOCK FALSE
