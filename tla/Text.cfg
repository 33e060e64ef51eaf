SPECIFICATION TextSpec
CONSTANT None = None
INVARIANTS AlgorithmsAgree ReadersLoseNothing
CHECK_DEADLOCK FALSE
