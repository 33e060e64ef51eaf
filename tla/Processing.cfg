SPECIFICATION ProcessingSpec
CONSTANT None = None
INVARIANTS EventsAreKept
 
CHECK_DEADLOCK FALSE
