SPECIFICATION LiveSpec
CONSTANTS MaxEvents = 4
INVARIANTS NoPanic ReportedIsFinished CloseWaitsIfQuiet
PROPERTIES ReportedUnlessRejected CallsReturn
CHECK_DEADLOCK FALSE
