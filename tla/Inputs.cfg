SPECIFICATION InputsSpec
CONSTANTS
  good = good
  bad = bad
  Broken = Broken
  Contents <- FileContents
  Files = {f1}
  Second = 2
  MaxNow = 3
  MaxWrites = 2
  BadCfgs <- SomeBad
  MaxCreateFaults = 1
  Objects = {o1, o2}
  Templates <- SomeTemplates
  Everybody = Everybody
  Hinted = {o1}
  BusSize = 4
  Resource <- Resources
  MaxChanges = 3
  MaxTerms = 2
  NoTerm = NoTerm
  Containers = {o1}
  MaxRestarts = 4
  GracePeriod = 1
  MaxReplies = 3
INVARIANTS RunnersAreListedAndStopped DiscoveredIsFollowed
PROPERTIES WantedAreRunAtLast
CHECK_DEADLOCK FALSE
