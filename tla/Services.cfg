SPECIFICATION ServicesSpec
CONSTANTS
  Users = {u1, u2, u3}
  Names = {n1, n2}
  MaxShared = 3
  MaxOps = 1
  NoStore = NoStore
  Clients = {c1, c2, c3}
  MaxSets = 3
  NoQueue = NoQueue
  Workers = {w1, w2}
  SetupConfigs <- InterestingSettings
  MaxSetupFaults = 1
INVARIANTS StoresAreShared
PROPERTIES ConnectedFindsSetup WaitingEnds
CHECK_DEADLOCK FALSE
