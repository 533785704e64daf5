CONSTANTS
  f1 = f1
  f2 = f2
  s1 = s1
  s2 = s2
  r1 = r1
  r2 = r2
  Nobody = Nobody
  Tokens = {f1, s1}
  Pending = {f1}
  Clicks = {k1, k2}
  Runs = {r1, r2}
  RunOf <- OwnRun
  MaxFaults = 2
  MaxRestarts = 2
  Parts = {"files"}
  ProfileOf <- CoordProfile
  CoordOf <- CoordOfThread
  Apps = {"a", "b"}
  NoApp = "none"
  MaxLocks = 5
  Coords = {"c1", "c2"}
  Threads = {"t1", "t3"}
  Reconnecters = {"t1"}
  RegistryFails = FALSE
  MaxCalls = 3
  MaxFileFaults = 0
  MaxOps = 3
  MaxWriteFaults = 1
  KeyUsers = {k1, k2}
  Profiles <- TwoProfiles
  Ids = {"i1", "i2"}
  Values = {"v", "w"}
  Roots <- RootsFound
  Inputs <- SecretInputs
  Environment <- OneVariable
  Stores <- TwoStores
  Providers <- Asked
  OwnEnv <- BridgeEnv
  DefaultMax = 2
  Pieces <- Printed
  MaxPieces = 2
  Targets <- AnyTarget
  Locals <- AnyLocal
  MaxStarts = 2
  MaxForms = 2
  MaxCliFaults = 2
SPECIFICATION SetupSpec
SYMMETRY ClickSymmetry
CHECK_DEADLOCK FALSE
INVARIANTS
  AnswersHold
