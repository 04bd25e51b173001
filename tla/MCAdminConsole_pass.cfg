SPECIFICATION MCSpec
CONSTANTS
  Blank = Blank
  Malformed = Malformed
  MAX_UINT = 5
  MAX_BURN_RATE_BPS = 2
  MAX_ECONOMIC_RATIO = 4
  MIN_SOLVENCY_CAP_DEN = 2
  MAX_OPERATIONS = 1
  MinDelay = 1
  Inputs <- SomeInputs
  OthersCalls <- SomeCalls
  RoleSets <- SomeRoles
  MaxLog = 2
  MaxLoads = 2
  MaxSent = 1
  MaxEvents = 2
  MaxTime = 1
INVARIANTS PreflightIsExact ExecuteOnlyWhenReady OfferedIsPermitted
CHECK_DEADLOCK FALSE
