SPECIFICATION Spec
CONSTANTS
  Accounts <- TwoAccounts
  Tasks <- TwoTasks
  Suited <- TwoPairs
  DeviceOf <- OwnDevice
  Cadence <- ShortCadence
  Jitter <- NoJitter
  MaxBackoffFailures = 1
  RunMax = 1
  TickMin = 1
  TickMax = 1
  Manual <- OnePair
  Fragile = {}
  Events = {"fail"}
  Horizon = 8
  Unbounded = FALSE
INVARIANTS TypeOK ServedInTurn
PROPERTIES NoSecondTurn
CHECK_DEADLOCK FALSE
