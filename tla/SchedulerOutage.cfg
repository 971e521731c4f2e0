SPECIFICATION Spec
CONSTANTS
  Accounts <- TwoAccounts
  Tasks <- TwoTasks
  Suited <- TwoPairs
  DeviceOf <- OwnDevice
  Cadence <- ShortCadence
  Jitter <- NoJitter
  MaxBackoffFailures = 1
  RunMax = 1
  TickMin = 1
  TickMax = 1
  Manual = {}
  Fragile = {1}
  Events = {}
  Horizon = 12
  Unbounded = FALSE
INVARIANTS OutageStaysLocal
CHECK_DEADLOCK FALSE
