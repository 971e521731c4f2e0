SPECIFICATION Spec
CONSTANTS
  Accounts <- JustOne
  Tasks <- JustOne
  Suited <- OnePair
  DeviceOf <- OwnDevice
  Cadence <- ShortCadence
  Jitter <- UnitJitter
  MaxBackoffFailures = 1
  RunMax = 1
  TickMin = 1
  TickMax = 1
  Manual = {}
  Fragile = {1}
  Events = {"fail", "crash", "account", "task", "calendar", "store", "pause"}
  Horizon = 6
  Unbounded = FALSE
PROPERTIES RunsAreSpaced
CHECK_DEADLOCK FALSE
