SPECIFICATION LiveSpec
CONSTANTS
  Processes = {"explorer", "sync"}
  CaEnabled = TRUE
  MaxRebuilds = 2
  MaxRenewals = 1
  MaxStops = 3
  MaxFails = 1
  MaxCrashes = 1
  MaxDeletes = 1
  MaxSilences = 2
CHECK_DEADLOCK FALSE
INVARIANTS NoLostRegistration
PROPERTIES GetConnected
