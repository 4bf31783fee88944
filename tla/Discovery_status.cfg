SPECIFICATION LiveSpec
CONSTANTS
  Channels = {"a", "b"}
  Peers = {"p", "q"}
  Org <- TwoOrgs
  Joined <- BothAndOne
  Calls = {"c1", "c2"}
  MaxChanges = 1
  MaxFails = 1
CHECK_DEADLOCK FALSE
INVARIANTS RunningIsUp AloneIsDiscovered
PROPERTIES CallsEnd
