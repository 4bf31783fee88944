SPECIFICATION FairSpec
CONSTANTS
  Channels = {c1}
  Rounds = {r1, r2}
  Calls = {g1, g2}
  Closings = 2
CHECK_DEADLOCK FALSE
INVARIANTS ConnectedIsLive ListenersOfRaces
PROPERTIES EveryChannelListened
