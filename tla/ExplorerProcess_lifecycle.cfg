SPECIFICATION LiveSpec
CONSTANTS
  Networks = {n1, n2}
  Explorer = explorer
  Browsers = {b1}
  None = None
  MaxBlocks = 2
  MaxCommits = 2
  MaxFaults = 1
  MaxKills = 1
CHECK_DEADLOCK FALSE
INVARIANTS CodeTellsFailure ToldAsSent
PROPERTIES SupervisionSpec  
