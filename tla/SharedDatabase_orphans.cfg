SPECIFICATION FairSpec
CONSTANTS
  n1 = n1
  n2 = n2
  Networks = {n1, n2}
  Tasks = {t1}
  MaxHeight = 2
  Generations = 2
  Histories <- MCHistories
CHECK_DEADLOCK FALSE
INVARIANTS AnnouncedOnce OrphanStoresFew CounterWithinRows
PROPERTIES EveryNetworkComplete
