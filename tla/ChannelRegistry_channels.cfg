SPECIFICATION FairSpec
CONSTANTS
  Channels = {c1}
  Syncs = {s1, s2}
  Updates = {u1}
  Peers <- OnePeer
  Orderers <- OneOrderer
  Chaincodes <- OneChaincode
  CodeRows <- MCCodeRows
  CodeRefRows <- MCCodeRefRows
  None = None
  MaxRebuilds = 1
  MaxBlocks = 1
  MaxFaults = 1
CHECK_DEADLOCK FALSE
INVARIANTS CountersNeverReset ReferencesResolve BoundedDuplicates
PROPERTIES RowBeforeBlocks RegistrySpec NewChannelsGetRegistered
