SPECIFICATION FairSpec
CONSTANTS
  Listeners = {l1}
  Rounds = {r1}
  MaxHeight = 2
  Txs = {"t1"}
  TxsOf <- OneTxEach
  Chaincodes = {}
  ChaincodeOf <- NoChaincodes
  NoChaincode = NoChaincode
  Boots <- EveryMode
  NaN = NaN
  MaxCrashes = 1
  MaxFails = 1
  MaxNulls = 1
PROPERTIES WantedBlocksGetStored StoredBlocksGetAnnounced
