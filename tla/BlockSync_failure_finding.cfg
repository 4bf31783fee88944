SPECIFICATION FairSpec
CONSTANTS
  Listeners = {l1}
  Rounds = {r1}
  MaxHeight = 2
  Txs = {"config", "t1", "t2"}
  TxsOf <- MCTxsOf
  Chaincodes = {}
  ChaincodeOf <- NoChaincodes
  NoChaincode = NoChaincode
  Boots <- AllBlocks
  NaN = NaN
  MaxCrashes = 0
  MaxFails = 1
  MaxNulls = 0
PROPERTIES MissingBlocksGetStored
