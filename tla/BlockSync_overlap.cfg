SPECIFICATION Spec
CONSTANTS
  Listeners = {l1}
  Rounds = {r1, r2}
  MaxHeight = 2
  Txs = {"config", "t1", "t2"}
  TxsOf <- MCTxsOf
  Chaincodes = {"cc"}
  ChaincodeOf <- MCChaincodeOf
  NoChaincode = NoChaincode
  Boots <- AllBlocks
  NaN = NaN
  MaxCrashes = 1
  MaxFails = 1
  MaxNulls = 0
SYMMETRY Symmetry
INVARIANTS OneTaskPerBlock NoDuplicateRows CountersTrackRows
PROPERTIES MirrorSpec
