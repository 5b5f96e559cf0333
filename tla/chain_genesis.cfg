SPECIFICATION Spec
CONSTANTS
  Txs = {}
  Miner = TRUE
  Genesis = TRUE
  QueueCap = 1
  MaxBlocks = 3
  MaxDup = 1
  MaxCrash = 1
INVARIANT TypeOK
INVARIANT PrevStored
INVARIANT LinksAreChildren
INVARIANT TxsStored
INVARIANT ChainContiguous
INVARIANT LinkedFromParent
INVARIANT ChainFollowsHashes
INVARIANT SuccessorsCounted
CHECK_DEADLOCK FALSE
