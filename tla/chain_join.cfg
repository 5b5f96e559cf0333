SPECIFICATION FairSpec
CONSTANTS
  Txs = {t1}
  Miner = FALSE
  Genesis = FALSE
  QueueCap = 1
  MaxBlocks = 3
  MaxDup = 0
  MaxCrash = 0
INVARIANT StoreInv
INVARIANT HighestCovers
PROPERTY EveryBlockQueued
PROPERTY SaverReturns
CHECK_DEADLOCK FALSE
