SPECIFICATION FairSpec
CONSTANTS
  Txs = {}
  Miner = TRUE
  Genesis = TRUE
  QueueCap = 1
  MaxBlocks = 4
  MaxDup = 0
  MaxCrash = 0
PROPERTY EveryBlockQueued
CHECK_DEADLOCK FALSE
