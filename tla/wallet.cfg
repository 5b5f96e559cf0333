SPECIFICATION Spec
CONSTANTS
  Payments <- MCPayments
  Coinbase = Coinbase
  Second = Second
  Peer = Peer
  Reward = 2
  Deposit = 2
  Gas = 1
  Word = 8
  Received = 1
  MaxTxs = 4
  MaxBlocks = 3
  MaxFaults = 1
INVARIANT NothingLost
INVARIANT BalanceExact
INVARIANT PacksOnce
INVARIANT PaysExactly
CHECK_DEADLOCK FALSE
