CONSTANTS
  ok1 = ok1  ok2 = ok2  fail = fail  mid = mid  big = big  heavy = heavy
  h1 = h1  h2 = h2
  Txs <- MCTxs
  FailingTxs <- MCFailingTxs
  TxCounters <- MCTxCounters
  TxGas <- MCTxGas
  BatchBudget = 6
  BlockOverhead = 1
  BlockGasLimit = 2
  MaximumOverflowTransactionAttempts = 2
  SealBatchImmediatelyOnOverflow = FALSE
  MaxBlocksPerBatch = 2
  MaxBatches = 1
  MaxYield = 2
  Modes = {"resequence"}
  SequencerResequenceStrict = FALSE
  Jobs <- BigLastJobs
  L1Recordings <- MCNoL1Data
  BadBatches = {}
  L1SyncStopBatch = 0
  LimboTxHashes = {nolimbo}
SPECIFICATION Spec
INVARIANTS ReplayPreservesBlocks
