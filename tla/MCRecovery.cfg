CONSTANTS
  ok1 = ok1  fail = fail  big = big  heavy = heavy
  Txs <- MCTxs
  FailingTxs <- MCFailingTxs
  TxCounters <- MCTxCounters
  TxGas <- MCTxGas
  BatchBudget = 6
  BlockOverhead = 1
  BlockGasLimit = 2
  MaximumOverflowTransactionAttempts = 2
  SealBatchImmediatelyOnOverflow = FALSE
  MaxBlocksPerBatch = 2
  MaxBatches = 3
  MaxYield = 2
  Modes = {"l1", "limbo"}
  SequencerResequenceStrict = FALSE
  Jobs <- MCNoJobs
  L1Recordings <- MCL1Recordings
  BadBatches = {2}
  L1SyncStopBatch = 2
  LimboTxHashes = {ok1, fail, big, heavy}
SPECIFICATION Spec
INVARIANTS NoNilBlockAtBatchEnd LimboRootOfReplayedTx L1BlocksReplayDecoded
