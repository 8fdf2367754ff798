CONSTANTS
  a = a  b = b  c = c  d = d  e = e
  Txs <- MCTxs
  FailingTxs <- MCFailingTxs
  TxCounters <- MCTxCounters
  TxGas <- MCTxGas
  BatchBudget = 6
  BlockOverhead = 1
  BlockGasLimit = 2
  MaximumOverflowTransactionAttempts = 2
  SealBatchImmediatelyOnOverflow = FALSE
  MaxBlocksPerBatch = 2
  MaxBatches = 2
  MaxYield = 2
  Modes = {"none"}
  SequencerResequenceStrict = FALSE
  Jobs <- MCNoJobs
  L1Recordings <- MCNoL1Data
  BadBatches = {}
  L1SyncStopBatch = 0
  LimboTxHashes = {nolimbo}
SPECIFICATION Spec
INVARIANTS TypeOK BatchWithinBudget NoDoubleInclusion NoFittingTxDiscarded
PROPERTIES InclusionListKeepsPending
