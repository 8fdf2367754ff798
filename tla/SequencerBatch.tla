--------------------------- MODULE SequencerBatch ---------------------------
(***************************************************************************)
(* The block/transaction loop of the sequencing stage                    *)
(* (src/zk/stages/stage_sequence_execute.go, sequencingBatchStep) in      *)
(* fresh mode and in resequence mode: one stage invocation builds one     *)
(* batch of blocks, each block admitting candidate transactions under the *)
(* batch resource-counter budget, under a block seal ticker and a batch   *)
(* timeout ticker.  In fresh mode the candidates come from the pool and   *)
(* consecutive invocations build consecutive batches over the same pool   *)
(* and chain; in resequence mode they come from a ResequenceBatchJob that *)
(* replays a recorded batch, and the tickers are ignored.                 *)
(*                                                                         *)
(* The resource counters are one dimension: a transaction costs           *)
(* TxCounters[t] units and every block start costs BlockOverhead units.   *)
(* The counter collector, the pool and the transaction executor are       *)
(* collaborators outside src/ and are modelled from their contract.       *)
(***************************************************************************)
EXTENDS Integers, Sequences, SequencesExt, FiniteSets, ResequenceJob

CONSTANTS
  Txs,              \* transactions the pool can hold (model values)
  FailingTxs,       \* transactions whose execution returns an error
  TxCounters,       \* Txs -> counter units used by the transaction
  TxGas,            \* Txs -> gas used by the transaction
  BatchBudget,      \* counter units a batch may use
  BlockOverhead,    \* counter units StartNewBlock charges for a block
  BlockGasLimit,    \* gas limit of one block
  MaximumOverflowTransactionAttempts, \* 5 in the code
  SealBatchImmediatelyOnOverflow,     \* cfg.zk.SealBatchImmediatelyOnOverflow
  MaxBlocksPerBatch, \* block seal intervals in one batch timeout interval
  MaxBatches,       \* stage invocations explored
  MaxYield,         \* most transactions one pool yield returns
  Modes,            \* modes newBatchState may resolve: "none" (fresh),
                    \* "resequence", "l1" or "limbo"
  SequencerResequenceStrict, \* cfg.zk.SequencerResequenceStrict
  Jobs,             \* recorded batches a resequence job may replay
  L1Recordings,     \* possible L1 data: batch -> its decoded blocks
  BadBatches,       \* cfg.zk.BadBatches
  L1SyncStopBatch,  \* cfg.zk.L1SyncStopBatch (0: no stop batch)
  LimboTxHashes     \* transactions the pool may report in limbo

ASSUME FailingTxs \subseteq Txs
ASSUME TxCounters \in [Txs -> Nat \ {0}] /\ TxGas \in [Txs -> Nat \ {0}]
ASSUME BatchBudget > BlockOverhead /\ BlockOverhead \in Nat
ASSUME MaximumOverflowTransactionAttempts \in Nat \ {0}
ASSUME SealBatchImmediatelyOnOverflow \in BOOLEAN
ASSUME MaxBlocksPerBatch \in Nat \ {0} /\ MaxBatches \in Nat \ {0}
ASSUME MaxYield \in Nat \ {0}
ASSUME Modes \subseteq {"none", "resequence", "l1", "limbo"}
ASSUME SequencerResequenceStrict \in BOOLEAN
\* a resequence job replays one recorded batch per invocation
ASSUME "resequence" \in Modes => MaxBatches = 1
ASSUME L1Recordings \subseteq [1..MaxBatches -> Seq(Seq(Txs))]
ASSUME BadBatches \subseteq Nat /\ L1SyncStopBatch \in Nat
ASSUME "limbo" \in Modes => LimboTxHashes \subseteq Txs

\* durable state shared by all stage invocations
VARIABLES
  pool,          \* pending transactions of the transaction pool
  chain,         \* committed blocks: << [batch, txs] ... >>
  badTxCounter,  \* hermezDb bad tx hash counter: Txs -> Nat
  reports,       \* StartAsyncVerification submissions: [batch, usage]
  batchNumber,   \* batch under construction
  invalidBatches, \* batches writeBadBatchDetails recorded as bad
  limboRoots,    \* UpdateLimboRootByTxHash: [tx, txs of the block]
  l1Data         \* batch -> its blocks decoded from L1 call data

\* BatchState / BlockState of one invocation
VARIABLES
  yieldedTransactions,      \* transactions the pool already yielded
  hasAnyTransactionsInThisBatch,
  builtBlocks,              \* block numbers built in this batch
  overflowTransactions,
  transactionsForInclusion, \* sequence of candidate transactions
  transactionsToDiscard,    \* failed transactions to remove from the pool
  blockTxs,                 \* builtBlockElements.transactions
  usage,                    \* batch counter collector usage
  blockGas,                 \* gas used by the block under construction
  limboTxHash,              \* limboRecoveryData.limboTxHash
  mode                      \* the recovery mode newBatchState resolved

\* loop control of sequencingBatchStep
VARIABLES
  pc,                 \* "BlockStart", "Select", "Inner", "PostInner",
                      \* "EndBlock", "FinishBatch", "Done", or the stage
                      \* returned an error ("Error") or panicked ("Panic")
  idx,                \* index of the inner transaction loop
  badTxHashes, minedTxHashes,
  runLoopBlocks, batchTimedOut, innerBreak, emptyBlockOverflow,
  blockTick, batchTick \* a tick waiting in blockTicker.C / batchTicker.C

durable == <<pool, chain, badTxCounter, reports, batchNumber, invalidBatches,
            limboRoots, l1Data>>
batchVars == <<yieldedTransactions, hasAnyTransactionsInThisBatch, builtBlocks,
               overflowTransactions, transactionsForInclusion,
               transactionsToDiscard, blockTxs, usage, blockGas, limboTxHash, mode>>
control == <<pc, idx, badTxHashes, minedTxHashes, runLoopBlocks, batchTimedOut,
             innerBreak, emptyBlockOverflow, blockTick, batchTick>>
vars == <<durable, batchVars, control, jobVars>>

-----------------------------------------------------------------------------
(* Helpers *)

\* batchState.isAnyRecovery / isResequence
IsAnyRecovery == mode # "none"
IsResequence == mode = "resequence"
\* batchState.isL1Recovery / isLimboRecovery
IsL1Recovery == mode = "l1"
IsLimboRecovery == mode = "limbo"

ChainTxs == UNION {ToSet(chain[i].txs) : i \in DOMAIN chain}

\* the blocks committed for the batch under construction
\* (hermezDb.GetL2BlockNosByBatch reads them in the open transaction)
BatchBlocks == SelectSeq(chain, LAMBDA blk : blk.batch = batchNumber)

\* L1 recovery data of the batch (loadBatchData, hasAnyDecodedBlocks)
recoveredBatchDataSize == Len(l1Data[batchNumber])
hasAnyDecodedBlocks == recoveredBatchDataSize > 0

\* mutant: the last decoded block is taken for the end of the data
getDecodedL1RecoveredBatchDataByIndexOffByOne(decodedBlocksIndex) ==
  decodedBlocksIndex + 1 # recoveredBatchDataSize

\* getDecodedL1RecoveredBatchDataByIndex: found unless the index is the
\* number of decoded blocks
getDecodedL1RecoveredBatchDataByIndex(decodedBlocksIndex) ==
  decodedBlocksIndex # recoveredBatchDataSize

\* loadBlockL1RecoveryData(len(blockNumbersInBatchSoFar)): the decoded
\* block for the next block of the batch is found (the decoded data itself
\* only feeds the header's timestamp)
loadBlockL1RecoveryData ==
  getDecodedL1RecoveredBatchDataByIndex(Len(BatchBlocks))

\* usage of one committed block: StartNewBlock plus its transactions
BlockUsage(txs) == BlockOverhead + SumFunctionOnSet(TxCounters, ToSet(txs))

\* tempCounters.SingleTransactionOverflowCheck: the transaction alone
\* in a fresh batch of one block overflows the budget
SingleTransactionOverflow(t) == BlockOverhead + TxCounters[t] > BatchBudget

reachedOverflowTransactionLimit(n) == n >= MaximumOverflowTransactionAttempts

\* batchState.onBuiltBlock: the block number joins the batch's blocks
onBuiltBlock(n) == builtBlocks' = Append(builtBlocks, n)

\* builtBlockElements.resetBlockBuildingArrays at each block start (the
\* rest of BlockState, the discard list included, lives for the batch)
resetBlockBuildingArrays == blockTxs' = << >>

\* where an invocation starts: an L1 recovery first loads and checks the
\* batch's L1 data, the other modes enter the block loop
EntryPc == IF IsL1Recovery THEN "L1Check" ELSE "BlockStart"

\* newBlockState: the BlockState of a batch, with no candidates, nothing
\* to discard and no built transactions
newBlockState ==
  /\ transactionsForInclusion = <<>>
  /\ transactionsToDiscard = {}
  /\ blockTxs = <<>>

\* a fresh BatchState (newBatchState), fresh counters (prepareBatchCounters)
\* and fresh tickers (prepareTickers)
NewBatchState ==
  /\ yieldedTransactions = {}
  /\ hasAnyTransactionsInThisBatch = FALSE
  /\ builtBlocks = <<>>
  /\ overflowTransactions = 0
  /\ newBlockState
  /\ usage = 0
  /\ blockGas = 0
  /\ pc = EntryPc
  /\ idx = 1
  /\ badTxHashes = {} /\ minedTxHashes = {}
  /\ runLoopBlocks = TRUE /\ batchTimedOut = FALSE
  /\ innerBreak = FALSE /\ emptyBlockOverflow = FALSE
  /\ blockTick = FALSE /\ batchTick = FALSE

\* the same state for the next stage invocation
NewBatchStateNext ==
  /\ yieldedTransactions' = {}
  /\ hasAnyTransactionsInThisBatch' = FALSE
  /\ builtBlocks' = <<>>
  /\ overflowTransactions' = 0
  /\ transactionsForInclusion' = <<>>
  /\ transactionsToDiscard' = {}
  /\ blockTxs' = <<>>
  /\ usage' = 0
  /\ blockGas' = 0
  /\ pc' = EntryPc
  /\ idx' = 1
  /\ badTxHashes' = {} /\ minedTxHashes' = {}
  /\ runLoopBlocks' = TRUE /\ batchTimedOut' = FALSE
  /\ innerBreak' = FALSE /\ emptyBlockOverflow' = FALSE
  /\ blockTick' = FALSE /\ batchTick' = FALSE

\* newLimboRecoveryData: the limbo transaction the pool reported (the
\* timestamp of its block only forces the header and is not modelled)
newLimboRecoveryData(h) == limboTxHash = h

Init ==
  /\ pool = Txs
  /\ chain = <<>>
  /\ badTxCounter = [t \in Txs |-> 0]
  /\ reports = <<>>
  /\ batchNumber = 1
  /\ invalidBatches = {}
  /\ limboRoots = {}
  /\ l1Data \in L1Recordings
  /\ mode \in Modes
  /\ NewBatchState
  /\ \E h \in LimboTxHashes : newLimboRecoveryData(h)
  /\ \E batch \in Jobs : NewResequenceBatchJob(batch)

-----------------------------------------------------------------------------
(* The executor and counter collector (attemptAddTransaction, outside     *)
(* src/): an execution error leaves the counters alone; otherwise the     *)
(* transaction's counters are added to the collector and the result is    *)
(* an overflow of the counters, else of the block gas, else none.          *)

AttemptAddTransaction(t) ==
  IF t \in FailingTxs THEN "error"
  ELSE IF usage + TxCounters[t] > BatchBudget THEN "overflowCounters"
  ELSE IF blockGas + TxGas[t] > BlockGasLimit THEN "overflowGas"
  ELSE "overflowNone"

-----------------------------------------------------------------------------
(* L1 recovery before the block loop (sequencingBatchStep, 185-224) *)

\* the loop control apart from pc
loopLocals == <<idx, badTxHashes, minedTxHashes, runLoopBlocks, batchTimedOut,
                innerBreak, emptyBlockOverflow, blockTick, batchTick>>

\* the batch is past cfg.zk.L1SyncStopBatch: recovery has completed and the
\* invocation returns nil without building anything
L1RecoveryCompleted ==
  L1SyncStopBatch > 0 /\ batchNumber > L1SyncStopBatch

\* doCheckForBadBatch (outside src/): the outcomes of checking the batch's
\* L1 data
DoCheckForBadBatch == BOOLEAN

\* recovery has completed: return nil
L1RecoveryHasCompleted ==
  /\ pc = "L1Check"
  /\ L1RecoveryCompleted
  /\ pc' = "Idle"
  /\ UNCHANGED <<jobVars, durable, batchVars, loopLocals>>

\* loadBatchData finds no decoded block for the batch: return nil
L1NoDecodedBlocks ==
  /\ pc = "L1Check"
  /\ ~L1RecoveryCompleted /\ ~hasAnyDecodedBlocks
  /\ pc' = "Idle"
  /\ UNCHANGED <<jobVars, durable, batchVars, loopLocals>>

\* the batch is listed in cfg.zk.BadBatches or doCheckForBadBatch finds it
\* bad: writeBadBatchDetails records it and the invocation returns
L1BadBatch ==
  /\ pc = "L1Check"
  /\ ~L1RecoveryCompleted /\ hasAnyDecodedBlocks
  /\ \E bad \in DoCheckForBadBatch : batchNumber \in BadBatches \/ bad
  /\ invalidBatches' = invalidBatches \cup {batchNumber}
  /\ pc' = "Done"
  /\ UNCHANGED <<jobVars, pool, chain, badTxCounter, reports, batchNumber,
                 limboRoots, batchVars, loopLocals, l1Data>>

\* the batch is to be recovered: the tickers start and the block loop runs
L1BatchToRecover ==
  /\ pc = "L1Check"
  /\ ~L1RecoveryCompleted /\ hasAnyDecodedBlocks
  /\ batchNumber \notin BadBatches /\ FALSE \in DoCheckForBadBatch
  /\ pc' = "BlockStart"
  /\ UNCHANGED <<jobVars, durable, batchVars, loopLocals>>

-----------------------------------------------------------------------------
(* The block loop (for blockNumber := executionAt + 1; runLoopBlocks; ...) *)

\* the loop condition fails, or the batch ticker has ticked
LeaveBlockLoop ==
  /\ pc = "BlockStart"
  /\ ~runLoopBlocks \/ batchTimedOut
  /\ pc' = "FinishBatch"
  /\ UNCHANGED <<jobVars, durable, batchVars, idx, badTxHashes, minedTxHashes,
                 runLoopBlocks, batchTimedOut, innerBreak, emptyBlockOverflow,
                 blockTick, batchTick>>

\* L1 recovery: the batch holds as many blocks as were decoded from L1, so
\* the next block is not part of it; the block loop stops
L1BlockNotInBatch ==
  /\ pc = "BlockStart" /\ runLoopBlocks /\ ~batchTimedOut
  /\ IsL1Recovery /\ ~loadBlockL1RecoveryData
  /\ pc' = "FinishBatch"
  /\ UNCHANGED <<jobVars, durable, batchVars, loopLocals>>

\* blockTicker.Reset does not drain a tick already in the channel
ResetBlockTicker == blockTick' \in {FALSE, blockTick}

\* a resequence job with every recorded block processed ends the block
\* loop (after the verifier has no pending verifications)
ResequenceDrained ==
  /\ pc = "BlockStart" /\ runLoopBlocks /\ ~batchTimedOut
  /\ IsResequence /\ ~HasMoreBlockToProcess
  /\ runLoopBlocks' = FALSE
  /\ pc' = "FinishBatch"
  /\ UNCHANGED <<jobVars, durable, batchVars, idx, badTxHashes, minedTxHashes,
                 batchTimedOut, innerBreak, emptyBlockOverflow, blockTick,
                 batchTick>>

\* the checks before StartNewBlock: an L1 recovery has a decoded block for
\* it, a resequence job has a block left
BlockToStart ==
  /\ pc = "BlockStart" /\ runLoopBlocks /\ ~batchTimedOut
  /\ IsL1Recovery => loadBlockL1RecoveryData
  /\ IsResequence => HasMoreBlockToProcess

\* fresh mode and resequence mode stop at a block start overflow
BreakOnBlockOverflow(overflow) ==
  overflow /\ (~IsAnyRecovery \/ IsResequence)

\* batchCounters.StartNewBlock overflows: stop without this block
StartBlockOverflow ==
  /\ BlockToStart
  /\ BreakOnBlockOverflow(usage + BlockOverhead > BatchBudget)
  /\ ResetBlockTicker
  /\ pc' = "FinishBatch"
  /\ UNCHANGED <<jobVars, durable, batchVars, idx, badTxHashes, minedTxHashes,
                 runLoopBlocks, batchTimedOut, innerBreak, emptyBlockOverflow,
                 batchTick>>

\* mutant: StartNewBlock does not charge the block
StartBlockUncharged ==
  /\ BlockToStart
  /\ ~BreakOnBlockOverflow(usage + BlockOverhead > BatchBudget)
  /\ ResetBlockTicker
  /\ blockTxs' = <<>>
  /\ blockGas' = 0
  /\ innerBreak' = FALSE /\ emptyBlockOverflow' = FALSE
  /\ pc' = "Select"
  /\ UNCHANGED <<jobVars, durable, yieldedTransactions, hasAnyTransactionsInThisBatch,
                 builtBlocks, overflowTransactions, transactionsForInclusion,
                 transactionsToDiscard, idx, badTxHashes, minedTxHashes,
                 runLoopBlocks, batchTimedOut, batchTick, usage,
                 limboTxHash, mode>>

\* a new block: counters charged, block arrays reset, intake loop entered
StartBlock ==
  /\ BlockToStart
  /\ ~BreakOnBlockOverflow(usage + BlockOverhead > BatchBudget)
  /\ ResetBlockTicker
  /\ usage' = usage + BlockOverhead
  /\ resetBlockBuildingArrays
  /\ blockGas' = 0
  /\ innerBreak' = FALSE /\ emptyBlockOverflow' = FALSE
  /\ pc' = "Select"
  /\ UNCHANGED <<jobVars, durable, yieldedTransactions, hasAnyTransactionsInThisBatch,
                 builtBlocks, overflowTransactions, transactionsForInclusion,
                 transactionsToDiscard, idx, badTxHashes, minedTxHashes,
                 runLoopBlocks, batchTimedOut, batchTick,
                 limboTxHash, mode>>

-----------------------------------------------------------------------------
(* The select of OuterLoopTransactions *)

SelectInnerBreak ==
  /\ pc = "Select" /\ innerBreak
  /\ pc' = "EndBlock"
  /\ UNCHANGED <<jobVars, durable, batchVars, idx, badTxHashes, minedTxHashes,
                 runLoopBlocks, batchTimedOut, innerBreak, emptyBlockOverflow,
                 blockTick, batchTick>>

\* mutant: the tick is consumed but the block is not sealed
SelectBlockTickIgnored ==
  /\ pc = "Select" /\ ~innerBreak /\ blockTick /\ ~IsAnyRecovery
  /\ blockTick' = FALSE
  /\ UNCHANGED <<jobVars, durable, batchVars, pc, idx, badTxHashes, minedTxHashes,
                 runLoopBlocks, batchTimedOut, innerBreak, emptyBlockOverflow,
                 batchTick>>

\* case <-blockTicker.C: seal the block
SelectBlockTick ==
  /\ pc = "Select" /\ ~innerBreak /\ blockTick /\ ~IsAnyRecovery
  /\ blockTick' = FALSE
  /\ pc' = "EndBlock"
  /\ UNCHANGED <<jobVars, durable, batchVars, idx, badTxHashes, minedTxHashes,
                 runLoopBlocks, batchTimedOut, innerBreak, emptyBlockOverflow,
                 batchTick>>

\* case <-batchTicker.C: close the batch after this block (not in recovery)
SelectBatchTick ==
  /\ pc = "Select" /\ ~innerBreak /\ batchTick /\ ~IsAnyRecovery
  /\ batchTick' = FALSE
  /\ batchTimedOut' = TRUE
  /\ UNCHANGED <<jobVars, durable, batchVars, pc, idx, badTxHashes, minedTxHashes,
                 runLoopBlocks, innerBreak, emptyBlockOverflow, blockTick>>

\* default: getNextPoolTransactions yields pending transactions not yielded
\* before in this batch, appended to the inclusion list
SelectDefault ==
  /\ pc = "Select" /\ ~innerBreak /\ ~blockTick /\ ~batchTick
  /\ ~IsAnyRecovery
  /\ \E new \in SUBSET (pool \ yieldedTransactions) :
       /\ Cardinality(new) <= MaxYield
       /\ \E order \in SetToSeqs(new) :
            transactionsForInclusion' = transactionsForInclusion \o order
       /\ yieldedTransactions' = yieldedTransactions \cup new
  /\ idx' = 1
  /\ badTxHashes' = {} /\ minedTxHashes' = {}
  /\ pc' = "Inner"
  /\ UNCHANGED <<jobVars, durable, hasAnyTransactionsInThisBatch, builtBlocks,
                 overflowTransactions, transactionsToDiscard, blockTxs, usage,
                 blockGas, runLoopBlocks, batchTimedOut, innerBreak,
                 emptyBlockOverflow, blockTick, batchTick,
                 limboTxHash, mode>>

\* default in resequence mode: the inclusion list is replaced by the rest of
\* the job's current block (YieldNextBlockTransactions)
SelectResequence ==
  /\ pc = "Select" /\ ~innerBreak /\ ~blockTick /\ ~batchTick
  /\ IsResequence
  /\ transactionsForInclusion' = YieldedTransactions
  /\ YieldNextBlockTransactions
  /\ idx' = 1
  /\ badTxHashes' = {} /\ minedTxHashes' = {}
  /\ pc' = "Inner"
  /\ UNCHANGED <<batchToProcess, StartBlockIndex, StartTxIndex, durable,
                 yieldedTransactions, hasAnyTransactionsInThisBatch,
                 builtBlocks, overflowTransactions, transactionsToDiscard,
                 blockTxs, usage, blockGas, runLoopBlocks, batchTimedOut,
                 innerBreak, emptyBlockOverflow, blockTick, batchTick,
                 limboTxHash, mode>>

\* default in limbo recovery: the inclusion list is the limbo transaction
\* (getLimboTransaction)
SelectLimbo ==
  /\ pc = "Select" /\ ~innerBreak
  /\ IsLimboRecovery
  /\ transactionsForInclusion' = << limboTxHash >>
  /\ idx' = 1
  /\ badTxHashes' = {} /\ minedTxHashes' = {}
  /\ pc' = "Inner"
  /\ UNCHANGED <<jobVars, durable, yieldedTransactions,
                 hasAnyTransactionsInThisBatch, builtBlocks,
                 overflowTransactions, transactionsToDiscard, blockTxs, usage,
                 blockGas, limboTxHash, mode, runLoopBlocks, batchTimedOut,
                 innerBreak, emptyBlockOverflow, blockTick, batchTick>>

\* the transactions of the decoded block loaded for this block
\* (setBlockL1RecoveryData): the list the inner loop executes in L1
\* recovery, indexed by the L1 effective gases (411)
DecodedBlockTxs == l1Data[batchNumber][Len(BatchBlocks) + 1]

\* default in L1 recovery: no branch yields from the pool; the inner loop
\* runs over the decoded block's transactions
SelectL1 ==
  /\ pc = "Select" /\ ~innerBreak
  /\ IsL1Recovery
  /\ transactionsForInclusion' = DecodedBlockTxs
  /\ idx' = 1
  /\ badTxHashes' = {} /\ minedTxHashes' = {}
  /\ pc' = "Inner"
  /\ UNCHANGED <<jobVars, durable, yieldedTransactions,
                 hasAnyTransactionsInThisBatch, builtBlocks,
                 overflowTransactions, transactionsToDiscard, blockTxs, usage,
                 blockGas, limboTxHash, mode, runLoopBlocks, batchTimedOut,
                 innerBreak, emptyBlockOverflow, blockTick, batchTick>>

-----------------------------------------------------------------------------
(* InnerLoopTransactions: one step per candidate transaction.            *)

InInner == pc = "Inner" /\ idx <= Len(transactionsForInclusion)

Current == transactionsForInclusion[idx]

\* every candidate has been tried
InnerEnd ==
  /\ pc = "Inner" /\ idx > Len(transactionsForInclusion)
  /\ pc' = "PostInner"
  /\ UNCHANGED <<jobVars, durable, batchVars, idx, badTxHashes, minedTxHashes,
                 runLoopBlocks, batchTimedOut, innerBreak, emptyBlockOverflow,
                 blockTick, batchTick>>

\* the quick blockTicker check before each transaction
InnerBlockTick ==
  /\ InInner /\ blockTick /\ ~IsAnyRecovery
  /\ blockTick' = FALSE
  /\ innerBreak' = TRUE
  /\ pc' = "PostInner"
  /\ UNCHANGED <<jobVars, durable, batchVars, idx, badTxHashes, minedTxHashes,
                 runLoopBlocks, batchTimedOut, emptyBlockOverflow, batchTick>>

\* mutant: the limbo error is logged and skipped like an L1 recovery error
TxFailedLimboSkipped ==
  /\ InInner
  /\ AttemptAddTransaction(Current) = "error"
  /\ IsLimboRecovery
  /\ idx' = idx + 1
  /\ UNCHANGED <<jobVars, durable, batchVars, pc, badTxHashes, minedTxHashes,
                 runLoopBlocks, batchTimedOut, innerBreak, emptyBlockOverflow,
                 blockTick, batchTick>>

\* a limbo transaction fails to execute again: panic
TxFailedLimbo ==
  /\ InInner
  /\ AttemptAddTransaction(Current) = "error"
  /\ IsLimboRecovery
  /\ pc' = "Panic"
  /\ UNCHANGED <<jobVars, durable, batchVars, loopLocals>>

\* a limbo transaction overflows the counters again: panic (after adding
\* its hash to badTxHashes)
TxOverflowLimbo ==
  /\ InInner
  /\ AttemptAddTransaction(Current) = "overflowCounters"
  /\ IsLimboRecovery
  /\ badTxHashes' = badTxHashes \cup {Current}
  /\ pc' = "Panic"
  /\ UNCHANGED <<jobVars, durable, batchVars, idx, minedTxHashes,
                 runLoopBlocks, batchTimedOut, innerBreak, emptyBlockOverflow,
                 blockTick, batchTick>>

\* execution error in resequence mode under the strict setting: the stage
\* returns an error
TxFailedStrict ==
  /\ InInner /\ ~blockTick
  /\ AttemptAddTransaction(Current) = "error"
  /\ IsResequence /\ SequencerResequenceStrict
  /\ pc' = "Error"
  /\ UNCHANGED <<jobVars, durable, batchVars, idx, badTxHashes, minedTxHashes,
                 runLoopBlocks, batchTimedOut, innerBreak, emptyBlockOverflow,
                 blockTick, batchTick>>

\* execution error in resequence mode otherwise: logged, and the loop goes
\* on with the next transaction (continue), before UpdateLastProcessedTx
TxFailedSkipped ==
  /\ InInner /\ ~blockTick
  /\ AttemptAddTransaction(Current) = "error"
  /\ IsResequence /\ ~SequencerResequenceStrict
  /\ idx' = idx + 1
  /\ UNCHANGED <<jobVars, durable, batchVars, pc, badTxHashes, minedTxHashes,
                 runLoopBlocks, batchTimedOut, innerBreak, emptyBlockOverflow,
                 blockTick, batchTick>>

\* execution error in L1 recovery: the data is confirmed on L1, so the
\* error is logged and the loop goes on with the next transaction
TxFailedL1 ==
  /\ InInner
  /\ AttemptAddTransaction(Current) = "error"
  /\ IsL1Recovery
  /\ idx' = idx + 1
  /\ UNCHANGED <<jobVars, durable, batchVars, pc, badTxHashes, minedTxHashes,
                 runLoopBlocks, batchTimedOut, innerBreak, emptyBlockOverflow,
                 blockTick, batchTick>>

\* execution error in fresh mode: discard the transaction from the pool at
\* block end
TxFailed ==
  /\ InInner /\ ~blockTick
  /\ AttemptAddTransaction(Current) = "error"
  /\ ~IsAnyRecovery
  /\ badTxHashes' = badTxHashes \cup {Current}
  /\ transactionsToDiscard' = transactionsToDiscard \cup {Current}
  /\ idx' = idx + 1
  /\ UNCHANGED <<jobVars, durable, yieldedTransactions, hasAnyTransactionsInThisBatch,
                 builtBlocks, overflowTransactions, transactionsForInclusion,
                 blockTxs, usage, blockGas, pc, minedTxHashes, runLoopBlocks,
                 batchTimedOut, innerBreak, emptyBlockOverflow, blockTick,
                 batchTick,
                 limboTxHash, mode>>

\* handleBadTxHashCounter: the persisted counter of the hash goes up by one
handleBadTxHashCounter(txHash) ==
  badTxCounter' = [badTxCounter EXCEPT ![txHash] = @ + 1]

\* the transaction can never fit a batch, or the batch is still empty
MarkAsBad(t) ==
  SingleTransactionOverflow(t)
  \/ (~hasAnyTransactionsInThisBatch /\ builtBlocks = <<>>)

\* counter overflow of a transaction that cannot fit: MarkForDiscardFromPendingBest,
\* handleBadTxHashCounter, RemovePreviousTransactionCounters
TxOverflowDiscard ==
  /\ InInner /\ ~blockTick
  /\ AttemptAddTransaction(Current) = "overflowCounters"
  /\ ~IsLimboRecovery /\ ~IsL1Recovery
  /\ MarkAsBad(Current)
  /\ badTxHashes' = badTxHashes \cup {Current}
  /\ pool' = pool \ {Current}
  /\ handleBadTxHashCounter(Current)
  /\ idx' = idx + 1
  /\ UNCHANGED <<jobVars, chain, reports, batchNumber, batchVars, pc, minedTxHashes,
                 runLoopBlocks, batchTimedOut, innerBreak, emptyBlockOverflow,
                 blockTick, batchTick,
                 invalidBatches, limboRoots, l1Data>>

\* batchState.newOverflowTransaction()
newOverflowTransaction == overflowTransactions' = overflowTransactions + 1

CloseOnOverflow ==
  reachedOverflowTransactionLimit(overflowTransactions + 1)
  \/ SealBatchImmediatelyOnOverflow

\* counter overflow of a transaction left for a later batch; its counters
\* are removed again (RemovePreviousTransactionCounters)
TxOverflowDeferred ==
  /\ InInner /\ ~blockTick
  /\ AttemptAddTransaction(Current) = "overflowCounters"
  /\ ~IsLimboRecovery /\ ~IsL1Recovery
  /\ ~MarkAsBad(Current)
  /\ ~CloseOnOverflow
  /\ newOverflowTransaction
  /\ badTxHashes' = badTxHashes \cup {Current}
  /\ idx' = idx + 1
  /\ UNCHANGED <<jobVars, durable, yieldedTransactions, hasAnyTransactionsInThisBatch,
                 builtBlocks, transactionsForInclusion, transactionsToDiscard,
                 blockTxs, usage, blockGas, pc, minedTxHashes, runLoopBlocks,
                 batchTimedOut, innerBreak, emptyBlockOverflow, blockTick,
                 batchTick,
                 limboTxHash, mode>>

\* counter overflow reaching the overflow limit: break OuterLoopTransactions
\* before RemovePreviousTransactionCounters, so the collector keeps the
\* counters of the transaction that was not included
TxOverflowCloseBatch ==
  /\ InInner /\ ~blockTick
  /\ AttemptAddTransaction(Current) = "overflowCounters"
  /\ ~IsLimboRecovery /\ ~IsL1Recovery
  /\ ~MarkAsBad(Current)
  /\ CloseOnOverflow
  /\ newOverflowTransaction
  /\ badTxHashes' = badTxHashes \cup {Current}
  /\ usage' = usage + TxCounters[Current]
  /\ runLoopBlocks' = FALSE
  /\ emptyBlockOverflow' = (blockTxs = <<>>)
  /\ pc' = "EndBlock"
  /\ UNCHANGED <<jobVars, durable, yieldedTransactions, hasAnyTransactionsInThisBatch,
                 builtBlocks, transactionsForInclusion, transactionsToDiscard,
                 blockTxs, blockGas, idx, minedTxHashes, batchTimedOut,
                 innerBreak, blockTick, batchTick,
                 limboTxHash, mode>>

\* block gas overflow: close the block and the batch; the transaction stays
\* pending and its counters stay in the collector
TxGasOverflow ==
  /\ InInner /\ ~blockTick
  /\ AttemptAddTransaction(Current) = "overflowGas"
  /\ ~IsAnyRecovery
  /\ usage' = usage + TxCounters[Current]
  /\ runLoopBlocks' = FALSE
  /\ pc' = "EndBlock"
  /\ UNCHANGED <<jobVars, durable, yieldedTransactions, hasAnyTransactionsInThisBatch,
                 builtBlocks, overflowTransactions, transactionsForInclusion,
                 transactionsToDiscard, blockTxs, blockGas, idx, badTxHashes,
                 minedTxHashes, batchTimedOut, innerBreak, emptyBlockOverflow,
                 blockTick, batchTick,
                 limboTxHash, mode>>

\* block gas overflow in recovery: panic
TxGasOverflowPanic ==
  /\ InInner /\ ~blockTick
  /\ AttemptAddTransaction(Current) = "overflowGas"
  /\ IsAnyRecovery
  /\ pc' = "Panic"
  /\ UNCHANGED <<jobVars, durable, batchVars, idx, badTxHashes, minedTxHashes,
                 runLoopBlocks, batchTimedOut, innerBreak, emptyBlockOverflow,
                 blockTick, batchTick>>

\* mutant: the batch is not marked as having transactions
onAddedTransactionNoMark(t) ==
  /\ blockTxs' = Append(blockTxs, t)
  /\ UNCHANGED hasAnyTransactionsInThisBatch

\* builtBlockElements.onFinishAddingTransaction: the transaction is
\* appended (its receipt, result and effective gas, index-aligned with it,
\* are not modelled)
onFinishAddingTransaction(t) == blockTxs' = Append(blockTxs, t)

\* batchState.onAddedTransaction
onAddedTransaction(t) ==
  /\ onFinishAddingTransaction(t)
  /\ hasAnyTransactionsInThisBatch' = TRUE

\* a resequence job moves its cursor past the mined transaction
ResequenceAdvance(t) ==
  IF IsResequence THEN UpdateLastProcessedTx(t)
  ELSE UNCHANGED <<StartBlockIndex, StartTxIndex>>

\* no overflow: the transaction is mined into the block
TxAdded ==
  /\ InInner /\ ~blockTick
  /\ AttemptAddTransaction(Current) = "overflowNone"
  /\ usage' = usage + TxCounters[Current]
  /\ blockGas' = blockGas + TxGas[Current]
  /\ onAddedTransaction(Current)
  /\ minedTxHashes' = minedTxHashes \cup {Current}
  /\ idx' = idx + 1
  /\ ResequenceAdvance(Current)
  /\ UNCHANGED <<batchToProcess, txIndexMap, durable, yieldedTransactions, builtBlocks,
                 overflowTransactions, transactionsForInclusion,
                 transactionsToDiscard, pc, badTxHashes, runLoopBlocks,
                 batchTimedOut, innerBreak, emptyBlockOverflow, blockTick,
                 batchTick,
                 limboTxHash, mode>>

\* mutant: an overflowing L1 transaction is left out like a deferred one
TxOverflowL1Skipped ==
  /\ InInner
  /\ AttemptAddTransaction(Current) = "overflowCounters"
  /\ IsL1Recovery
  /\ badTxHashes' = badTxHashes \cup {Current}
  /\ idx' = idx + 1
  /\ UNCHANGED <<jobVars, durable, batchVars, pc, minedTxHashes,
                 runLoopBlocks, batchTimedOut, innerBreak, emptyBlockOverflow,
                 blockTick, batchTick>>

\* counter overflow in L1 recovery: the hash joins badTxHashes, but the
\* discard and close checks are skipped (465) and, with no error, the
\* transaction is added to the block like any other (525-529); its
\* counters stay in the collector
TxOverflowL1 ==
  /\ InInner
  /\ AttemptAddTransaction(Current) = "overflowCounters"
  /\ IsL1Recovery
  /\ badTxHashes' = badTxHashes \cup {Current}
  /\ usage' = usage + TxCounters[Current]
  /\ blockGas' = blockGas + TxGas[Current]
  /\ onAddedTransaction(Current)
  /\ minedTxHashes' = minedTxHashes \cup {Current}
  /\ idx' = idx + 1
  /\ UNCHANGED <<jobVars, durable, yieldedTransactions, builtBlocks,
                 overflowTransactions, transactionsForInclusion,
                 transactionsToDiscard, pc, runLoopBlocks, batchTimedOut,
                 innerBreak, emptyBlockOverflow, blockTick, batchTick,
                 limboTxHash, mode>>

\* removeInclusionTransaction: the list without the element at index, if
\* there is one
removeInclusionTransaction(orig, index) ==
  IF index < 1 \/ index > Len(orig) THEN orig ELSE RemoveAt(orig, index)

\* mutant: the removal loop runs from the first index up, over a list that
\* shrinks under it
RECURSIVE RemoveAscending(_, _)
RemoveAscending(list, i) ==
  IF i > Len(list) THEN list
  ELSE LET hash == list[i]
           afterBad == IF hash \in badTxHashes
                       THEN removeInclusionTransaction(list, i) ELSE list
           afterMined == IF hash \in minedTxHashes
                         THEN removeInclusionTransaction(afterBad, i)
                         ELSE afterBad
       IN RemoveAscending(afterMined, i + 1)
RemoveBadAndMinedAscending(list, i) == RemoveAscending(list, 1)

\* the removal loop over the inclusion list, from index i down to 1: the
\* hash is read before the removals, a bad hash removes index i, then a
\* mined hash removes index i again
RECURSIVE RemoveBadAndMined(_, _)
RemoveBadAndMined(list, i) ==
  IF i = 0 THEN list
  ELSE LET hash == list[i]
           afterBad == IF hash \in badTxHashes
                       THEN removeInclusionTransaction(list, i) ELSE list
           afterMined == IF hash \in minedTxHashes
                         THEN removeInclusionTransaction(afterBad, i)
                         ELSE afterBad
       IN RemoveBadAndMined(afterMined, i - 1)

\* remove bad and mined transactions from the list for inclusion
RemoveBadAndMinedTxs ==
  transactionsForInclusion' =
    RemoveBadAndMined(transactionsForInclusion, Len(transactionsForInclusion))

\* the locals of the default case go out of scope
EndDefaultCase == idx' = 1 /\ badTxHashes' = {} /\ minedTxHashes' = {}

\* resequence: the current recorded block has no transactions left; the
\* cursor moves past it by its block hash and the block ends.  (The job is
\* never exhausted here: the cursor enters a new block only where the block
\* ends, so CurrentBlock is not nil.)
PostInnerEmptyBlock ==
  /\ pc = "PostInner" /\ IsResequence
  /\ transactionsForInclusion = << >>
  /\ HasMoreBlockToProcess
  /\ UpdateLastProcessedTx(CurrentBlock.L2Blockhash)
  /\ EndDefaultCase
  /\ pc' = "EndBlock"
  /\ UNCHANGED <<batchToProcess, txIndexMap, durable, batchVars,
                 runLoopBlocks, batchTimedOut, innerBreak, emptyBlockOverflow,
                 blockTick, batchTick>>

\* mutant: the boundary check does not end the block
PostInnerBoundaryContinue ==
  /\ pc = "PostInner" /\ IsResequence
  /\ transactionsForInclusion # << >> /\ AtNewBlockBoundary
  /\ RemoveBadAndMinedTxs
  /\ EndDefaultCase
  /\ pc' = "Select"
  /\ UNCHANGED <<jobVars, durable, yieldedTransactions,
                 hasAnyTransactionsInThisBatch, builtBlocks,
                 overflowTransactions, transactionsToDiscard, blockTxs, usage,
                 blockGas, runLoopBlocks, batchTimedOut, innerBreak,
                 emptyBlockOverflow, blockTick, batchTick,
                 limboTxHash, mode>>

\* resequence: the cursor is at a block boundary, the block ends
PostInnerBoundary ==
  /\ pc = "PostInner" /\ IsResequence
  /\ transactionsForInclusion # << >> /\ AtNewBlockBoundary
  /\ EndDefaultCase
  /\ pc' = "EndBlock"
  /\ UNCHANGED <<jobVars, durable, batchVars, runLoopBlocks, batchTimedOut,
                 innerBreak, emptyBlockOverflow, blockTick, batchTick>>

\* resequence under the strict setting: the pass left transactions of the
\* block behind, the stage returns an error
PostInnerStrict ==
  /\ pc = "PostInner" /\ IsResequence
  /\ transactionsForInclusion # << >> /\ ~AtNewBlockBoundary
  /\ SequencerResequenceStrict
  /\ pc' = "Error"
  /\ UNCHANGED <<jobVars, durable, batchVars, idx, badTxHashes, minedTxHashes,
                 runLoopBlocks, batchTimedOut, innerBreak, emptyBlockOverflow,
                 blockTick, batchTick>>

\* fresh mode, or a resequence pass that neither ended its block nor
\* failed: the bad and mined candidates are removed and the select runs
\* again
PostInner ==
  /\ pc = "PostInner"
  /\ ~IsL1Recovery /\ ~IsLimboRecovery
  /\ IsResequence => /\ transactionsForInclusion # << >>
                      /\ ~AtNewBlockBoundary
                      /\ ~SequencerResequenceStrict
  /\ RemoveBadAndMinedTxs
  /\ EndDefaultCase
  /\ pc' = "Select"
  /\ UNCHANGED <<jobVars, durable, yieldedTransactions, hasAnyTransactionsInThisBatch,
                 builtBlocks, overflowTransactions, transactionsToDiscard,
                 blockTxs, usage, blockGas, runLoopBlocks, batchTimedOut,
                 innerBreak, emptyBlockOverflow, blockTick, batchTick,
                 limboTxHash, mode>>

\* L1 recovery: after the removal the block ends
PostInnerL1 ==
  /\ pc = "PostInner" /\ IsL1Recovery
  /\ RemoveBadAndMinedTxs
  /\ EndDefaultCase
  /\ pc' = "EndBlock"
  /\ UNCHANGED <<jobVars, durable, yieldedTransactions,
                 hasAnyTransactionsInThisBatch, builtBlocks,
                 overflowTransactions, transactionsToDiscard, blockTxs, usage,
                 blockGas, limboTxHash, mode, runLoopBlocks, batchTimedOut,
                 innerBreak, emptyBlockOverflow, blockTick, batchTick>>

\* limbo recovery: after the removal the block ends and so does the loop
PostInnerLimbo ==
  /\ pc = "PostInner" /\ IsLimboRecovery
  /\ RemoveBadAndMinedTxs
  /\ EndDefaultCase
  /\ runLoopBlocks' = FALSE
  /\ pc' = "EndBlock"
  /\ UNCHANGED <<jobVars, durable, yieldedTransactions,
                 hasAnyTransactionsInThisBatch, builtBlocks,
                 overflowTransactions, transactionsToDiscard, blockTxs, usage,
                 blockGas, limboTxHash, mode, batchTimedOut, innerBreak,
                 emptyBlockOverflow, blockTick, batchTick>>

-----------------------------------------------------------------------------
(* End of a block, end of the batch *)

\* the invocation has returned (or panicked)
Returned == pc \in {"Done", "Idle", "Error", "Panic"}

\* an overflow closed the batch before any transaction entered the block:
\* the empty block is not committed
SkipEmptyBlock ==
  /\ pc = "EndBlock" /\ emptyBlockOverflow
  /\ pc' = "FinishBatch"
  /\ UNCHANGED <<jobVars, durable, batchVars, idx, badTxHashes, minedTxHashes,
                 runLoopBlocks, batchTimedOut, innerBreak, emptyBlockOverflow,
                 blockTick, batchTick>>

\* mutant: the mined transactions are not removed from the pool
FinishBlockKeepMined ==
  /\ pc = "EndBlock" /\ ~emptyBlockOverflow /\ ~IsLimboRecovery
  /\ chain' = Append(chain, [batch |-> batchNumber, txs |-> blockTxs])
  /\ pool' = pool \ transactionsToDiscard
  /\ builtBlocks' = Append(builtBlocks, Len(chain) + 1)
  /\ reports' = Append(reports, [batch |-> batchNumber, usage |-> usage])
  /\ pc' = "BlockStart"
  /\ UNCHANGED <<jobVars, badTxCounter, batchNumber, yieldedTransactions,
                 hasAnyTransactionsInThisBatch, overflowTransactions,
                 transactionsForInclusion, transactionsToDiscard, blockTxs,
                 usage, blockGas, idx, badTxHashes, minedTxHashes,
                 runLoopBlocks, batchTimedOut, innerBreak, emptyBlockOverflow,
                 blockTick, batchTick,
                 limboTxHash, mode, invalidBatches, limboRoots, l1Data>>

\* mutant: the built block is recorded under executionAt, not executionAt + 1
FinishBlockOffByOne ==
  /\ pc = "EndBlock" /\ ~emptyBlockOverflow /\ ~IsLimboRecovery
  /\ chain' = Append(chain, [batch |-> batchNumber, txs |-> blockTxs])
  /\ pool' = pool \ (ToSet(blockTxs) \cup transactionsToDiscard)
  /\ builtBlocks' = Append(builtBlocks, Len(chain))
  /\ reports' = Append(reports, [batch |-> batchNumber, usage |-> usage])
  /\ pc' = "BlockStart"
  /\ UNCHANGED <<jobVars, badTxCounter, batchNumber, yieldedTransactions,
                 hasAnyTransactionsInThisBatch, overflowTransactions,
                 transactionsForInclusion, transactionsToDiscard, blockTxs,
                 usage, blockGas, idx, badTxHashes, minedTxHashes,
                 runLoopBlocks, batchTimedOut, innerBreak, emptyBlockOverflow,
                 blockTick, batchTick,
                 limboTxHash, mode, invalidBatches, limboRoots, l1Data>>

\* doFinishBlockAndUpdateState, RemoveMinedTransactions of the mined and the
\* discarded transactions, onBuiltBlock, CommitAndStart and
\* StartAsyncVerification with the combined counters of the batch
FinishBlock ==
  /\ pc = "EndBlock" /\ ~emptyBlockOverflow /\ ~IsLimboRecovery
  /\ chain' = Append(chain, [batch |-> batchNumber, txs |-> blockTxs])
  /\ pool' = pool \ (ToSet(blockTxs) \cup transactionsToDiscard)
  /\ onBuiltBlock(Len(chain) + 1)
  /\ reports' = Append(reports, [batch |-> batchNumber, usage |-> usage])
  /\ pc' = "BlockStart"
  /\ UNCHANGED <<jobVars, badTxCounter, batchNumber, yieldedTransactions,
                 hasAnyTransactionsInThisBatch, overflowTransactions,
                 transactionsForInclusion, transactionsToDiscard, blockTxs,
                 usage, blockGas, idx, badTxHashes, minedTxHashes,
                 runLoopBlocks, batchTimedOut, innerBreak, emptyBlockOverflow,
                 blockTick, batchTick,
                 limboTxHash, mode, invalidBatches, limboRoots, l1Data>>

\* limbo recovery: doFinishBlockAndUpdateState and RemoveMinedTransactions,
\* then UpdateLimboRootByTxHash with the block's state root and a return
\* of ErrLimboState; the deferred Rollback drops the uncommitted block
FinishBlockLimbo ==
  /\ pc = "EndBlock" /\ ~emptyBlockOverflow /\ IsLimboRecovery
  /\ pool' = pool \ (ToSet(blockTxs) \cup transactionsToDiscard)
  /\ limboRoots' = limboRoots \cup {[tx |-> limboTxHash, txs |-> blockTxs]}
  /\ pc' = "Error"
  /\ UNCHANGED <<jobVars, chain, badTxCounter, reports, batchNumber,
                 invalidBatches, batchVars, loopLocals, l1Data>>

\* IncrementStateVersionByBlockNumberIfNeeded(block.NumberU64()) and the
\* final commit; block is nil, and the call panics, when the loop ended
\* before any block of the invocation was finished
FinishBatch ==
  /\ pc = "FinishBatch"
  /\ pc' = IF builtBlocks = << >> THEN "Panic" ELSE "Done"
  /\ UNCHANGED <<jobVars, durable, batchVars, idx, badTxHashes, minedTxHashes,
                 runLoopBlocks, batchTimedOut, innerBreak, emptyBlockOverflow,
                 blockTick, batchTick>>

\* the stage is invoked again and starts the next batch
NextBatch ==
  /\ pc = "Done" /\ batchNumber < MaxBatches
  /\ batchNumber' = batchNumber + 1
  /\ NewBatchStateNext
  /\ UNCHANGED <<jobVars, pool, chain, badTxCounter, reports,
                 limboTxHash, mode, invalidBatches, limboRoots, l1Data>>

-----------------------------------------------------------------------------
(* The tickers.  The batch ticker interval spans MaxBlocksPerBatch block   *)
(* seal intervals: once that many blocks are built the block ticker ticks  *)
(* again only after the batch ticker has.  In recovery every tick case of  *)
(* the loop drops the tick and changes nothing else, so the tickers are    *)
(* left out there.                                                         *)

BlockTickerFires ==
  /\ ~IsAnyRecovery /\ ~Returned /\ pc # "FinishBatch" /\ ~blockTick
  /\ Len(builtBlocks) < MaxBlocksPerBatch \/ batchTimedOut
  /\ blockTick' = TRUE
  /\ UNCHANGED <<jobVars, durable, batchVars, pc, idx, badTxHashes, minedTxHashes,
                 runLoopBlocks, batchTimedOut, innerBreak, emptyBlockOverflow,
                 batchTick>>

\* ticks after the batch has been marked timed out change nothing
BatchTickerFires ==
  /\ ~IsAnyRecovery /\ ~Returned /\ pc # "FinishBatch" /\ ~batchTick /\ ~batchTimedOut
  /\ batchTick' = TRUE
  /\ UNCHANGED <<jobVars, durable, batchVars, pc, idx, badTxHashes, minedTxHashes,
                 runLoopBlocks, batchTimedOut, innerBreak, emptyBlockOverflow,
                 blockTick>>

\* the explored stage invocations are over, or the stage stopped
Finished ==
  /\ \/ pc = "Done" /\ batchNumber = MaxBatches
     \/ pc \in {"Idle", "Error", "Panic"}
  /\ UNCHANGED vars

\* attemptAddTransaction and the handling of its outcome
TxAttempt ==
  \/ TxFailed \/ TxFailedLimbo \/ TxFailedStrict \/ TxFailedSkipped
  \/ TxOverflowLimbo \/ TxOverflowDiscard
  \/ TxOverflowDeferred \/ TxOverflowCloseBatch \/ TxGasOverflow
  \/ TxGasOverflowPanic \/ TxAdded \/ TxFailedL1 \/ TxOverflowL1

\* one step of the sequencing goroutine
LoopStep ==
  \/ L1RecoveryHasCompleted \/ L1NoDecodedBlocks \/ L1BadBatch
  \/ L1BatchToRecover
  \/ LeaveBlockLoop \/ L1BlockNotInBatch \/ ResequenceDrained
  \/ StartBlockOverflow \/ StartBlock
  \/ SelectInnerBreak \/ SelectBlockTick \/ SelectBatchTick
  \/ SelectDefault \/ SelectResequence \/ SelectLimbo \/ SelectL1
  \/ InnerEnd \/ InnerBlockTick
  \/ TxAttempt
  \/ PostInnerEmptyBlock \/ PostInnerBoundary \/ PostInnerStrict \/ PostInner
  \/ PostInnerL1 \/ PostInnerLimbo
  \/ SkipEmptyBlock \/ FinishBlock \/ FinishBlockLimbo \/ FinishBatch

Next ==
  \/ LoopStep
  \/ NextBatch
  \/ BlockTickerFires \/ BatchTickerFires
  \/ Finished

\* the goroutine keeps running and the tickers keep ticking; Go's select
\* picks uniformly among the ready cases, so a case ready again and again is
\* eventually taken
Fairness ==
  /\ WF_vars(LoopStep)
  /\ SF_vars(SelectBlockTick)
  /\ SF_vars(InnerBlockTick)
  /\ WF_vars(NextBatch)
  /\ WF_vars(BlockTickerFires)
  /\ WF_vars(BatchTickerFires)

Spec == Init /\ [][Next]_vars /\ Fairness

-----------------------------------------------------------------------------
(* Properties *)

Pcs == {"L1Check", "Idle", "BlockStart", "Select", "Inner", "PostInner", "EndBlock",
        "FinishBatch", "Done", "Error", "Panic"}

TypeOK ==
  /\ pool \subseteq Txs
  /\ chain \in Seq([batch : 1..MaxBatches, txs : Seq(Txs)])
  /\ badTxCounter \in [Txs -> Nat]
  /\ reports \in Seq([batch : 1..MaxBatches, usage : Nat])
  /\ batchNumber \in 1..MaxBatches
  /\ invalidBatches \subseteq 1..MaxBatches
  /\ limboRoots \subseteq [tx : Txs, txs : Seq(Txs)]
  /\ limboTxHash \in LimboTxHashes
  /\ l1Data \in L1Recordings
  /\ mode \in Modes
  /\ yieldedTransactions \subseteq Txs
  /\ hasAnyTransactionsInThisBatch \in BOOLEAN
  /\ builtBlocks \in Seq(Nat \ {0})
  /\ overflowTransactions \in Nat
  /\ transactionsForInclusion \in Seq(Txs)
  /\ transactionsToDiscard \subseteq Txs
  /\ blockTxs \in Seq(Txs)
  /\ usage \in Nat /\ blockGas \in Nat
  /\ pc \in Pcs /\ idx \in Nat \ {0}
  /\ badTxHashes \subseteq Txs /\ minedTxHashes \subseteq Txs
  /\ {runLoopBlocks, batchTimedOut, innerBreak, emptyBlockOverflow,
      blockTick, batchTick} \subseteq BOOLEAN
  /\ batchToProcess \in Jobs
  /\ StartBlockIndex \in 0..Len(batchToProcess)
  /\ StartTxIndex \in Nat

\* counter units used by the committed blocks of batch b
CommittedUsage(b) ==
  MapThenSumSet(LAMBDA i : BlockUsage(chain[i].txs),
                {i \in DOMAIN chain : chain[i].batch = b})

\* Admission control: the blocks committed for a batch, with their block
\* start charges and all their transactions, fit the batch budget
\* (StartNewBlock, the overflow switch and RemovePreviousTransactionCounters
\* together).
BatchWithinBudget ==
  \A b \in 1..batchNumber : CommittedUsage(b) <= BatchBudget

\* No transaction is committed twice, in one block or in two batches: the
\* yieldedTransactions set, the removal of mined and bad transactions from
\* the inclusion list and RemoveMinedTransactions at block end together.
NoDoubleInclusion ==
  Len(FlattenSeq([i \in DOMAIN chain |-> chain[i].txs])) = Cardinality(ChainTxs)

\* A transaction leaves the pool only by being committed, by failing, or by
\* being too big for any batch: an overflow of a transaction that fits an
\* empty batch defers it to a later batch and never discards it.
NoFittingTxDiscarded ==
  \A t \in Txs \ pool :
    t \in ChainTxs \/ t \in FailingTxs \/ SingleTransactionOverflow(t)

\* The usage handed to the verifier with a block (CombineCollectors) never
\* exceeds the batch budget.
ReportedUsageWithinBudget ==
  \A i \in DOMAIN reports : reports[i].usage <= BatchBudget

\* The batch close never dereferences a nil block: whenever the block loop
\* ends (batch timeout, StartNewBlock overflow, an empty block skipped on
\* overflow, the L1 data or the resequence job exhausted) the invocation
\* has already finished a block, so IncrementStateVersionByBlockNumberIfNeeded
\* gets one (the bad-transaction rule for an empty batch and the L1
\* decoded-block index together).
NoNilBlockAtBatchEnd == pc = "FinishBatch" => builtBlocks # << >>

\* The removal loop after each pass over the candidates (from the last
\* index down, removeInclusionTransaction) keeps exactly the candidates that
\* were neither mined nor marked bad, in their order.
InclusionListKeepsPending ==
  [][pc = "PostInner" /\ pc' = "Select" =>
       transactionsForInclusion' =
         SelectSeq(transactionsForInclusion,
                   LAMBDA t : t \notin badTxHashes \cup minedTxHashes)]_vars

\* L1 recovery rebuilds a batch from its L1 call data: the k-th block
\* committed for a recovered batch holds, in order, the transactions of
\* the k-th block decoded from L1 that execute.  A failing one is skipped
\* (440); one that overflows the counters is kept, since the data is
\* already confirmed on L1 (the fall-through at 461).
L1BlocksReplayDecoded ==
  \A b \in 1..batchNumber :
    LET blocks == SelectSeq(chain, LAMBDA blk : blk.batch = b)
    IN  \A k \in DOMAIN blocks :
          blocks[k].txs = SelectSeq(l1Data[b][k], LAMBDA t : t \notin FailingTxs)

\* The state root the pool records for a limbo transaction
\* (UpdateLimboRootByTxHash) is that of a block holding exactly that
\* transaction, executed again: a limbo replay never records a root after
\* the transaction failed, overflowed or was left out (the limbo panics and
\* the single-transaction yield together).
LimboRootOfReplayedTx == \A r \in limboRoots : r.txs = << r.tx >>

\* Every stage invocation eventually returns: it closes its batch and
\* commits, or stops with an error.
BatchEventuallyCloses == (pc = "BlockStart") ~> Returned

-----------------------------------------------------------------------------
(* Resequencing against the recorded batch *)


\* the transactions executed again: those of the committed blocks and
\* those of the block being built (its arrays stay stale after its commit
\* until the next block starts)
BlockInProgress == pc \in {"Select", "Inner", "PostInner", "EndBlock",
                            "Error", "Panic"}
Replayed ==
  FlattenSeq([j \in DOMAIN BatchBlocks |-> BatchBlocks[j].txs])
  \o (IF BlockInProgress THEN blockTxs ELSE << >>)

\* the recorded transactions, flattened, and the cursor's place among them
RecordedTxs(n) == FlattenSeq([i \in 1..n |-> batchToProcess[i].L2Txs])
ReplayCursor == Len(RecordedTxs(StartBlockIndex)) + StartTxIndex

Replay == INSTANCE ReplayLog WITH
            log <- RecordedTxs(Len(batchToProcess)),
            pos <- ReplayCursor,
            replayed <- Replayed,
            AllowSkip <- ~SequencerResequenceStrict

\* Resequencing re-executes the recorded transactions in recorded order,
\* each at most once, with the job cursor just past the last one re-executed
\* (YieldNextBlockTransactions, the inner loop's continue/skip paths and
\* UpdateLastProcessedTx together); under SequencerResequenceStrict no
\* recorded transaction is passed over.
ResequenceReplaysLog == Replay!Spec

\* the transactions of the blocks of the batch, the one being built last
\* once it holds any
BatchBlockTxs ==
  [j \in DOMAIN BatchBlocks |-> BatchBlocks[j].txs]
  \o (IF BlockInProgress /\ blockTxs # << >> THEN << blockTxs >> ELSE << >>)

\* Resequencing keeps the recorded block structure: the j-th block built
\* for the batch holds transactions of the j-th recorded block only, each
\* once, in their recorded order (the empty-yield and block-boundary
\* breaks).
ReplayPreservesBlocks ==
  \A j \in DOMAIN BatchBlockTxs :
    /\ j <= Len(batchToProcess)
    /\ BatchBlockTxs[j] =
         SelectSeq(batchToProcess[j].L2Txs,
                   LAMBDA t : t \in ToSet(BatchBlockTxs[j]))
=============================================================================
