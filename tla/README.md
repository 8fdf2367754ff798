# TLA+ models of the cdk-erigon sequencing stage

These modules model the zkEVM sequencer's batch-building stage:
`sequencingBatchStep` in `src/zk/stages/stage_sequence_execute.go`, together
with the batch, block and resequence-job state in
`src/zk/stages/stage_sequence_execute_state.go`. TLC checks them. `PROJECT.json`
lists the components, the runs, the mutants that show each property can fail,
the map from every definition to the source lines it models, the findings and
the hazards.

## The system

One goroutine runs the sequencing stage. Each invocation builds one batch,
and that batch is a sequence of L2 blocks:

* **Batch state** (`BatchState`, `BlockState`, `BuiltBlockElements`). This is the
  record of the batch under construction: its recovery mode (none, L1 recovery,
  limbo recovery or resequence), the blocks built, the count of overflowing
  transactions and the transactions the pool has already yielded. Per block it
  also holds the candidate list, the transactions to discard and the mined
  transactions.
* **Block loop.** Each block runs through these steps:
  1. check the batch timeout;
  2. reset the block ticker;
  3. in resequence mode, stop when the job is exhausted;
  4. charge the block start to the batch counters (`StartNewBlock`), and stop
     on an overflow;
  5. run the intake loop;
  6. finish the block, commit it (`CommitAndStart`) and hand the combined
     counters to the asynchronous verifier.
* **Intake loop.** A `select` runs over the log, block, batch and info-tree
  tickers, with a default case:
  * The default case pulls candidates from the pool, from the resequence job,
    or from the limbo or L1 data.
  * It tries each candidate with `attemptAddTransaction`. The outcome is an
    execution error, a counter overflow, a gas overflow or success.
  * After each pass it removes mined and bad candidates.
  * The block ticker seals the block in fresh mode only. The batch ticker closes
    the batch after the current block, also in fresh mode only.
* **Resequence job** (`ResequenceBatchJob`). This replays a batch recorded in
  the datastream. It keeps a cursor (block index, transaction index) and a map
  from each hash to its position. `UpdateLastProcessedTx` moves the cursor
  using that map.
* **Collaborators outside `src/`.** The counter collector, the executor, the
  transaction pool and the verifier are outside `src/`. They are modelled from
  their contract in the spec.

## Modules

| module | models | state / actions |
|---|---|---|
| `ResequenceJob` | `ResequenceBatchJob` (`..._state.go` 306-375) | **State:** `batchToProcess`, `StartBlockIndex`, `StartTxIndex`, `txIndexMap`.<br>**Operators:** `YieldNextBlockTransactions` and `UpdateLastProcessedTx` are operators the loop's actions call. The predicates are `HasMoreBlockToProcess`, `AtNewBlockBoundary` and `CurrentBlock`. |
| `ReplayLog` | what resequencing promises | **State:** a flattened recorded log, a position and the replayed sequence.<br>**Action:** one `Replay` step, which may skip ahead only when `AllowSkip` holds. |
| `SequencerBatch` | the loop in all four modes (the mode is a variable chosen in `Init`) | **State:** durable state (pool, committed chain, bad-tx counters, verifier reports, batch number), the batch and block state, and the loop control: a `pc` per code position plus the `select` locals (`innerBreak`, `emptyBlockOverflow`, `badTxHashes`, `minedTxHashes`, `idx`). A buffered tick flag stands for each ticker channel.<br>**Actions:** one per branch of the code (below). |
| `MCSequencerBatch` | fresh-mode instance | five transactions with distinct roles |
| `StageEntry` | `SpawnSequencingStage` and the prologue of `sequencingBatchStep` across invocations and restarts, one block per batch | **Durable state:** the executed height, the datastream height, the pool's limbo entry, the resequence flag and whether a fork id is known.<br>**Volatile state** (lost by `Restart`): the alignment flag (line 27), the verifier's queue and verdicts, an unwind the host has not yet performed, and the invocation's `pc`.<br>**Actions:** `ForkIdWait` (a fork id of 0 sleeps and returns, 100-113) and `L1ForkIdFinalised`; `Resequence` and `ResequenceCompleted` (43-61); `InjectedBatch` (127-141); `NewBatchStatePanic` and `LimboRecovery` (`newBatchState`'s limbo lookup, checked before the resequence job and with `isMoreThanSingleRecovery`, and the flag cleared at 166); `AlignUnwind` (143-164); `SequenceBlock` (`CommitAndStart` and `StartAsyncVerification`, 626-641); `Poll` (`updateStreamAndCheckRollback` and the commit after it, 643-658); `VerifierDecides`, `HostUnwind` and `Restart`. |
| `MCRecovery` | L1 and limbo recovery instance | four transactions with distinct roles, every L1 content of at most two decoded blocks for batch 1 and a few shapes for batches 2 and 3, every limbo transaction |
| `MCResequence` | resequence instance | every recorded batch of at most two blocks, each of at most two transactions, over six transactions with distinct roles |

### How the `SequencerBatch` actions map to the code

Line numbers refer to `stage_sequence_execute.go`.

* **L1-recovery preamble** (185-224): `L1RecoveryHasCompleted` (past `L1SyncStopBatch`), `L1NoDecodedBlocks`, `L1BadBatch` (listed in `BadBatches` or found bad by `doCheckForBadBatch`, whose verdict is a free choice) and `L1BatchToRecover`. The first two return nil without building (`pc = "Idle"`).
* **Block start:**
  * `L1BlockNotInBatch`: the batch already has as many blocks as were decoded from L1 (247-257).
  * `LeaveBlockLoop`: the loop condition, or the batch timeout (237-241).
  * `ResequenceDrained`: the job is exhausted (260-273).
  * `StartBlockOverflow` and `StartBlock`: `StartNewBlock` (294-300) and the reset of the block's arrays (306).
  * `ResetBlockTicker` (244): a Go `Reset` may leave a tick already buffered in the channel.
* **`select`** (326-397):
  * `SelectBlockTick` and `SelectBatchTick`: the ticker cases.
  * `SelectInnerBreak`: the `innerBreak` check.
  * `SelectDefault`: the pool yield. It is any subset, of at most `MaxYield` pending and not yet yielded transactions, in any order.
  * `SelectResequence`: the job yield.
  * `SelectLimbo`: the limbo transaction alone. `SelectL1`: L1 recovery, where the list is the decoded block's transactions (`DecodedBlockTxs`; the intake itself is missing from this source, but the L1 effective gases indexed by position at 411, the L1 error branch at 433-441 and `isThereAnyTransactionsToRecover` at `..._state.go` 138 rely on it).
* **One transaction of the inner loop** (398-535):
  * `InnerBlockTick`: the quick ticker check.
  * `TxFailed`, `TxFailedStrict` and `TxFailedSkipped`: the execution error in fresh mode, in strict resequence mode and in non-strict resequence mode.
  * `TxOverflowDiscard`: the single-transaction overflow, or an empty batch.
  * `TxOverflowDeferred`: a counter overflow that leaves the transaction for later.
  * `TxOverflowCloseBatch`: a counter overflow at the overflow limit, which breaks out before `RemovePreviousTransactionCounters`.
  * `TxGasOverflow` and `TxGasOverflowPanic`: a gas overflow, and the same in recovery.
  * `TxFailedLimbo` and `TxOverflowLimbo`: a limbo replay that fails or overflows panics (418, 458).
  * `TxAdded`: success. It includes `onAddedTransaction` and, in resequence, `UpdateLastProcessedTx`.
* **After a pass** (537-571):
  * `PostInnerEmptyBlock`, `PostInnerBoundary` and `PostInnerStrict`: the resequence checks.
  * `PostInner`: the removal of mined and bad candidates. `RemoveBadAndMined` is the backward loop at 555-571, recursive over the index, with `removeInclusionTransaction`'s bounds check.
  * `PostInnerL1` and `PostInnerLimbo`: the same removal, then the block ends (and, in limbo, the block loop).
* **Block end and batch end:**
  * `SkipEmptyBlock` (592-595).
  * `FinishBlock` (597-659): commit, pool removal, `onBuiltBlock` and the verifier report.
  * `FinishBlockLimbo` (601-608): the pool removal, `UpdateLimboRootByTxHash` and the `ErrLimboState` return; the deferred rollback drops the block, so the chain is unchanged.
  * `FinishBatch` (672-678): `block.NumberU64()` panics on a nil `block` when no block of the invocation was finished.
  * `NextBatch`: the stage is invoked again for the next batch (fresh mode).

An error return ends in `pc = "Error"` and a panic in `pc = "Panic"`.

**Abstractions.**
* Resource counters are one dimension. A transaction costs `TxCounters[t]` and a block start costs `BlockOverhead`.
* The executor's outcome is fixed per transaction. A transaction in `FailingTxs` fails. Otherwise the checks are, in order: counters, then block gas.
* In resequence a recorded transaction is its own hash, so decoding is left out.
* A decoded L1 block is a sequence of transactions: the inner loop executes them, skipping a failing one (`TxFailedL1`, 433-441) and keeping one that overflows the counters (`TxOverflowL1`, the fall-through at 461). Its timestamp sets only a header field.
* In recovery every ticker case drops its tick and changes nothing else, so the tickers are left out there.

## Runs

| run | expect | what it shows |
|---|---|---|
| `fresh_safety` (`MCSequencerBatch.cfg`) | pass | Over two batches (4.5M states):<br>• `BatchWithinBudget`: every batch's committed blocks, with their start charges, fit the budget.<br>• `NoDoubleInclusion`: no transaction is committed twice.<br>• `NoFittingTxDiscarded`: only failing transactions, or transactions too big for any batch, leave the pool uncommitted. |
| `fresh_liveness` (`MCSequencerBatchLive.cfg`) | pass | `BatchEventuallyCloses`: every invocation returns, under the ticker and `select` fairness below. |
| `reported_usage` (`MCSequencerBatchReport.cfg`) | violation | `ReportedUsageWithinBudget`: the counters reported to the verifier after an overflow-limit close include the transaction that was left out. |
| `reseq_nonstrict` (`MCResequenceNonStrict.cfg`) | pass | For recorded batches whose blocks do not end in a failing or oversize transaction:<br>• `ResequenceReplaysLog`: the loop refines `ReplayLog` with skipping allowed. The mapping is: the log is the flattened recording; the position is the cursor flattened; the replayed sequence is the transactions of the committed blocks followed by the block being built.<br>• `ReplayPreservesBlocks`: the j-th block built holds only transactions of the j-th recorded block, in order. |
| `recovery` (`MCRecovery.cfg`) | pass | L1 recovery over three batches, with batch 2 listed as bad and recovery stopping after batch 2, and limbo recovery of each transaction (about 20k states):<br>• `NoNilBlockAtBatchEnd`: the batch end is reached only after a block of the invocation was finished, so `block` at 672 is never nil.<br>• `LimboRootOfReplayedTx`: a limbo root is recorded only for a block holding exactly the limbo transaction.<br>• `L1BlocksReplayDecoded`: the k-th block committed for a recovered batch holds the k-th decoded block's transactions that execute, in order: a failing one is skipped, one that overflows the counters is kept. |
| `entry_restart` (`StageEntry.cfg`) | pass | `PanicOnlyAfterCrash`: `newBatchState`'s limbo panic is reached only after a restart. Without one, the entry a rejection leaves is always in the batch the host's unwind makes next.<br>`LimboEventuallyRecovered`: in a behaviour without a crash, every limbo entry is eventually replayed and resolved by limbo recovery. This needs the host to perform the unwind it was asked for.<br>`ResequenceMeetsNoLimbo`: whenever the datastream is ahead of execution (a resequence is due) the pool holds no limbo entry. `newBatchState` checks the limbo entry before the resequence job and panics on any entry beside a job (`..._state.go` 80-90), so this is what keeps that order from stopping the process. |
| `entry_align_restart` (`StageEntryRestart.cfg`) | violation | `FreshBuildOnTrackedBlocks` with one restart. Block 1 is rejected and an unwind is requested. The process restarts before the unwind, and limbo recovery clears the alignment flag without aligning (150, 166). The next regular block is then built on the rejected block. |
| `reseq_strict` (`MCResequenceStrict.cfg`) | pass | `ReplayPreservesBlocks` under `SequencerResequenceStrict`. This run fires the strict error paths. |
| `reseq_strict_skip` (`MCResequenceStrictReplay.cfg`) | violation | `ResequenceReplaysLog` with skipping not allowed: a strict resequence silently passes over an overflowing transaction that is followed by a mined one (`<<big, ok1>>`). |
| `reseq_livelock` (`MCResequenceLivelock.cfg`) | violation | `BatchEventuallyCloses`: a non-strict resequence whose recorded block ends in a failing transaction after a mined one loops forever (`<<ok1, fail>>`). |
| `reseq_repeated_block` (`MCResequenceRepeatedBlock.cfg`) | violation | `ReplayPreservesBlocks`: a recorded block whose only remaining transaction is too big is committed again and again as an empty block (`<<big>>`). |

The findings in `PROJECT.json` explain these violations against the code lines:
the three resequence violations, the reported-usage violation and the
alignment skipped after a restart.

**Mutants.** Every property of a passing run has a mutant, written in the
module next to the definition it replaces, that TLC shows breaks it. The
mutants are:
* a block start that is not charged;
* a mined transaction that stays in the pool;
* a built block recorded under the wrong number;
* `onAddedTransaction` not marking the batch;
* a block tick that does not seal the block;
* the resequence boundary check that does not break;
* `UpdateLastProcessedTx` without its `+ 1`;
* the removal loop run forwards over the shrinking list;
* the decoded-block lookup off by one;
* an L1 transaction that overflows the counters left out of its block, as a deferred one would be;
* a limbo execution error skipped instead of panicking;
* the unwind target read before the stream is written;
* the stream written past a rejected block;
* limbo recovery recognised only for an entry in the batch before, not in the batch being opened.

## Bounds

**Fresh mode.**
* The budget is 6 units and a block start costs 1. Transaction costs are a, b = 2, c = 3 and d = 6; e fails. Block gas allows a and b together, or c alone. Together these bounds reach:
  * a counter overflow that is deferred;
  * a discard of d, which never fits;
  * the overflow limit (2) closing a batch, with the block empty and non-empty;
  * a gas overflow;
  * a seal by the ticker;
  * a batch timeout.
* A pool yield returns at most `MaxYield = 2` transactions. Larger yields only lengthen candidate lists that the same actions handle.
* The batch timeout spans `MaxBlocksPerBatch = 2` seal intervals: once two blocks are built the block ticker waits for the batch ticker. This keeps the number of blocks finite without forbidding any order of ticks inside an interval.
* Two batches are enough for a transaction deferred in batch 1 to be committed in batch 2, and for a bad-tx counter to survive across batches.

**Resequence mode.**
* Every recorded batch of one or two blocks, each of zero to two distinct transactions, is an initial state. The transactions have these roles:
  * ok1 and ok2 each cost 1;
  * fail fails to execute;
  * mid costs 3, so it overflows a batch that already holds 4;
  * big costs 6, so it never fits;
  * heavy has gas 2, so it overflows block gas beside any other transaction.
* This reaches, among other cases: an empty recorded block, a deferred overflow, a discard, a gas panic, a strict error both at a failure and after a pass, and draining the job.

**Recovery.**
* Transactions: ok1 costs 1, fail fails, big costs 6 (never fits), heavy has gas 3 (overflows any block). The budget is 6 with a block start of 1 and a gas limit of 2.
* L1: three batches. Batch 1 has zero to two decoded blocks, each empty, holding ok1, fail before ok1, or big (which overflows the counters); batches 2 and 3 have no block, one block with ok1, or an empty one before one with ok1. Batch 2 is in `BadBatches` and `L1SyncStopBatch = 2`, so batch 3 ends recovery. This reaches every return of the preamble, a block loop stopped by the decoded-block count, and an invocation with no block finished.
* Limbo: each of the four transactions is the limbo transaction once, reaching the replay, the error panic and the overflow panic.

**Stage entry.** `entry_restart` uses heights 0-5 with two restarts (1472 states), so a rejection can be followed by two committed blocks and a second crash can hit a recovery; `entry_align_restart` needs only heights 0-3 and one restart. This reaches the stream ahead (resequence), the injected batch, execution ahead (alignment), a rejection both after and before later blocks, limbo recovery, and the limbo-mismatch panic after a restart. Every persisted pair of heights is an initial state.

## Fairness

* `WF` on the goroutine's step (`LoopStep`) and on both tickers. The goroutine runs and the tickers keep ticking.
* `SF` on the block-tick case of the `select` and on the quick check in the inner loop. Go's `select` picks uniformly among the ready cases, so a tick that is ready again and again is eventually taken. Without this fairness, batch ticks could starve the block ticker forever.
* No fairness is assumed for the pool: a yield may be empty every time.
* `StageEntry` (`FairSpec`) assumes weak fairness on the stage's own steps, on the host's unwind and on the verifier's verdict:
  * the staged-sync host keeps invoking the stage and performs an unwind the stage asked for on its next cycle;
  * the verifier is given a timeout and a retry count with every block (line 640), so it settles every verification.
* Restarts and the L1 fork id are not forced. `LimboEventuallyRecovered` is stated for behaviours without a crash, since a crash can strand the entry (see `PanicOnlyAfterCrash`).

## Not modelled

1. **The resequence drain wait** at 262, and the verifier given more than one block per batch. `StageEntry` abstracts a batch to one block. The drain waits until the verifier settles every pending verification; the verifier's code, with its timeout and retries, is outside `src/`, so a model of the drain would only restate its contract.
2. **The L1 flag in `newBatchState`.** `StageEntry` models the limbo lookup, its order before the resequence job and `isMoreThanSingleRecovery` with L1 recovery off; `SequencerBatch` takes the mode as an input. An L1 recovery run beside a limbo entry (another `isMoreThanSingleRecovery` panic) is not modelled: whether the verifier can reject a block during L1 recovery is outside `src/`.
3. **Composition.** The block loop (`SequencerBatch`) and the stage entry (`StageEntry`) are separate modules. `StageEntry`'s `SequenceBlock` stands for one whole invocation of the loop.
4. **`tryHaltSequencer`, `validateIfDatastreamIsAheadOfExecution` and the info-tree warm-up** in the stage entry. The halt and the validation are functions outside `src/`; the warm-up changes no modelled state.

These parts are out of scope: the KV table names, the datastreamer CLI, the
`eth_uncles` RPC handlers and the unit tests. They are declarations, I/O or
read-only lookups with no sequencing state.

The data-size checker and the info-tree and log tickers are left out because
they change no modelled state. A data-size overflow would be one more reason for
a block to stop. The forced timestamps of L1 and limbo blocks change only
header fields and are left out.
