---------------------------- MODULE ResequenceJob ----------------------------
(***************************************************************************)
(* ResequenceBatchJob (src/zk/stages/stage_sequence_execute_state.go):    *)
(* the replay of blocks recorded in the datastream, with a resumption     *)
(* cursor (StartBlockIndex, StartTxIndex) and a map from transaction and  *)
(* block hashes to their position, by which the cursor is advanced.  The  *)
(* indices are the code's 0-based ones.  A block is a record with its     *)
(* hash and its transactions; transactions and hashes are model values.   *)
(***************************************************************************)
EXTENDS Integers, Sequences, TLC

VARIABLES
  batchToProcess,   \* << [L2Blockhash |-> h, L2Txs |-> <<t, ...>>], ... >>
  StartBlockIndex, StartTxIndex,
  txIndexMap        \* hash -> [blockNum, txIndex]

jobVars == <<batchToProcess, StartBlockIndex, StartTxIndex, txIndexMap>>

Block(i) == batchToProcess[i + 1]

\* NewResequenceBatchJob(batch)
NewResequenceBatchJob(batch) ==
  /\ batchToProcess = batch
  /\ StartBlockIndex = 0
  /\ StartTxIndex = 0
  /\ txIndexMap = << >>

HasMoreBlockToProcess == StartBlockIndex < Len(batchToProcess)

AtNewBlockBoundary == StartTxIndex = 0

CurrentBlock == Block(StartBlockIndex)

\* the transactions YieldNextBlockTransactions returns: the rest of the
\* current block from the cursor on, or none when the job is exhausted
YieldedTransactions ==
  IF HasMoreBlockToProcess
  THEN SubSeq(CurrentBlock.L2Txs, StartTxIndex + 1, Len(CurrentBlock.L2Txs))
  ELSE << >>

\* YieldNextBlockTransactions records the block hash at txIndex 0 and every
\* yielded transaction at its own index
YieldNextBlockTransactions ==
  txIndexMap' =
    IF HasMoreBlockToProcess
    THEN LET b == CurrentBlock
             yielded == {k - 1 : k \in StartTxIndex + 1 .. Len(b.L2Txs)}
             recorded == {b.L2Blockhash} \cup {b.L2Txs[i + 1] : i \in yielded}
             txIndex(h) == IF h = b.L2Blockhash THEN 0
                           ELSE CHOOSE i \in yielded : b.L2Txs[i + 1] = h
         IN  [h \in recorded |->
                [blockNum |-> StartBlockIndex, txIndex |-> txIndex(h)]]
             @@ txIndexMap
    ELSE txIndexMap

\* mutant: the cursor is left on the processed transaction
UpdateLastProcessedTxNoIncrement(h) ==
  IF h \in DOMAIN txIndexMap
  THEN LET idx == txIndexMap[h]
       IN  IF idx.txIndex >= Len(Block(idx.blockNum).L2Txs) - 1
           THEN /\ StartBlockIndex' = idx.blockNum + 1
                /\ StartTxIndex' = 0
           ELSE /\ StartBlockIndex' = idx.blockNum
                /\ StartTxIndex' = idx.txIndex
  ELSE UNCHANGED <<StartBlockIndex, StartTxIndex>>

\* UpdateLastProcessedTx: move past the transaction (or empty block) h; an
\* unknown hash is logged and ignored
UpdateLastProcessedTx(h) ==
  IF h \in DOMAIN txIndexMap
  THEN LET idx == txIndexMap[h]
       IN  IF idx.txIndex >= Len(Block(idx.blockNum).L2Txs) - 1
           THEN /\ StartBlockIndex' = idx.blockNum + 1
                /\ StartTxIndex' = 0
           ELSE /\ StartBlockIndex' = idx.blockNum
                /\ StartTxIndex' = idx.txIndex + 1
  ELSE UNCHANGED <<StartBlockIndex, StartTxIndex>>
=============================================================================
