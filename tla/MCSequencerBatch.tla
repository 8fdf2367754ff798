------------------------- MODULE MCSequencerBatch ---------------------------
(* Fresh mode over five transactions: a, b and c do not all fit one batch *)
(* (budget 6, one unit per block), d never fits a batch, e fails to       *)
(* execute.  A block holds the gas of a and b, or of c alone.             *)
EXTENDS SequencerBatch

CONSTANTS a, b, c, d, e

MCTxs == {a, b, c, d, e}
MCFailingTxs == {e}
MCTxCounters == (a :> 2 @@ b :> 2 @@ c :> 3 @@ d :> 6 @@ e :> 1)
MCTxGas == (a :> 1 @@ b :> 1 @@ c :> 2 @@ d :> 1 @@ e :> 1)
\* no resequence job
MCNoJobs == {<< >>}
\* no batch holds L1 recovery data
MCNoL1Data == {[n \in 1..MaxBatches |-> << >>]}
=============================================================================
