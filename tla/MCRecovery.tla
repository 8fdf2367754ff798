---------------------------- MODULE MCRecovery ------------------------------
(***************************************************************************)
(* L1 recovery and limbo recovery over four transactions with distinct    *)
(* roles, under a budget of 6 counter units (one per block) and a block   *)
(* gas limit of 2:                                                        *)
(*   ok1    costs 1 unit and 1 gas;                                       *)
(*   fail   fails to execute;                                             *)
(*   big    costs 6 units: it never fits a batch;                         *)
(*   heavy  costs 1 unit and 3 gas: it overflows any block's gas.         *)
(* L1 recovery runs over three consecutive batches; every L1 content of   *)
(* up to two decoded blocks (BlockContents) for batch 1, and of a few    *)
(* shapes for the bad batch 2 and batch 3 past L1SyncStopBatch, is an    *)
(* initial state.  Limbo recovery starts from every limbo transaction.    *)
(***************************************************************************)
EXTENDS SequencerBatch

CONSTANTS ok1, fail, big, heavy

MCTxs == {ok1, fail, big, heavy}
MCFailingTxs == {fail}
MCTxCounters == (ok1 :> 1 @@ fail :> 1 @@ big :> 6 @@ heavy :> 1)
MCTxGas == (ok1 :> 1 @@ fail :> 1 @@ big :> 1 @@ heavy :> 3)

\* the transactions one decoded block may hold: none, ok1, a failing
\* transaction before ok1, or big (which overflows the counters)
BlockContents == {<< >>, << ok1 >>, << fail, ok1 >>, << big >>}

\* the decoded blocks L1 may hold for one batch: up to two
DecodedBlocks == {<< >>} \cup {<< c >> : c \in BlockContents}
                 \cup {<< c, d >> : c, d \in BlockContents}

\* what batches past the first may hold: no block, one with ok1, an empty
\* one before one with ok1
LaterDecodedBlocks == {<< >>, << << ok1 >> >>, << << >>, << ok1 >> >>}

MCL1Recordings ==
  {r \in [1..MaxBatches -> DecodedBlocks] :
     \A n \in 2..MaxBatches : r[n] \in LaterDecodedBlocks}

\* no batch holds L1 recovery data
MCNoL1Data == {[n \in 1..MaxBatches |-> << >>]}

\* no resequence job
MCNoJobs == {<< >>}
=============================================================================
