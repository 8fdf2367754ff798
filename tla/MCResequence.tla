--------------------------- MODULE MCResequence -----------------------------
(***************************************************************************)
(* Resequence mode over recorded batches built from six transactions with *)
(* distinct roles, under a budget of 6 counter units (one per block) and  *)
(* a block gas limit of 2:                                                *)
(*   ok1, ok2  cost 1 unit and 1 gas;                                     *)
(*   fail      fails to execute;                                          *)
(*   mid       costs 3 units: it overflows a batch already holding 4;     *)
(*   big       costs 6 units: it never fits a batch;                      *)
(*   heavy     costs 1 unit and 2 gas: it overflows a block's gas beside  *)
(*             any other transaction.                                     *)
(* A run replays every recorded batch of at most two blocks of at most   *)
(* two transactions, one per initial state.                              *)
(***************************************************************************)
EXTENDS SequencerBatch

CONSTANTS ok1, ok2, fail, mid, big, heavy, h1, h2

MCTxs == {ok1, ok2, fail, mid, big, heavy}
MCFailingTxs == {fail}
MCTxCounters == (ok1 :> 1 @@ ok2 :> 1 @@ fail :> 1 @@ mid :> 3 @@ big :> 6
                 @@ heavy :> 1)
MCTxGas == (ok1 :> 1 @@ ok2 :> 1 @@ fail :> 1 @@ mid :> 1 @@ big :> 1
            @@ heavy :> 2)

Blk(h, txs) == [L2Blockhash |-> h, L2Txs |-> txs]

\* the transaction lists of a recorded block: at most two transactions
BlockTxLists == UNION {[1..n -> MCTxs] : n \in 0..2}

\* every recorded batch of one or two blocks in which no transaction is
\* recorded twice
AllJobs ==
  {j \in {<< Blk(h1, s1) >> : s1 \in BlockTxLists}
          \cup {<< Blk(h1, s1), Blk(h2, s2) >> : s1, s2 \in BlockTxLists} :
     IsInjective(FlattenSeq([i \in DOMAIN j |-> j[i].L2Txs]))}

\* a recorded block ends in a transaction that replay always passes over
\* without a later transaction of the block being mined: one that fails to
\* execute, or one too big for any batch
EndsInPassedOver(j) ==
  \E i \in DOMAIN j : j[i].L2Txs # << >> /\ Last(j[i].L2Txs) \in {fail, big}

ReplayableJobs == {j \in AllJobs : ~EndsInPassedOver(j)}

\* under the strict setting a passed-over transaction after a mined one is
\* an error; only a block of one oversize transaction is passed over
StrictJobs == {j \in AllJobs : \A i \in DOMAIN j : j[i].L2Txs # << big >>}
FailsLastJobs == {j \in AllJobs : \E i \in DOMAIN j :
                    j[i].L2Txs # << >> /\ Last(j[i].L2Txs) = fail}
BigLastJobs == {j \in AllJobs : \E i \in DOMAIN j :
                  j[i].L2Txs # << >> /\ Last(j[i].L2Txs) = big}
\* no batch holds L1 recovery data
MCNoL1Data == {[n \in 1..MaxBatches |-> << >>]}
=============================================================================
