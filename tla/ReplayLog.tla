------------------------------ MODULE ReplayLog ------------------------------
(***************************************************************************)
(* What resequencing promises of a recorded batch: its transactions,      *)
(* flattened over its blocks into one log, are executed again in their    *)
(* recorded order, each at most once.  Where skipping is allowed a        *)
(* replay may pass over transactions of the log; where it is not, every   *)
(* transaction before the replay position has been replayed.              *)
(***************************************************************************)
EXTENDS Naturals, Sequences

CONSTANTS
  Txs,        \* transaction identities
  AllowSkip   \* whether a transaction of the log may be passed over

VARIABLES
  log,        \* the recorded transactions, in order
  pos,        \* how many transactions of the log have been passed
  replayed    \* the transactions executed again, in order

Init ==
  /\ log \in Seq(Txs)
  /\ pos = 0
  /\ replayed = << >>

\* replay the next transaction, or (skipping allowed) a later one
Replay ==
  \E k \in 1 .. Len(log) - pos :
    /\ k = 1 \/ AllowSkip
    /\ pos' = pos + k
    /\ replayed' = Append(replayed, log[pos + k])
    /\ UNCHANGED log

Spec == Init /\ [][Replay]_<<log, pos, replayed>>
=============================================================================
