----------------------------- MODULE StageEntry -----------------------------
(***************************************************************************)
(* The sequencing stage across invocations and process restarts           *)
(* (src/zk/stages/stage_sequence_execute.go): SpawnSequencingStage's       *)
(* choice between resequencing and sequencing, and the prologue of         *)
(* sequencingBatchStep (the limbo lookup of newBatchState, the injected    *)
(* batch, the one-shot alignment of execution with the datastream), with   *)
(* one block per batch.  The block loop itself is SequencerBatch; here a  *)
(* fresh invocation commits one block (CommitAndStart), hands it to the    *)
(* asynchronous verifier and polls the verifier's results.                 *)
(*                                                                         *)
(* Durable: the executed height, the datastream height and the pool's      *)
(* limbo entry.  Volatile, lost on a crash: the process-global alignment   *)
(* flag, the verifier's queue and results, and an unwind requested from    *)
(* the host but not yet performed.  The collaborators outside src/         *)
(* (resequence, alignExecutionToDatastream, updateStreamAndCheckRollback,  *)
(* the verifier, the host's unwind and the pool's limbo bookkeeping) are   *)
(* modelled from the spec's contracts.                                     *)
(***************************************************************************)
EXTENDS Naturals, FiniteSets

CONSTANTS
  MaxHeight,     \* bound on the executed height
  MaxRestarts,   \* bound on process restarts
  NoLimbo,       \* the pool holds no limbo transaction
  NoUnwind       \* no unwind requested from the host

ASSUME NoLimbo \notin 0..MaxHeight /\ NoUnwind \notin 0..MaxHeight

VARIABLES
  exec,            \* executed (committed) height: s.ExecutionAt, lastBatch
  stream,          \* datastream height: GetHighestBatchNumber
  limbo,           \* the block of the pool's limbo transaction, or NoLimbo
  resequenceFlag,  \* cfg.zk.SequencerResequence
  shouldCheck,     \* shouldCheckForExecutionAndDataStreamAlighment
  submitted,       \* blocks handed to the verifier, not yet written
  passed,          \* ... of which the verifier accepted
  failed,          \* ... of which the verifier rejected
  unwindTo,        \* the height the host has been asked to unwind to
  pc,              \* "Idle" between invocations, "Poll" before
                   \* updateStreamAndCheckRollback, "Panicked"
  restarts,
  forkIdKnown      \* prepareForkId found a fork id finalised on L1

vars == <<exec, stream, limbo, resequenceFlag, shouldCheck, submitted,
          passed, failed, unwindTo, pc, restarts, forkIdKnown>>

volatile == <<shouldCheck, submitted, passed, failed, unwindTo, pc>>

Heights == 0..MaxHeight

\* after a migration or a restart the heights are whatever was persisted
Init ==
  /\ exec \in Heights /\ stream \in Heights
  /\ limbo = NoLimbo
  /\ resequenceFlag \in BOOLEAN
  /\ shouldCheck = TRUE
  /\ submitted = {} /\ passed = {} /\ failed = {}
  /\ unwindTo = NoUnwind
  /\ pc = "Idle"
  /\ restarts = 0
  /\ forkIdKnown \in BOOLEAN

\* the host invokes the stage (no unwind is pending)
Invocable == pc = "Idle" /\ unwindTo = NoUnwind

\* lastBatch < highestBatchInDs
NeedsResequence == exec < stream

\* the host's invocation reaches sequencingBatchStep: from resequence with
\* a job when the stream is ahead, else without one unless the resequence
\* flag is set
EntersBatchStep(job) ==
  /\ Invocable
  /\ IF job THEN NeedsResequence ELSE ~NeedsResequence /\ ~resequenceFlag

\* the fork id is 0 until L1 finalises one: sleep and return nil
ForkIdWait ==
  /\ \E job \in BOOLEAN : EntersBatchStep(job)
  /\ ~forkIdKnown
  /\ UNCHANGED vars

\* the L1 syncer records a finalised fork id
L1ForkIdFinalised ==
  /\ ~forkIdKnown
  /\ forkIdKnown' = TRUE
  /\ UNCHANGED <<exec, stream, limbo, resequenceFlag, volatile, restarts>>

\* mutant: only an entry in the batch before counts as limbo recovery
IsLimboRecoveryPreviousOnly == limbo = exec

\* newBatchState for batch exec + 1: a limbo entry in this batch or the
\* one before is limbo recovery, any other panics
IsLimboRecovery == limbo \in {exec, exec + 1}

\* isMoreThanSingleRecovery with L1 recovery off: limbo recovery beside a
\* resequence job
isMoreThanSingleRecovery(job) == job /\ IsLimboRecovery

\* newBatchState panics: outside the injected batch, a limbo entry
\* neither in the requested batch nor in the one before, or one in them
\* beside a resequence job (the limbo check runs first)
NewBatchStatePanics(job) ==
  /\ exec > 0 /\ limbo # NoLimbo
  /\ ~IsLimboRecovery \/ isMoreThanSingleRecovery(job)

\* the stream is ahead: resequence replays its next recorded block through
\* sequencingBatchStep with a job, which clears the alignment flag (a
\* resequence is a recovery, so alignment is skipped)
Resequence ==
  /\ EntersBatchStep(TRUE) /\ forkIdKnown
  /\ ~NewBatchStatePanics(TRUE)
  /\ exec' = exec + 1
  /\ shouldCheck' = FALSE
  /\ UNCHANGED <<stream, limbo, resequenceFlag, submitted, passed, failed,
                 unwindTo, pc, restarts, forkIdKnown>>

\* resequencing is complete but the flag is still set: sleep, return nil
ResequenceCompleted ==
  /\ Invocable /\ ~NeedsResequence /\ resequenceFlag
  /\ UNCHANGED vars

\* the sequencingBatchStep path (the stream is not ahead, no resequence
\* flag) past the injected batch
Sequencing ==
  /\ EntersBatchStep(FALSE) /\ forkIdKnown /\ exec > 0

\* executionAt == 0: the injected batch is processed, written whole to the
\* stream and committed
InjectedBatch ==
  /\ EntersBatchStep(FALSE) /\ forkIdKnown /\ exec = 0
  /\ exec' = 1 /\ stream' = 1
  /\ UNCHANGED <<limbo, resequenceFlag, volatile, restarts, forkIdKnown>>

\* newBatchState panics on the way into sequencingBatchStep, from
\* resequence (with a job) or from the regular path; the process stops
NewBatchStatePanic ==
  /\ \E job \in BOOLEAN :
       /\ EntersBatchStep(job) /\ forkIdKnown
       /\ NewBatchStatePanics(job)
  /\ pc' = "Panicked"
  /\ UNCHANGED <<exec, stream, limbo, resequenceFlag, shouldCheck, submitted,
                 passed, failed, unwindTo, restarts, forkIdKnown>>

\* limbo recovery: the alignment is skipped and its flag cleared; the
\* limbo transaction is replayed into a block that is rolled back, and
\* the pool records its root and resolves the entry
LimboRecovery ==
  /\ Sequencing /\ IsLimboRecovery
  /\ shouldCheck' = FALSE
  /\ limbo' = NoLimbo
  /\ UNCHANGED <<exec, stream, resequenceFlag, submitted, passed, failed,
                 unwindTo, pc, restarts, forkIdKnown>>

\* alignExecutionToDatastream: execution is past the stream
AlignmentNeeded == exec > stream

\* the alignment check of a regular batch finds execution ahead: the host
\* is asked to unwind to the stream, the flag is cleared, return nil
AlignUnwind ==
  /\ Sequencing /\ limbo = NoLimbo
  /\ shouldCheck /\ AlignmentNeeded
  /\ unwindTo' = stream
  /\ shouldCheck' = FALSE
  /\ UNCHANGED <<exec, stream, limbo, resequenceFlag, submitted, passed,
                 failed, pc, restarts, forkIdKnown>>

\* a regular batch past the alignment check (flag cleared): its block is
\* committed (CommitAndStart) and handed to the verifier
SequenceBlock ==
  /\ Sequencing /\ limbo = NoLimbo
  /\ shouldCheck => ~AlignmentNeeded
  /\ exec < MaxHeight
  /\ shouldCheck' = FALSE
  /\ exec' = exec + 1
  /\ submitted' = submitted \cup {exec + 1}
  /\ pc' = "Poll"
  /\ UNCHANGED <<stream, limbo, resequenceFlag, passed, failed, unwindTo,
                 restarts, forkIdKnown>>

\* the verifier decides the oldest block it has not decided yet
VerifierDecides ==
  LET undecided == submitted \ (passed \cup failed)
  IN  \E b \in undecided :
        /\ \A c \in undecided : b <= c
        /\ \/ passed' = passed \cup {b} /\ UNCHANGED failed
           \/ failed' = failed \cup {b} /\ UNCHANGED passed
        /\ UNCHANGED <<exec, stream, limbo, resequenceFlag, shouldCheck,
                       submitted, unwindTo, pc, restarts, forkIdKnown>>

\* the stream is written up to the last block of the run of accepted
\* blocks that follows it
WrittenUpTo ==
  CHOOSE n \in stream..exec : (stream + 1)..n \subseteq passed /\ n + 1 \notin passed

\* mutant: the unwind target is the stream height read before the write
UnwindTargetStale(n) == stream

\* the unwind target: the stream as just written
UnwindTarget(n) == n

\* mutant: the stream is written up to the last decided block, past a
\* rejected one
PollPastRejection ==
  /\ pc = "Poll"
  /\ LET n == WrittenUpTo
         top == IF passed \cup failed = {} THEN n
                ELSE CHOOSE m \in passed \cup failed :
                       \A k \in passed \cup failed : k <= m
     IN  /\ stream' = top
         /\ submitted' = submitted \ (1..top)
         /\ passed' = passed \ (1..top)
         /\ IF n + 1 \in failed
            THEN /\ unwindTo' = UnwindTarget(n)
                 /\ limbo' = n + 1
            ELSE UNCHANGED <<unwindTo, limbo>>
  /\ pc' = "Idle"
  /\ UNCHANGED <<exec, resequenceFlag, shouldCheck, failed, restarts, forkIdKnown>>

\* updateStreamAndCheckRollback and the commit after it: the accepted
\* blocks are written to the stream; a rejected block next in line asks
\* the host to unwind to the stream and the pool puts its transaction in
\* limbo; the invocation returns
Poll ==
  /\ pc = "Poll"
  /\ LET n == WrittenUpTo
     IN  /\ stream' = n
         /\ submitted' = submitted \ (1..n)
         /\ passed' = passed \ (1..n)
         /\ IF n + 1 \in failed
            THEN /\ unwindTo' = UnwindTarget(n)
                 /\ limbo' = n + 1
            ELSE UNCHANGED <<unwindTo, limbo>>
  /\ pc' = "Idle"
  /\ UNCHANGED <<exec, resequenceFlag, shouldCheck, failed, restarts, forkIdKnown>>

\* the host unwinds execution; the verifier's work above it is dropped
HostUnwind ==
  /\ pc = "Idle" /\ unwindTo # NoUnwind
  /\ exec' = unwindTo
  /\ submitted' = {} /\ passed' = {} /\ failed' = {}
  /\ unwindTo' = NoUnwind
  /\ UNCHANGED <<stream, limbo, resequenceFlag, shouldCheck, pc, restarts, forkIdKnown>>

\* the process stops and starts again: the package variable is
\* initialised to true, the verifier's queue and the requested unwind
\* are lost
Restart ==
  /\ pc # "Panicked" /\ restarts < MaxRestarts
  /\ shouldCheck' = TRUE
  /\ submitted' = {} /\ passed' = {} /\ failed' = {}
  /\ unwindTo' = NoUnwind
  /\ pc' = "Idle"
  /\ restarts' = restarts + 1
  /\ UNCHANGED <<exec, stream, limbo, resequenceFlag, forkIdKnown>>

\* the process has stopped on a panic
Halted ==
  /\ pc = "Panicked"
  /\ UNCHANGED vars

\* the model's height bound: a regular batch is not started past it
AtHeightBound ==
  /\ Sequencing /\ limbo = NoLimbo
  /\ shouldCheck => ~AlignmentNeeded
  /\ exec = MaxHeight
  /\ UNCHANGED vars

Next ==
  \/ ForkIdWait \/ L1ForkIdFinalised
  \/ Resequence \/ ResequenceCompleted \/ InjectedBatch
  \/ NewBatchStatePanic \/ LimboRecovery \/ AlignUnwind \/ SequenceBlock
  \/ VerifierDecides \/ Poll \/ HostUnwind \/ Restart
  \/ Halted \/ AtHeightBound

Spec == Init /\ [][Next]_vars

\* the steps of one invocation of the stage
ProcessStep ==
  \/ Resequence \/ InjectedBatch \/ NewBatchStatePanic \/ LimboRecovery
  \/ AlignUnwind \/ SequenceBlock \/ Poll

\* the host keeps invoking the stage and performs the unwinds it is asked
\* for, and the verifier settles every verification (it is given a
\* timeout and a retry count, line 640); crashes and L1 are not forced
FairSpec ==
  /\ Spec
  /\ WF_vars(ProcessStep)
  /\ WF_vars(HostUnwind)
  /\ WF_vars(VerifierDecides)

-----------------------------------------------------------------------------
(* Properties *)

\* A resequence never meets a limbo entry: newBatchState checks the limbo
\* entry before it looks at the resequence job (..._state.go 80-90), so
\* an entry left while the datastream is ahead of execution would panic
\* the process on every start.  Verifier rejections, polls, host unwinds
\* and restarts never leave one.
ResequenceMeetsNoLimbo == NeedsResequence => limbo = NoLimbo

\* newBatchState's limbo panic (..._state.go 84-90) is met only after a
\* crash: without one, a rejection's limbo entry is always in the batch
\* the host's unwind leaves next (or the one before), so the entry is
\* replayed by limbo recovery.  Only a restart that loses the requested
\* unwind, or an unwind to the wrong height, strands it.
PanicOnlyAfterCrash == pc = "Panicked" => restarts > 0

\* Without a crash, a transaction the verifier put in limbo is replayed:
\* the host performs the unwind updateStreamAndCheckRollback asked for,
\* the next invocation's newBatchState finds the entry in the batch it
\* opens, and limbo recovery (165-167 and the block loop) resolves it.
LimboEventuallyRecovered ==
  [](restarts = 0) => [](limbo # NoLimbo => <>(limbo = NoLimbo))

\* A regular block is committed only on top of blocks that are in the
\* datastream or waiting for this process's verifier: the alignment check
\* (143-167) unwinds anything else once per process before sequencing.
FreshBuildOnTrackedBlocks ==
  [][pc = "Idle" /\ pc' = "Poll" =>
       \A b \in (stream + 1)..exec : b \in submitted]_vars
=============================================================================
