------------------------------ MODULE JobQueue ------------------------------
(***************************************************************************)
(* JobRepository: the persistent queue of staged jobs (tables AgentRun,    *)
(* JobStage and JobAttempt).  Every method of the repository is one SQLite *)
(* transaction, hence one action here; a method that throws or returns     *)
(* null/false rolls back, hence has no step.  The callers are sessions     *)
(* (OwnerSession strings) that keep the JobLease values they were given    *)
(* for as long as they like, so every operation on a lease may be called   *)
(* with any lease ever issued, however stale.                              *)
(*                                                                         *)
(* Time.  A timestamp that the code compares with `now' is represented by  *)
(* the time left until it is reached, in ticks: LeaseExpiresAt > now is    *)
(* left > 0, and NextAttemptAt <= now is wait = 0.  Tick lets time pass.   *)
(***************************************************************************)
EXTENDS Integers

CONSTANTS
  Runs,         \* identifiers of the runs
  Sessions,     \* owner sessions
  NoSession,    \* LeaseOwner IS NULL
  NStages,      \* stages per run; JobScheduler.Create insists on ordinals 0..n-1
  MaxAttempts,  \* AgentRun.MaxAttempts
  LeaseTicks,   \* lease duration the callers ask for
  RetryTicks    \* delay before a RetryScheduled stage is due

ASSUME NoSessionAssumption   == NoSession \notin Sessions
ASSUME NStagesAssumption     == NStages \in Nat \ {0}
ASSUME MaxAttemptsAssumption == MaxAttempts \in Nat \ {0}
ASSUME LeaseTicksAssumption  == LeaseTicks \in Nat \ {0}
ASSUME RetryTicksAssumption  == RetryTicks \in Nat

Stages   == 1 .. NStages
Attempts == 1 .. MaxAttempts
Owners   == Sessions \cup {NoSession}

VARIABLES
  run,     \* run[r]: the AgentRun row
  stage,   \* stage[r][s]: the JobStage row
  attempt  \* attempt[r][s][n]: the JobAttempt row with AttemptNumber n

vars == <<run, stage, attempt>>

RunStates     == {"Absent", "Queued", "Running", "Partial", "Completed", "Failed", "Cancelled"}
StageStates   == {"Queued", "Running", "RetryScheduled", "Completed", "Failed", "Cancelled"}
AttemptStates == {"None", "Running", "Completed", "Failed", "Cancelled", "Interrupted"}

RunRow     == [state : RunStates, owner : Owners, checkpoint : SUBSET Stages]
StageRow   == [state : StageStates, count : 0 .. MaxAttempts, owner : Owners,
               left : 0 .. LeaseTicks, wait : 0 .. RetryTicks]
AttemptRow == [state : AttemptStates, owner : Owners]

Init ==
  /\ run     = [r \in Runs |-> [state |-> "Absent", owner |-> NoSession, checkpoint |-> {}]]
  /\ stage   = [r \in Runs |-> [s \in Stages |->
                  [state |-> "Queued", count |-> 0, owner |-> NoSession, left |-> 0, wait |-> 0]]]
  /\ attempt = [r \in Runs |-> [s \in Stages |-> [n \in Attempts |->
                  [state |-> "None", owner |-> NoSession]]]]

-----------------------------------------------------------------------------
(* Row updates *)

(* The stage leaves Running for state st: its lease is cleared. *)
Released(row, st, wait) ==
  [state |-> st, count |-> row.count, owner |-> NoSession, left |-> 0, wait |-> wait]

EnsureLeaseNoExpiry(r, s, n) ==
  /\ stage[r][s].state = "Running"
  /\ stage[r][s].owner = attempt[r][s][n].owner

(* The lease of a JobAttempt is its row: run, stage, number and owner.    *)
(* EnsureLease: the stage is Running for that owner and has not expired.  *)
EnsureLease(r, s, n) ==
  /\ stage[r][s].state = "Running"
  /\ stage[r][s].owner = attempt[r][s][n].owner
  /\ stage[r][s].left > 0

(* FinishAttempt throws STALE_JOB_ATTEMPT unless the attempt is Running. *)
AttemptOpenAlways(r, s, n) == attempt[r][s][n].state # "None"
AttemptOpen(r, s, n) == attempt[r][s][n].state = "Running"

FinishAttempt(r, s, n, st) ==
  /\ AttemptOpen(r, s, n)
  /\ attempt' = [attempt EXCEPT ![r][s][n].state = st]

-----------------------------------------------------------------------------
(* Operations *)

Create(r) ==
  /\ run[r].state = "Absent"
  /\ run' = [run EXCEPT ![r].state = "Queued"]
  /\ UNCHANGED <<stage, attempt>>

(* The SELECT of TryAcquireNext: queued or due for a retry, attempts left, *)
(* every stage of a lower ordinal Completed.                               *)
PriorsCompleted(r, s) == \A p \in Stages : p < s => stage[r][p].state = "Completed"

ReadyAnyOrder(r, s) ==
  /\ run[r].state \in {"Queued", "Running", "Partial"}
  /\ stage[r][s].state \in {"Queued", "RetryScheduled"}
  /\ stage[r][s].wait = 0
  /\ stage[r][s].count < MaxAttempts

ReadyOrTakeover(r, s) ==
  /\ run[r].state \in {"Queued", "Running", "Partial"}
  /\ \/ stage[r][s].state \in {"Queued", "RetryScheduled"} /\ stage[r][s].wait = 0
     \/ stage[r][s].state = "Running" /\ stage[r][s].left = 0
  /\ stage[r][s].count < MaxAttempts
  /\ PriorsCompleted(r, s)

ReadyUnlimited(r, s) ==
  /\ run[r].state \in {"Queued", "Running", "Partial"}
  /\ stage[r][s].state \in {"Queued", "RetryScheduled"}
  /\ stage[r][s].wait = 0
  /\ PriorsCompleted(r, s)

Ready(r, s) ==
  /\ run[r].state \in {"Queued", "Running", "Partial"}
  /\ stage[r][s].state \in {"Queued", "RetryScheduled"}
  /\ stage[r][s].wait = 0
  /\ stage[r][s].count < MaxAttempts
  /\ PriorsCompleted(r, s)

TryAcquireNext(r, s, o) ==
  /\ Ready(r, s)
  /\ LET n == stage[r][s].count + 1 IN
     /\ stage'   = [stage EXCEPT ![r][s] = [state |-> "Running", count |-> n, owner |-> o,
                                            left |-> LeaseTicks, wait |-> 0]]
     /\ attempt' = [attempt EXCEPT ![r][s][n] = [state |-> "Running", owner |-> o]]
  /\ run' = [run EXCEPT ![r] = [state |-> "Running", owner |-> o, checkpoint |-> @.checkpoint]]

(* RenewLease compares owners only: neither the attempt nor the expiry. *)
RenewLease(r, s, n) ==
  /\ attempt[r][s][n].state # "None"
  /\ stage[r][s].state = "Running"
  /\ stage[r][s].owner = attempt[r][s][n].owner
  /\ run[r].owner = attempt[r][s][n].owner
  /\ stage' = [stage EXCEPT ![r][s].left = LeaseTicks]
  /\ UNCHANGED <<run, attempt>>

(* The run row follows the stage only where its LeaseOwner is the lease's. *)
RunFollows(r, s, n, row) ==
  run' = [run EXCEPT ![r] = IF @.owner = attempt[r][s][n].owner THEN row ELSE @]

(* Stage, attempt, checkpoint and stage result commit together; the run   *)
(* keeps its state, Running, until CompleteRun.                           *)
CompleteStage(r, s, n, checkpoint) ==
  /\ attempt[r][s][n].state # "None"
  /\ EnsureLease(r, s, n)
  /\ FinishAttempt(r, s, n, "Completed")
  /\ stage' = [stage EXCEPT ![r][s] = Released(@, "Completed", @.wait)]
  /\ RunFollows(r, s, n, [state |-> run[r].state, owner |-> NoSession, checkpoint |-> checkpoint])

(* FinishStage, shared by FailStage and CancelStage. *)
FinishStage(r, s, n, attemptState, stageState, runState) ==
  /\ attempt[r][s][n].state # "None"
  /\ EnsureLease(r, s, n)
  /\ FinishAttempt(r, s, n, attemptState)
  /\ stage' = [stage EXCEPT ![r][s] =
                 Released(@, stageState, IF stageState = "RetryScheduled" THEN RetryTicks ELSE 0)]
  /\ RunFollows(r, s, n, [state |-> runState, owner |-> NoSession, checkpoint |-> run[r].checkpoint])

FailStageRunKept(r, s, n, retryable) ==
  IF retryable /\ n < MaxAttempts
  THEN FinishStage(r, s, n, "Failed", "RetryScheduled", "Failed")
  ELSE FinishStage(r, s, n, "Failed", "Failed", "Failed")

FailStage(r, s, n, retryable) ==
  IF retryable /\ n < MaxAttempts
  THEN FinishStage(r, s, n, "Failed", "RetryScheduled", "Queued")
  ELSE FinishStage(r, s, n, "Failed", "Failed", "Failed")

CancelStage(r, s, n) == FinishStage(r, s, n, "Cancelled", "Cancelled", "Cancelled")

(* Every failed or cancelled stage with attempts left is queued again;    *)
(* JOB_NOT_REQUEUEABLE (and no step) when there is none.                  *)
Requeueable(r) ==
  {s \in Stages : stage[r][s].state \in {"Failed", "Cancelled"} /\ stage[r][s].count < MaxAttempts}

RequeuedFresh(row) ==
  [state |-> "Queued", count |-> 0, owner |-> NoSession, left |-> 0, wait |-> 0]
Requeued(row) == Released(row, "Queued", 0)

RequeueIncomplete(r) ==
  /\ Requeueable(r) # {}
  /\ run[r].state # "Completed"
  /\ stage' = [stage EXCEPT ![r] = [s \in Stages |->
                 IF s \in Requeueable(r) THEN Requeued(stage[r][s]) ELSE stage[r][s]]]
  /\ run' = [run EXCEPT ![r].state = "Queued", ![r].owner = NoSession]
  /\ UNCHANGED attempt

AllStagesCompleted(r) == \A s \in Stages : stage[r][s].state = "Completed"

CompleteRun(r, o) ==
  /\ run[r].state # "Absent"
  /\ AllStagesCompleted(r)
  /\ run[r].owner \in {o, NoSession}
  /\ run' = [run EXCEPT ![r].state = "Completed", ![r].owner = NoSession]
  /\ UNCHANGED <<stage, attempt>>

(* RecoverLeases: every Running attempt of a Running stage, or only those *)
(* whose lease has expired, is Interrupted and its stage queued again.    *)
Lapsed(r, s, n, expiredOnly) ==
  /\ attempt[r][s][n].state = "Running"
  /\ stage[r][s].state = "Running"
  /\ expiredOnly => stage[r][s].left = 0

LapsedStage(r, s, expiredOnly) == \E n \in Attempts : Lapsed(r, s, n, expiredOnly)

RecoverLeases(expiredOnly) ==
  /\ attempt' = [r \in Runs |-> [s \in Stages |-> [n \in Attempts |->
                   IF Lapsed(r, s, n, expiredOnly)
                   THEN [state |-> "Interrupted", owner |-> attempt[r][s][n].owner]
                   ELSE attempt[r][s][n]]]]
  /\ stage' = [r \in Runs |-> [s \in Stages |->
                 IF LapsedStage(r, s, expiredOnly)
                 THEN Released(stage[r][s], "Queued", stage[r][s].wait)
                 ELSE stage[r][s]]]
  /\ run' = [r \in Runs |->
               IF \E s \in Stages, n \in Attempts :
                     Lapsed(r, s, n, expiredOnly) /\ run[r].owner = attempt[r][s][n].owner
               THEN [state |-> "Queued", owner |-> NoSession, checkpoint |-> run[r].checkpoint]
               ELSE run[r]]

RecoverExpiredLeases == RecoverLeases(TRUE)
RecoverStaleLeases   == RecoverLeases(FALSE)

(* Time passes: one tick off every lease and retry delay. *)
Less(t) == IF t > 0 THEN t - 1 ELSE 0

TimerRuns == \E r \in Runs, s \in Stages : stage[r][s].left > 0 \/ stage[r][s].wait > 0

Elapsed(row) == [state |-> row.state, count |-> row.count, owner |-> row.owner,
                 left |-> Less(row.left), wait |-> Less(row.wait)]

TimersElapse == stage' = [r \in Runs |-> [s \in Stages |-> Elapsed(stage[r][s])]]

Tick ==
  /\ TimerRuns
  /\ TimersElapse
  /\ UNCHANGED <<run, attempt>>

(* The checkpoint a caller passes holds the outputs of the stages it knows *)
(* to be completed and the one it completes now.                           *)
CompletedStages(r) == {s \in Stages : stage[r][s].state = "Completed"}

LeaseStep(r, s, n) ==
  \/ RenewLease(r, s, n)
  \/ CompleteStage(r, s, n, CompletedStages(r) \cup {s})
  \/ \E retryable \in BOOLEAN : FailStage(r, s, n, retryable)
  \/ CancelStage(r, s, n)

Next ==
  \/ \E r \in Runs : Create(r) \/ RequeueIncomplete(r)
  \/ \E r \in Runs, s \in Stages, o \in Sessions : TryAcquireNext(r, s, o)
  \/ \E r \in Runs, s \in Stages, n \in Attempts : LeaseStep(r, s, n)
  \/ \E r \in Runs, o \in Sessions : CompleteRun(r, o)
  \/ RecoverExpiredLeases
  \/ RecoverStaleLeases
  \/ Tick

Spec == Init /\ [][Next]_vars

-----------------------------------------------------------------------------
(* Properties *)

(* Types of the three tables; a stage never counts more than MaxAttempts  *)
(* attempts (JobRepository.TryAcquireNext).                               *)
TypeOK ==
  /\ run     \in [Runs -> RunRow]
  /\ stage   \in [Runs -> [Stages -> StageRow]]
  /\ attempt \in [Runs -> [Stages -> [Attempts -> AttemptRow]]]

(* The lease is one fact kept in three tables.  The only Running attempt  *)
(* of a run is the newest one of its only Running stage, stage, attempt   *)
(* and run name the same owner, and a stage that is not Running has no    *)
(* owner and no time left: nobody ever shares or loses track of a lease,  *)
(* whatever the order of acquisitions, expiries, recoveries and retries.  *)
LeaseHeld(r, s) ==
  /\ stage[r][s].owner \in Sessions
  /\ attempt[r][s][stage[r][s].count].owner = stage[r][s].owner
  /\ run[r].owner = stage[r][s].owner
  /\ run[r].state = "Running"
  /\ \A q \in Stages : stage[r][q].state = "Running" => q = s

LeaseAgrees(r, s) ==
  /\ \A n \in Attempts :
       (attempt[r][s][n].state = "Running") <=>
       (stage[r][s].state = "Running" /\ n = stage[r][s].count)
  /\ stage[r][s].state = "Running" => LeaseHeld(r, s)
  /\ stage[r][s].state # "Running" => stage[r][s].owner = NoSession /\ stage[r][s].left = 0
  /\ stage[r][s].state # "RetryScheduled" => stage[r][s].wait = 0

LeaseCoherent == \A r \in Runs, s \in Stages : LeaseAgrees(r, s)

(* The ledger of attempts agrees with the stage rows: attempts are        *)
(* numbered 1..AttemptCount without a gap, a stage is Completed exactly   *)
(* when its newest attempt is, no other attempt of it ever completed, and *)
(* a stage waits for a retry only with an attempt left to retry with.     *)
LedgerAgrees(r, s) ==
  /\ stage[r][s].count = 0 => stage[r][s].state = "Queued"
  /\ stage[r][s].state = "RetryScheduled" => stage[r][s].count < MaxAttempts
  /\ \A n \in Attempts :
       /\ (attempt[r][s][n].state = "None") <=> (n > stage[r][s].count)
       /\ (attempt[r][s][n].state = "Completed") <=>
           (stage[r][s].state = "Completed" /\ n = stage[r][s].count)

AttemptLedger == \A r \in Runs, s \in Stages : LedgerAgrees(r, s)

(* A stage is attempted only after every stage before it has committed    *)
(* its output, however often earlier stages failed, were cancelled,       *)
(* interrupted and requeued.                                              *)
InOrder(r, s) == stage[r][s].count > 0 => PriorsCompleted(r, s)

StagesInOrder == \A r \in Runs, s \in Stages : InOrder(r, s)

(* The state of the run is the verdict on its stages: it is Completed     *)
(* only with every output in, Failed or Cancelled only when a stage is,   *)
(* and a stage that waits for its retry belongs to a run that is Queued,  *)
(* the one state among these from which TryAcquireNext takes it up.       *)
VerdictAgrees(r) ==
  /\ run[r].state = "Completed" => AllStagesCompleted(r)
  /\ run[r].state \in {"Failed", "Cancelled"} =>
       \E s \in Stages : stage[r][s].state = run[r].state
  /\ (\E s \in Stages : stage[r][s].state = "RetryScheduled") => run[r].state = "Queued"

RunMatchesStages == \A r \in Runs : VerdictAgrees(r)

(* Only the live lease concludes: an attempt becomes Completed, Failed or *)
(* Cancelled, and its stage with it, only while it is the newest one,     *)
(* Running, and its lease has not expired; whoever kept an older lease    *)
(* over an expiry, a recovery and a new acquisition concludes nothing     *)
(* (JobRepository.EnsureLease and FinishAttempt; the test "expired leases *)
(* cannot commit stage output").                                          *)
Ended == {"Completed", "Failed", "Cancelled"}

Concludes(r, s, n) ==
  attempt[r][s][n].state \notin Ended /\ attempt'[r][s][n].state \in Ended

ConclusionsLive(r, s) ==
  /\ \A n \in Attempts : Concludes(r, s, n) =>
       /\ attempt[r][s][n].state = "Running" /\ n = stage[r][s].count
       /\ stage[r][s].state = "Running" /\ stage[r][s].left > 0
  /\ stage'[r][s].state \in Ended \cup {"RetryScheduled"} /\ stage'[r][s].state # stage[r][s].state =>
       \E n \in Attempts : Concludes(r, s, n)

OnlyLiveLeaseConcludes == [][\A r \in Runs, s \in Stages : ConclusionsLive(r, s)]_vars

(* History is never rewritten: an attempt that has ended stays as it      *)
(* ended, a committed stage output is never undone or run again, attempts *)
(* already counted stay counted over requeues and recoveries, and a run   *)
(* that was completed stays completed.                                    *)
HistoryKept(r, s) ==
  /\ stage[r][s].state = "Completed" => stage'[r][s] = stage[r][s]
  /\ stage'[r][s].count >= stage[r][s].count
  /\ run[r].state = "Completed" => run'[r].state = "Completed"
  /\ \A n \in Attempts :
       attempt[r][s][n].state \notin {"None", "Running"} => attempt'[r][s][n] = attempt[r][s][n]

HistoryIsFinal == [][\A r \in Runs, s \in Stages : HistoryKept(r, s)]_vars

-----------------------------------------------------------------------------
(* Refinement: the three tables implement StagedRun. *)

RunningIn(rows) == {sn \in Stages \X Attempts : rows[sn[1]][sn[2]].state = "Running"}

Abstract == INSTANCE StagedRun WITH
  done    <- [r \in Runs |-> CompletedStages(r)],
  working <- [r \in Runs |-> RunningIn(attempt[r])],
  tries   <- [r \in Runs |-> [s \in Stages |-> stage[r][s].count]],
  closed  <- {r \in Runs : run[r].state = "Completed"}

(* The queue implements StagedRun: one attempt at a time at the first     *)
(* stage without an output, each output committed once, a bounded number  *)
(* of tries, and a run closed only when all its outputs are in.           *)
ImplementsStagedRun == Abstract!Spec
=============================================================================
