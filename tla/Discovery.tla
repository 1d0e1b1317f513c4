------------------------------ MODULE Discovery ------------------------------
(***************************************************************************)
(* DiscoveryService.ExecuteAsync over the job queue: the desktop process   *)
(* that starts, runs its two recoveries, connects an agent host (each time *)
(* with a new DiscoveryService, hence a new owner session), and executes   *)
(* one run at a time, stage by stage.  The agent host is a child process   *)
(* on a pipe; it may be slow, refuse, answer late or die, the user may     *)
(* cancel, and the desktop process may crash between any two steps.  Every *)
(* call of the repository is one transaction, hence one step.              *)
(***************************************************************************)
EXTENDS JobQueue, Sequences

CONSTANTS
  NoRun,         \* no run is being executed
  RequestTicks,  \* AgentBridge.RequestAsync waits this long for a response
  PipeSize,      \* the frames the host's standard input holds unread
  Punctual       \* TRUE: code takes no time and timers fire when due;
                 \* FALSE: any step may be late (a busy or suspended machine)

ASSUME NoRunAssumption        == NoRun \notin Runs
ASSUME RequestTicksAssumption == RequestTicks \in Nat \ {0}
ASSUME PipeSizeAssumption     == PipeSize \in Nat \ {0}
ASSUME PunctualAssumption     == Punctual \in BOOLEAN
\* DiscoveryService.Create leaves JobDefinition.MaxAttempts at its default, 3.
ASSUME DefaultAttemptsAssumption == MaxAttempts <= 3

(* JobBudget.MaxModelRequests as DiscoveryService.Create fills it in. *)
OneRequestPerStage == NStages
ModelRequests == 3 * NStages

VARIABLES
  app,      \* the desktop process: down, in one of the two recoveries, or up
  unused,   \* owner sessions (GUIDs) not handed out yet: bounds the connections
  session,  \* ownerSession of the current DiscoveryService
  host,     \* the agent host: alive or not, and the jobs it works on
  inbox,    \* frames written to the host and not read yet
  outbox,   \* frames whose WriteAsync waits for its turn or for room in the pipe
  activeRun,\* AgentBridge.activeRun: the run a cancel is sent to
  exec,     \* the local state of ExecuteAsync
  used,     \* used[r]: JobBudget.UsedModelRequests
  output    \* output[r][s]: the attempt whose answer is stored as the stage's output

pipevars == <<inbox, outbox, activeRun>>
hostvars == <<host, pipevars>>
appvars == <<app, unused, session>>
dvars == <<run, stage, attempt, app, unused, session, host, pipevars, exec, used, output>>

Job == Runs \X Stages \X Attempts
NoJob == <<>>

Frame == [kind : {"run", "cancel"}, job : Job]

Phases  == {"idle", "next", "leased", "writing", "asked", "waiting",
            "throwing", "cancelling", "awaiting", "failing"}
Answers == {"none", "good", "bad", "gone"}

Exec == [phase : Phases, run : Runs \cup {NoRun}, known : SUBSET Stages,
         stage : 0 .. NStages, number : 0 .. MaxAttempts, patience : Nat,
         answer : Answers, source : 0 .. MaxAttempts,
         cancelled : BOOLEAN, retryable : BOOLEAN]

Idle == [phase |-> "idle", run |-> NoRun, known |-> {}, stage |-> 0, number |-> 0, patience |-> 0,
         answer |-> "none", source |-> 0, cancelled |-> FALSE, retryable |-> FALSE]

Dead  == [alive |-> FALSE, jobs |-> {}, aborted |-> FALSE]
Alive == [alive |-> TRUE, jobs |-> {}, aborted |-> FALSE]

NothingWritten == inbox' = <<>> /\ outbox' = {} /\ activeRun' = NoJob

DInit ==
  /\ Init
  /\ app = "down" /\ unused = Sessions /\ session = NoSession
  /\ host = Dead /\ inbox = <<>> /\ outbox = {} /\ activeRun = NoJob
  /\ exec = Idle
  /\ used = [r \in Runs |-> 0]
  /\ output = [r \in Runs |-> [s \in Stages |-> 0]]

ThisJob == <<exec.run, exec.stage, exec.number>>

-----------------------------------------------------------------------------
(* The process: crash, start-up recovery, connection *)

Crash ==
  /\ app # "down"
  /\ app' = "down" /\ session' = NoSession
  /\ host' = Dead /\ NothingWritten /\ exec' = Idle
  /\ UNCHANGED <<run, stage, attempt, unused, used, output>>

Boot ==
  /\ app = "down"
  /\ app' = "leases"
  /\ UNCHANGED <<run, stage, attempt, unused, session, hostvars, exec, used, output>>

(* AppServices: Jobs.RecoverStale(). *)
RecoverExpiredAtStartup ==
  /\ app = "leases"
  /\ RecoverExpiredLeases
  /\ app' = "runs"
  /\ UNCHANGED <<unused, session, hostvars, exec, used, output>>

RecoverLeasesAtStartup ==
  /\ app = "leases"
  /\ RecoverStaleLeases
  /\ app' = "runs"
  /\ UNCHANGED <<unused, session, hostvars, exec, used, output>>

(* ResearchStore.RecoverInterruptedRuns, one transaction per run. *)
RecoverInterruptedRun(r) ==
  /\ app = "runs"
  /\ run[r].state = "Running"
  /\ run' = [run EXCEPT ![r].state = "Partial"]
  /\ UNCHANGED <<stage, attempt, app, unused, session, hostvars, exec, used, output>>

Started ==
  /\ app = "runs"
  /\ \A r \in Runs : run[r].state # "Running"
  /\ app' = "up"
  /\ UNCHANGED <<run, stage, attempt, unused, session, hostvars, exec, used, output>>

(* ConnectAgentAsync, enabled when not Busy: a new host process and a new  *)
(* DiscoveryService; which GUID it draws is immaterial.                    *)
Connect ==
  /\ app = "up" /\ exec.phase = "idle" /\ unused # {}
  /\ session' = CHOOSE o \in unused : TRUE
  /\ unused' = unused \ {session'}
  /\ host' = Alive /\ NothingWritten
  /\ UNCHANGED <<run, stage, attempt, app, exec, used, output>>

-----------------------------------------------------------------------------
(* The agent host.  It reads the pipe in order, works on one job, and      *)
(* finishes it with one run_finished.                                      *)

Asking(j) == exec.phase = "asked" /\ ThisJob = j

(* ExecuteAsync throws while the run it asked for may still be the host's   *)
(* (mayOwnActiveRun), or once it is not.                                   *)
Thrown(retryable)  == [exec EXCEPT !.phase = "throwing", !.retryable = retryable, !.patience = 0,
                                   !.answer = "none", !.source = 0]
Refused(retryable) == [Thrown(retryable) EXCEPT !.phase = "failing"]

(* CancelQuietlyAsync is over, answered or not. *)
Uncancelled == [exec EXCEPT !.phase = "failing", !.patience = 0]

Takes(jobs) ==
  /\ host' = [host EXCEPT !.jobs = jobs, !.aborted = FALSE]
  /\ UNCHANGED <<exec, activeRun>>

ReadsRunWhileBusy(j) == Takes(host.jobs \cup {j})

ReadsRun(j) ==
  IF host.jobs = {}
  THEN Takes({j})
  ELSE /\ exec' = IF Asking(j) THEN Refused(TRUE) ELSE exec \* RUN_BUSY
       /\ activeRun' = IF Asking(j) THEN NoJob ELSE activeRun
       /\ UNCHANGED host

(* A cancel_run that names the job at work aborts it. *)
ReadsCancel(j) ==
  /\ host' = [host EXCEPT !.aborted = @ \/ j \in host.jobs]
  /\ UNCHANGED <<exec, activeRun>>

HostReads ==
  /\ host.alive /\ inbox # <<>>
  /\ inbox' = Tail(inbox)
  /\ IF Head(inbox).kind = "run" THEN ReadsRun(Head(inbox).job) ELSE ReadsCancel(Head(inbox).job)
  /\ UNCHANGED <<vars, appvars, outbox, used, output>>

(* The response to ExecuteAsync's cancel: at once, or when the session it  *)
(* aborted has become idle.                                                *)
HostAnswersCancel ==
  /\ host.alive /\ exec.phase = "awaiting"
  /\ \A i \in DOMAIN inbox : inbox[i].kind # "cancel"
  /\ exec' = Uncancelled
  /\ UNCHANGED <<vars, appvars, hostvars, used, output>>

(* The session is created and the request answered ok. *)
HostAccepts ==
  /\ ThisJob \in host.jobs /\ exec.phase = "asked"
  /\ exec' = [exec EXCEPT !.phase = "waiting", !.patience = LeaseTicks]
  /\ UNCHANGED <<vars, appvars, hostvars, used, output>>

(* AUTH_IN_PROGRESS, MODEL_NOT_FOUND, SESSION_START_FAILED; the            *)
(* run_finished that follows the last of them is read with it.             *)
HostRefuses ==
  /\ ThisJob \in host.jobs /\ exec.phase = "asked"
  /\ exec' = Refused(FALSE)
  /\ host' = Alive /\ activeRun' = NoJob
  /\ UNCHANGED <<vars, appvars, inbox, outbox, used, output>>

(* OnEvent is registered before the request is written and drops every     *)
(* event that is not of its run, stage and attempt.                        *)
Listening == exec.phase \in {"writing", "asked", "waiting"}
MineByStage(j) == Listening /\ j[1] = exec.run /\ j[2] = exec.stage
Mine(j) == Listening /\ j = ThisJob

Heard(answer, n) ==
  IF exec.answer = "none" THEN [exec EXCEPT !.answer = answer, !.source = n] ELSE exec

(* Any run_finished resets activeRun, whatever run it is of. *)
HostFinishes(j, answer) ==
  /\ j \in host.jobs
  /\ ~Asking(j)                \* the response to the request precedes its events
  /\ answer = "good" => ~host.aborted
  /\ host' = Alive /\ activeRun' = NoJob
  /\ exec' = IF Mine(j) THEN Heard(answer, j[3]) ELSE exec
  /\ UNCHANGED <<vars, appvars, inbox, outbox, used, output>>

(* host_disconnected: every pending request and every write fails; what    *)
(* CancelQuietlyAsync waits for ends quietly.                              *)
HostDies ==
  /\ host.alive
  /\ host' = Dead /\ inbox' = <<>> /\ outbox' = {}
  /\ exec' = CASE exec.phase \in {"writing", "asked"}       -> Thrown(TRUE)
               [] exec.phase = "waiting"                    -> Heard("gone", 0)
               [] exec.phase \in {"cancelling", "awaiting"} -> Uncancelled
               [] OTHER                                     -> exec
  /\ UNCHANGED <<vars, appvars, activeRun, used, output>>

-----------------------------------------------------------------------------
(* ExecuteAsync *)

(* Discover, Analyze or Draft creates a run; a run that is queued is       *)
(* executed, one that is Partial, Failed or Cancelled is requeued first.   *)
CreateRun(r) ==
  /\ app = "up" /\ session # NoSession /\ exec.phase = "idle"
  /\ Create(r)
  /\ UNCHANGED <<appvars, hostvars, exec, used, output>>

Start(r) ==
  /\ app = "up" /\ session # NoSession /\ exec.phase = "idle"
  /\ IF run[r].state = "Queued"
     THEN UNCHANGED vars
     ELSE run[r].state \in {"Partial", "Failed", "Cancelled"} /\ RequeueIncomplete(r)
  /\ exec' = [Idle EXCEPT !.phase = "next", !.run = r, !.known = run[r].checkpoint]
  /\ UNCHANGED <<appvars, hostvars, used, output>>

Remaining == Stages \ exec.known
NextStage == CHOOSE s \in Remaining : \A q \in Remaining : s <= q

AtNextStage == exec.phase = "next" /\ Remaining # {}

(* Between two stages a cancellation throws with no lease in hand. *)
CancelledBetweenStages ==
  /\ AtNextStage /\ exec.cancelled
  /\ exec' = Idle
  /\ UNCHANGED <<vars, appvars, hostvars, used, output>>

NotReady ==
  /\ AtNextStage /\ ~exec.cancelled
  /\ \A s \in Stages : ~Ready(exec.run, s)
  /\ exec' = Idle
  /\ UNCHANGED <<vars, appvars, hostvars, used, output>>

(* A lease on another stage than the one expected is failed at once. *)
Acquire ==
  /\ AtNextStage /\ ~exec.cancelled
  /\ \E s \in Stages :
       /\ TryAcquireNext(exec.run, s, session)
       /\ exec' = [exec EXCEPT !.phase = IF s = NextStage THEN "leased" ELSE "failing",
                               !.stage = s, !.number = stage[exec.run][s].count + 1,
                               !.answer = "none", !.source = 0]
  /\ UNCHANGED <<appvars, hostvars, used, output>>

(* TryConsumeBudget, then RequestAsync up to its write:                    *)
(* JOB_MODEL_BUDGET_EXCEEDED is not retryable, a dead host's pipe is.      *)
BudgetLeft(r) == used[r] < ModelRequests

Ask ==
  /\ exec.phase = "leased"
  /\ IF BudgetLeft(exec.run)
     THEN /\ used' = [used EXCEPT ![exec.run] = @ + 1]
          /\ activeRun' = ThisJob
          /\ IF host.alive
             THEN /\ exec' = [exec EXCEPT !.phase = "writing"]
                  /\ outbox' = outbox \cup {[kind |-> "run", job |-> ThisJob]}
             ELSE exec' = Thrown(TRUE) /\ UNCHANGED outbox
     ELSE exec' = Thrown(FALSE) /\ UNCHANGED <<used, outbox, activeRun>>
  /\ UNCHANGED <<vars, appvars, host, inbox, output>>

(* WriteAsync: the writer semaphore, in no given order, and the pipe.  It  *)
(* has no timeout of its own; the wait for the response starts after it.   *)
PipeFull == Len(inbox) = PipeSize

WriteFrame(f) ==
  /\ f \in outbox /\ ~PipeFull
  /\ inbox' = Append(inbox, f) /\ outbox' = outbox \ {f}
  /\ exec' = [exec EXCEPT !.phase = IF f.kind = "run" THEN "asked" ELSE "awaiting",
                          !.patience = RequestTicks]
  /\ UNCHANGED <<vars, appvars, host, activeRun, used, output>>

RequestTimeout ==
  /\ exec.phase = "asked" /\ exec.patience = 0
  /\ exec' = Thrown(TRUE)
  /\ UNCHANGED <<vars, appvars, hostvars, used, output>>

WaitTimeoutWhenCancelled ==
  /\ exec.phase = "waiting" /\ exec.patience = 0 /\ exec.answer = "none" /\ exec.cancelled
  /\ exec' = Thrown(TRUE)
  /\ UNCHANGED <<vars, appvars, hostvars, used, output>>

WaitTimeout ==
  /\ exec.phase = "waiting" /\ exec.patience = 0 /\ exec.answer = "none"
  /\ exec' = Thrown(TRUE)
  /\ UNCHANGED <<vars, appvars, hostvars, used, output>>

(* The user cancels; the waits of ExecuteAsync that take the token throw.  *)
(* What the token's registration sends meanwhile is the cancel of the      *)
(* catch block, to the same run; it is sent once here.                     *)
UserCancel ==
  /\ exec.phase \in {"writing", "asked", "waiting", "cancelling", "awaiting"} /\ ~exec.cancelled
  /\ exec' = [exec EXCEPT !.cancelled = TRUE]
  /\ UNCHANGED <<vars, appvars, hostvars, used, output>>

(* A request that is not written yet is not written any more. *)
Aborted ==
  /\ Listening /\ exec.cancelled
  /\ exec' = Thrown(FALSE)
  /\ outbox' = {f \in outbox : f.kind # "run"}
  /\ UNCHANGED <<vars, appvars, host, inbox, activeRun, used, output>>

(* The catch block's CancelQuietlyAsync: it takes no token, and its write  *)
(* waits like any other; a response that fails to come it gives up after   *)
(* the time of a request.                                                  *)
CancelQuietly ==
  /\ exec.phase = "throwing"
  /\ IF host.alive /\ activeRun # NoJob
     THEN /\ outbox' = outbox \cup {[kind |-> "cancel", job |-> activeRun]}
          /\ exec' = [exec EXCEPT !.phase = "cancelling"]
     ELSE exec' = Uncancelled /\ UNCHANGED outbox
  /\ UNCHANGED <<vars, appvars, host, inbox, activeRun, used, output>>

CancelUnanswered ==
  /\ exec.phase = "awaiting" /\ exec.patience = 0
  /\ exec' = Uncancelled
  /\ UNCHANGED <<vars, appvars, hostvars, used, output>>

(* A run that did not complete, or an output that does not validate. *)
AnswerRefused ==
  /\ exec.phase = "waiting" /\ exec.answer # "none"
  /\ exec' = IF exec.answer = "gone" THEN Thrown(TRUE) ELSE Refused(FALSE)
  /\ UNCHANGED <<vars, appvars, hostvars, used, output>>

(* Completed is added to the checkpoint before the commit that may throw. *)
CheckpointLast  == {exec.stage}
CheckpointAfter == exec.known \cup {exec.stage}

AnswerStored ==
  /\ exec.phase = "waiting" /\ exec.answer = "good"
  /\ IF EnsureLease(exec.run, exec.stage, exec.number)
     THEN /\ CompleteStage(exec.run, exec.stage, exec.number, CheckpointAfter)
          /\ output' = [output EXCEPT ![exec.run][exec.stage] = exec.source]
          /\ exec' = [Idle EXCEPT !.phase = "next", !.run = exec.run,
                                  !.known = exec.known \cup {exec.stage},
                                  !.cancelled = exec.cancelled]
     ELSE exec' = Refused(FALSE) /\ UNCHANGED <<vars, output>>   \* STALE_JOB_LEASE
  /\ UNCHANGED <<appvars, hostvars, used>>

(* The rest of the catch block: Cancel or Fail the lease in hand.  When it *)
(* has expired meanwhile they throw STALE_JOB_LEASE and the rows stay.     *)
Conclude ==
  /\ exec.phase = "failing"
  /\ IF EnsureLease(exec.run, exec.stage, exec.number)
     THEN IF exec.cancelled THEN CancelStage(exec.run, exec.stage, exec.number)
                            ELSE FailStage(exec.run, exec.stage, exec.number, exec.retryable)
     ELSE UNCHANGED vars
  /\ exec' = Idle
  /\ UNCHANGED <<appvars, hostvars, used, output>>

(* After the last stage; CompleteRun throws JOB_NOT_COMPLETE otherwise. *)
CloseRun ==
  /\ exec.phase = "next" /\ Remaining = {}
  /\ IF AllStagesCompleted(exec.run) /\ run[exec.run].owner \in {session, NoSession}
     THEN CompleteRun(exec.run, session)
     ELSE UNCHANGED vars
  /\ exec' = Idle
  /\ UNCHANGED <<appvars, hostvars, used, output>>

(* ExecuteAsync is at an await whose outcome is still open, or idle. *)
Suspended ==
  \/ exec.phase = "idle"
  \/ exec.phase = "writing" /\ PipeFull /\ ~exec.cancelled
  \/ exec.phase \in {"asked", "waiting"} /\ exec.patience > 0 /\ exec.answer = "none" /\ ~exec.cancelled
  \/ exec.phase = "cancelling" /\ PipeFull
  \/ exec.phase = "awaiting" /\ exec.patience > 0

TimePasses ==
  /\ Punctual => Suspended
  /\ TimerRuns \/ exec.patience > 0
  /\ TimersElapse
  /\ exec' = [exec EXCEPT !.patience = Less(@)]
  /\ UNCHANGED <<run, attempt, appvars, hostvars, used, output>>

(* The steps ExecuteAsync takes of its own accord. *)
Advance ==
  \/ CancelledBetweenStages \/ NotReady \/ Acquire \/ Ask
  \/ (\E f \in outbox : WriteFrame(f))
  \/ RequestTimeout \/ WaitTimeout \/ Aborted \/ CancelQuietly \/ CancelUnanswered
  \/ AnswerRefused \/ AnswerStored \/ Conclude \/ CloseRun

HostStep ==
  \/ HostReads \/ HostAnswersCancel \/ HostAccepts \/ HostRefuses \/ HostDies
  \/ \E j \in host.jobs, answer \in {"good", "bad"} : HostFinishes(j, answer)

ProcessStep ==
  \/ Crash \/ Boot \/ RecoverLeasesAtStartup \/ Started \/ Connect
  \/ \E r \in Runs : RecoverInterruptedRun(r)

DNext ==
  \/ ProcessStep
  \/ HostStep
  \/ Advance
  \/ UserCancel
  \/ \E r \in Runs : CreateRun(r) \/ Start(r)
  \/ TimePasses

DSafeSpec == DInit /\ [][DNext]_dvars

(* ExecuteAsync is not suspended for ever between two awaits, time passes, *)
(* and a host that lives keeps reading its standard input (index.ts reads  *)
(* it from a stream handler that waits for no command).  Nothing else is   *)
(* assumed of the host, and nothing of the user or a restart.              *)
DSpec == DSafeSpec /\ WF_dvars(Advance) /\ WF_dvars(TimePasses) /\ WF_dvars(HostReads)

-----------------------------------------------------------------------------
(* Properties *)

(* Types of the process, the host and ExecuteAsync's local state; the host *)
(* never works on two jobs.                                                *)
DTypeOK ==
  /\ TypeOK
  /\ app \in {"down", "leases", "runs", "up"}
  /\ unused \subseteq Sessions /\ session \in Owners
  /\ host \in [alive : BOOLEAN, jobs : SUBSET Job, aborted : BOOLEAN] /\ \A i, j \in host.jobs : i = j
  /\ inbox \in Seq(Frame) /\ outbox \subseteq Frame /\ activeRun \in Job \cup {NoJob}
  /\ exec \in Exec /\ exec.patience <= LeaseTicks + RequestTicks
  /\ used \in [Runs -> 0 .. ModelRequests]
  /\ output \in [Runs -> [Stages -> 0 .. MaxAttempts]]

(* The checkpoint from which the next execution resumes holds the outputs *)
(* of exactly the stages that are Completed, whatever was interrupted,     *)
(* cancelled or retried in between: no stage is skipped without an output  *)
(* and none is done twice (ExecuteAsync's completed dictionary).           *)
CheckpointMatchesStages == \A r \in Runs : run[r].checkpoint = CompletedStages(r)

(* The output stored for a stage is the answer to the attempt that is      *)
(* credited with it, never one that an earlier attempt, timed out or       *)
(* cancelled, produced late (the attempt_id filter of OnEvent).            *)
OutputFromOwnAttempt ==
  \A r \in Runs, s \in Stages :
    stage[r][s].state = "Completed" => output[r][s] = stage[r][s].count

(* The model budget, three requests per stage, is never what stops a run: *)
(* a stage that may be attempted may also be asked for, however many       *)
(* crashes, failures and resumptions came before.                          *)
BudgetSuffices == exec.phase = "leased" => BudgetLeft(exec.run)

(* Once start-up is over nothing is left Running in any table: the work of *)
(* the dead process is interrupted before the user can start new work.     *)
StartupSettles ==
  [][(app # "up" /\ app' = "up") =>
       \A r \in Runs :
         /\ run'[r].state # "Running"
         /\ \A s \in Stages : /\ stage'[r][s].state # "Running"
                              /\ \A n \in Attempts : attempt'[r][s][n].state # "Running"]_dvars

(* An execution always comes to an end, with a result, an error or a       *)
(* cancellation, even when the host answers nothing for ever; it only has  *)
(* to go on reading, because neither the request nor the cancel of the     *)
(* catch block has a timeout while it is being written.                    *)
ExecutionTerminates == exec.phase # "idle" ~> exec.phase = "idle"

-----------------------------------------------------------------------------
(* What the documents say and the code does not do *)

(* docs/IMPLEMENTATION.md: an interrupted run is resumed from its          *)
(* checkpoint.  A Partial run that still has an attempt to spend, or only  *)
(* needs to be closed, can be taken up again.                              *)
InterruptedRunResumes ==
  \A r \in Runs :
    (app = "up" /\ exec.phase = "idle" /\ run[r].state = "Partial") => Requeueable(r) # {}

(* 02-integrations-jobs.md: Running goes to RetryScheduled on a retryable  *)
(* error.  When no execution is in progress no attempt is left Running.    *)
NoOrphanedAttempt ==
  (app = "up" /\ exec.phase = "idle") =>
    \A r \in Runs, s \in Stages, n \in Attempts : attempt[r][s][n].state # "Running"
=============================================================================
