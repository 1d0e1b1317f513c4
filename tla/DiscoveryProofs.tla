--------------------------- MODULE DiscoveryProofs ---------------------------
(***************************************************************************)
(* Proofs about Discovery, for any number of runs, connections, stages and *)
(* attempts (three at most, the default DiscoveryService.Create leaves in  *)
(* place), any lease, retry delay and request timeout, and whether or not  *)
(* the machine is punctual.                                                *)
(***************************************************************************)
EXTENDS Discovery, JobQueueProofs, FiniteSetTheorems

HostRow == [alive : BOOLEAN, jobs : SUBSET Job, aborted : BOOLEAN]

(* Types; the bound on used follows from Budget.                           *)
Typed ==
  /\ app \in {"down", "leases", "runs", "up"}
  /\ unused \subseteq Sessions /\ session \in Owners
  /\ host \in HostRow /\ \A i, j \in host.jobs : i = j
  /\ used \in [Runs -> Nat]
  /\ output \in [Runs -> [Stages -> 0 .. MaxAttempts]]

(* After the lease recovery of a start no stage is Running. *)
Recovered == app = "runs" => \A r \in Runs, s \in Stages : stage[r][s].state # "Running"

(* An execution belongs to a running process with a session, and what it   *)
(* knows to be completed is the checkpoint of its run; the stage and the   *)
(* attempt in hand exist, and a good answer is the attempt's own.          *)
HeldPhases == {"writing", "asked", "waiting", "throwing", "cancelling", "awaiting", "failing"}
InHand(e) == e.phase = "leased" \/ e.phase \in HeldPhases

ExecInv ==
  /\ exec \in Exec /\ exec.patience <= LeaseTicks + RequestTicks
  /\ app # "up" => exec = Idle
  /\ exec.phase # "idle" =>
       /\ session \in Sessions /\ exec.run \in Runs
       /\ exec.known = run[exec.run].checkpoint
  /\ InHand(exec) => exec.stage \in Stages /\ exec.number \in Attempts
  /\ exec.answer = "good" => exec.source = exec.number

(* Every request is paid for by an attempt that was begun: a run never     *)
(* asked more often than it began attempts, and an attempt that has its    *)
(* lease but not asked yet is not counted yet.                             *)
Begun(rows) == {sn \in Stages \X Attempts : sn[2] <= rows[sn[1]].count}

Budget ==
  \A r \in Runs :
    /\ used[r] <= Cardinality(Begun(stage[r]))
    /\ exec.phase = "leased" /\ exec.run = r => used[r] < Cardinality(Begun(stage[r]))

(* The one frame that may wait to be written is the one ExecuteAsync waits *)
(* at.                                                                     *)
PipeTyped == inbox \in Seq(Frame) /\ activeRun \in Job \cup {NoJob}

OutboxInv ==
  /\ outbox \subseteq Frame /\ \A f, g \in outbox : f = g
  /\ \A f \in outbox : exec.phase = IF f.kind = "run" THEN "writing" ELSE "cancelling"

PipeInv == PipeTyped /\ OutboxInv

DInv == /\ IInv /\ Typed /\ Recovered /\ ExecInv /\ PipeInv /\ Budget
        /\ CheckpointMatchesStages /\ OutputFromOwnAttempt

-----------------------------------------------------------------------------
(* The rows: steps of the queue that begin and commit nothing.             *)

Quiet ==
  /\ IInv'
  /\ \A r \in Runs : run'[r].checkpoint = run[r].checkpoint
  /\ \A r \in Runs, s \in Stages :
       /\ stage'[r][s].count = stage[r][s].count
       /\ (stage'[r][s].state = "Completed") <=> (stage[r][s].state = "Completed")
       /\ stage'[r][s].state = "Running" => stage[r][s].state = "Running"

LEMMA QuietUnchanged == ASSUME IInv, UNCHANGED vars PROVE Quiet
<1>1. IInv'
  BY NextIInv
<1> QED
  BY <1>1 DEF Quiet, vars

LEMMA QuietCreate == ASSUME IInv, NEW r \in Runs, Create(r) PROVE Quiet
<1>1. IInv'
  BY CreateIInv
<1>2. \A q \in Runs : run'[q].checkpoint = run[q].checkpoint
  BY DEF IInv, TypeOK, RunRow, Create
<1> QED
  BY <1>1, <1>2 DEF Quiet, Create

LEMMA QuietRequeue == ASSUME IInv, NEW r \in Runs, RequeueIncomplete(r) PROVE Quiet
<1>1. IInv'
  BY RequeueIInv
<1>2. \A q \in Runs : run'[q].checkpoint = run[q].checkpoint
  BY DEF IInv, TypeOK, RunRow, RequeueIncomplete
<1>3. ASSUME NEW q \in Runs, NEW t \in Stages
      PROVE  \/ stage'[q][t] = stage[q][t]
             \/ /\ stage[q][t].state \in {"Failed", "Cancelled"}
                /\ stage'[q][t] = Released(stage[q][t], "Queued", 0)
  BY DEF IInv, TypeOK, RequeueIncomplete, Requeueable, Requeued
<1> QED
  BY <1>1, <1>2, <1>3, ReleasedFields DEF Quiet

LEMMA QuietFinish ==
  ASSUME IInv, IInv', NEW r \in Runs, NEW s \in Stages, NEW n \in Attempts,
         NEW ast, NEW sst \in {"RetryScheduled", "Failed", "Cancelled"}, NEW rst,
         FinishStage(r, s, n, ast, sst, rst)
  PROVE  Quiet
<1> DEFINE w == IF sst = "RetryScheduled" THEN RetryTicks ELSE 0
<1>1. \A q \in Runs : run'[q].checkpoint = run[q].checkpoint
  BY DEF IInv, TypeOK, RunRow, FinishStage, RunFollows
<1>2. stage[r][s].state = "Running"
  BY DEF FinishStage, EnsureLease
<1>3. stage' = [stage EXCEPT ![r][s] = Released(@, sst, w)]
  BY DEF FinishStage
<1> HIDE DEF w
<1>4. ASSUME NEW q \in Runs, NEW t \in Stages
      PROVE  \/ stage'[q][t] = stage[q][t]
             \/ stage[q][t].state = "Running" /\ stage'[q][t] = Released(stage[q][t], sst, w)
  BY <1>2, <1>3 DEF IInv, TypeOK
<1> QED
  BY <1>1, <1>4, ReleasedFields DEF Quiet

LEMMA QuietFail ==
  ASSUME IInv, NEW r \in Runs, NEW s \in Stages, NEW n \in Attempts, NEW b \in BOOLEAN,
         FailStage(r, s, n, b)
  PROVE  Quiet
BY FailIInv, QuietFinish DEF FailStage

LEMMA QuietCancel ==
  ASSUME IInv, NEW r \in Runs, NEW s \in Stages, NEW n \in Attempts, CancelStage(r, s, n)
  PROVE  Quiet
BY CancelIInv, QuietFinish DEF CancelStage

LEMMA QuietClose == ASSUME IInv, NEW r \in Runs, NEW o \in Sessions, CompleteRun(r, o) PROVE Quiet
<1>1. IInv'
  BY CompleteRunIInv
<1>2. \A q \in Runs : run'[q].checkpoint = run[q].checkpoint
  BY DEF IInv, TypeOK, RunRow, CompleteRun
<1> QED
  BY <1>1, <1>2 DEF Quiet, CompleteRun

LEMMA QuietRecover == ASSUME IInv, NEW e \in BOOLEAN, RecoverLeases(e) PROVE Quiet
<1>1. IInv'
  BY RecoverIInv
<1>2. \A q \in Runs : run'[q].checkpoint = run[q].checkpoint
  BY DEF RecoverLeases
<1>3. ASSUME NEW q \in Runs, NEW t \in Stages
      PROVE  \/ stage'[q][t] = stage[q][t]
             \/ /\ stage[q][t].state = "Running"
                /\ stage'[q][t] = Released(stage[q][t], "Queued", stage[q][t].wait)
  BY DEF RecoverLeases, LapsedStage, Lapsed
<1> QED
  BY <1>1, <1>2, <1>3, ReleasedFields DEF Quiet

LEMMA QuietTimers == ASSUME IInv, TimersElapse, UNCHANGED <<run, attempt>> PROVE Quiet
<1>1. IInv'
  BY TickIInv
<1>2. \A q \in Runs, t \in Stages : stage'[q][t] = Elapsed(stage[q][t])
  BY DEF TimersElapse
<1>3. \A q \in Runs, t \in Stages : /\ stage'[q][t].count = stage[q][t].count
                                   /\ stage'[q][t].state = stage[q][t].state
  BY <1>2, ElapsedFields
<1> QED
  BY <1>1, <1>3 DEF Quiet

(* RecoverInterruptedRuns meets the rows as the lease recovery left them. *)
LEMMA QuietInterrupted ==
  ASSUME IInv, NEW r \in Runs, \A s \in Stages : stage[r][s].state # "Running",
         run[r].state = "Running", run' = [run EXCEPT ![r].state = "Partial"],
         UNCHANGED <<stage, attempt>>
  PROVE  Quiet
<1>1. TypeOK'
  BY DEF IInv, TypeOK, RunRow, RunStates
<1>2. \A q \in Runs : q # r => run'[q] = run[q] /\ stage'[q] = stage[q] /\ attempt'[q] = attempt[q]
  BY DEF IInv, TypeOK
<1>3. run'[r].state = "Partial" /\ stage' = stage /\ attempt' = attempt
  BY DEF IInv, TypeOK, RunRow
<1>4. ASSUME NEW s \in Stages PROVE LeaseAgrees(r, s)'
  BY <1>3 DEF IInv, LeaseCoherent, LeaseAgrees, LeaseHeld
<1>5. ASSUME NEW s \in Stages PROVE LedgerAgrees(r, s)' /\ InOrder(r, s)'
  BY <1>3 DEF IInv, AttemptLedger, LedgerAgrees, StagesInOrder, InOrder, PriorsCompleted
<1>6. VerdictAgrees(r)'
  BY <1>3 DEF IInv, RunMatchesStages, VerdictAgrees
<1>7. IInv'
  BY <1>1, <1>2, <1>4, <1>5, <1>6, OneRun
<1>8. \A q \in Runs : run'[q].checkpoint = run[q].checkpoint
  BY DEF IInv, TypeOK, RunRow
<1> QED
  BY <1>7, <1>8, <1>3 DEF Quiet

(* What a quiet step leaves true of the rows. *)
LEMMA QuietRows ==
  ASSUME DInv, Quiet, output' = output
  PROVE  /\ IInv' /\ CheckpointMatchesStages' /\ OutputFromOwnAttempt'
         /\ \A r \in Runs : Begun(stage'[r]) = Begun(stage[r])
<1>1. \A r \in Runs : CompletedStages(r)' = CompletedStages(r)
  BY DEF Quiet, CompletedStages
<1>2. CheckpointMatchesStages'
  BY <1>1 DEF DInv, Quiet, CheckpointMatchesStages
<1>3. OutputFromOwnAttempt'
  BY DEF DInv, Quiet, OutputFromOwnAttempt
<1>4. ASSUME NEW r \in Runs PROVE Begun(stage'[r]) = Begun(stage[r])
  BY DEF Quiet, Begun
<1> QED
  BY <1>2, <1>3, <1>4 DEF Quiet

(* Recovered speaks of the rows only while the process starts. *)
LEMMA QuietRecovered ==
  ASSUME DInv, Quiet, app' = app \/ app' # "runs" PROVE Recovered'
BY DEF DInv, Quiet, Recovered

-----------------------------------------------------------------------------
(* The local state of ExecuteAsync.                                        *)

LEMMA IdleExec == Idle \in Exec /\ Idle.phase = "idle" /\ Idle.patience = 0 /\ Idle.answer = "none"
BY NStagesAssumption, MaxAttemptsAssumption DEF Idle, Exec, Phases, Answers

LEMMA ThrownExec ==
  ASSUME exec \in Exec, NEW b \in BOOLEAN, NEW e, e = Thrown(b) \/ e = Refused(b)
  PROVE  /\ e \in Exec /\ e.phase \in {"throwing", "failing"} /\ e.answer = "none"
         /\ e.patience = 0 /\ e.run = exec.run /\ e.known = exec.known
         /\ e.stage = exec.stage /\ e.number = exec.number
<1>1. 0 \in 0 .. MaxAttempts /\ 0 \in Nat /\ "failing" \in Phases /\ "throwing" \in Phases /\ "none" \in Answers
  BY MaxAttemptsAssumption DEF Phases, Answers
<1>2. /\ Thrown(b) \in Exec /\ Thrown(b).phase = "throwing" /\ Thrown(b).answer = "none"
      /\ Thrown(b).patience = 0 /\ Thrown(b).run = exec.run /\ Thrown(b).known = exec.known
      /\ Thrown(b).stage = exec.stage /\ Thrown(b).number = exec.number
  BY <1>1 DEF Thrown, Exec
<1>3. /\ Refused(b) \in Exec /\ Refused(b).phase = "failing" /\ Refused(b).answer = "none"
      /\ Refused(b).patience = 0 /\ Refused(b).run = exec.run /\ Refused(b).known = exec.known
      /\ Refused(b).stage = exec.stage /\ Refused(b).number = exec.number
  BY <1>1, <1>2 DEF Refused, Exec
<1> QED
  BY <1>2, <1>3

LEMMA HeardExec ==
  ASSUME exec \in Exec, NEW a \in {"good", "bad", "gone"}, NEW n \in 0 .. MaxAttempts,
         a = "good" => n = exec.number, exec.answer = "good" => exec.source = exec.number
  PROVE  /\ Heard(a, n) \in Exec /\ Heard(a, n).phase = exec.phase
         /\ Heard(a, n).patience = exec.patience /\ Heard(a, n).run = exec.run
         /\ Heard(a, n).known = exec.known /\ Heard(a, n).stage = exec.stage
         /\ Heard(a, n).number = exec.number
         /\ Heard(a, n).answer = "good" => Heard(a, n).source = exec.number
BY DEF Heard, Exec, Answers

LEMMA ExecIdles == ASSUME exec' = Idle PROVE ExecInv'
BY IdleExec, LeaseTicksAssumption, RequestTicksAssumption DEF ExecInv, InHand, HeldPhases

(* The execution goes on in the same process, with the same lease in hand. *)
LEMMA ExecGoesOn ==
  ASSUME ExecInv, exec' \in Exec, exec'.patience <= LeaseTicks + RequestTicks,
         exec.phase # "idle", app' = app, session' = session,
         \A r \in Runs : run'[r].checkpoint = run[r].checkpoint,
         exec'.run = exec.run, exec'.known = exec.known,
         InHand(exec') => InHand(exec),
         exec'.stage = exec.stage, exec'.number = exec.number,
         exec'.answer = "good" => exec'.source = exec.number
  PROVE  ExecInv'
<1>1. app = "up"
  BY IdleExec DEF ExecInv
<1> QED
  BY <1>1 DEF ExecInv, InHand

LEMMA ExecThrown ==
  ASSUME ExecInv, InHand(exec), NEW b \in BOOLEAN, exec' = Thrown(b) \/ exec' = Refused(b),
         app' = app, session' = session,
         \A r \in Runs : run'[r].checkpoint = run[r].checkpoint
  PROVE  ExecInv'
<1>1. exec \in Exec
  BY DEF ExecInv
<1>2. exec' \in Exec /\ exec'.patience = 0 /\ exec'.answer = "none"
      /\ exec'.run = exec.run /\ exec'.known = exec.known
      /\ exec'.stage = exec.stage /\ exec'.number = exec.number
  BY <1>1, ThrownExec
<1>3. exec'.patience <= LeaseTicks + RequestTicks
  BY <1>2, LeaseTicksAssumption, RequestTicksAssumption
<1>4. exec.phase # "idle"
  BY DEF InHand, HeldPhases
<1> QED
  BY <1>2, <1>3, <1>4, ExecGoesOn

(* ExecuteAsync moves from one await to the next with its lease in hand.   *)
LEMMA ExecMoves ==
  ASSUME ExecInv, InHand(exec), NEW p \in HeldPhases, NEW k \in Nat, k <= LeaseTicks + RequestTicks,
         exec' = [exec EXCEPT !.phase = p, !.patience = k], app' = app, session' = session,
         \A r \in Runs : run'[r].checkpoint = run[r].checkpoint
  PROVE  ExecInv' /\ exec'.phase = p
<1>1. exec \in Exec /\ (exec.answer = "good" => exec.source = exec.number)
  BY DEF ExecInv
<1>2. p \in Phases
  BY DEF Phases, HeldPhases
<1>3. /\ exec' \in Exec /\ exec'.patience = k /\ exec'.phase = p
      /\ exec'.run = exec.run /\ exec'.known = exec.known /\ exec'.stage = exec.stage
      /\ exec'.number = exec.number /\ exec'.answer = exec.answer /\ exec'.source = exec.source
  BY <1>1, <1>2 DEF Exec
<1>4. exec.phase # "idle"
  BY DEF InHand, HeldPhases
<1> QED
  BY <1>1, <1>3, <1>4, ExecGoesOn

(* The same, the time it waits left as it is. *)
LEMMA ExecMovesOn ==
  ASSUME ExecInv, InHand(exec), NEW p \in HeldPhases,
         exec' = [exec EXCEPT !.phase = p], app' = app, session' = session,
         \A r \in Runs : run'[r].checkpoint = run[r].checkpoint
  PROVE  ExecInv' /\ exec'.phase = p
<1>1. exec \in Exec /\ exec.patience \in Nat /\ exec.patience <= LeaseTicks + RequestTicks
  BY DEF ExecInv, Exec
<1>2. exec' = [exec EXCEPT !.phase = p, !.patience = exec.patience]
  BY <1>1 DEF Exec
<1> QED
  BY <1>1, <1>2, ExecMoves

LEMMA ExecUncancelled ==
  ASSUME ExecInv, InHand(exec), exec' = Uncancelled, app' = app, session' = session,
         \A r \in Runs : run'[r].checkpoint = run[r].checkpoint
  PROVE  ExecInv' /\ exec'.phase = "failing"
<1>1. 0 \in Nat /\ 0 <= LeaseTicks + RequestTicks /\ "failing" \in HeldPhases
  BY LeaseTicksAssumption, RequestTicksAssumption DEF HeldPhases
<1> QED
  BY <1>1, ExecMoves DEF Uncancelled

LEMMA ExecHeard ==
  ASSUME ExecInv, InHand(exec), NEW a \in {"good", "bad", "gone"}, NEW n \in 0 .. MaxAttempts,
         a = "good" => n = exec.number, exec' = Heard(a, n), app' = app, session' = session,
         \A r \in Runs : run'[r].checkpoint = run[r].checkpoint
  PROVE  ExecInv'
<1>1. exec \in Exec /\ (exec.answer = "good" => exec.source = exec.number)
      /\ exec.patience <= LeaseTicks + RequestTicks
  BY DEF ExecInv
<1>2. exec' \in Exec /\ exec'.phase = exec.phase /\ exec'.patience = exec.patience
      /\ exec'.run = exec.run /\ exec'.known = exec.known
      /\ exec'.stage = exec.stage /\ exec'.number = exec.number
      /\ (exec'.answer = "good" => exec'.source = exec.number)
  BY <1>1, HeardExec
<1>3. exec.phase # "idle"
  BY DEF InHand, HeldPhases
<1> QED
  BY <1>1, <1>2, <1>3, ExecGoesOn DEF InHand

LEMMA ExecKept ==
  ASSUME ExecInv, exec' = exec, app' = app, session' = session \/ exec.phase = "idle",
         \A r \in Runs : run'[r].checkpoint = run[r].checkpoint
  PROVE  ExecInv'
BY DEF ExecInv, InHand

-----------------------------------------------------------------------------
(* The pipe.                                                               *)

LEMMA PipeKept ==
  ASSUME PipeInv, UNCHANGED pipevars, outbox = {} \/ exec'.phase = exec.phase PROVE PipeInv'
BY DEF PipeInv, PipeTyped, OutboxInv, pipevars

LEMMA PipeEmpty ==
  ASSUME inbox' \in Seq(Frame), activeRun' \in Job \cup {NoJob}, outbox' = {} PROVE PipeInv'
BY DEF PipeInv, PipeTyped, OutboxInv

LEMMA PipeNew == ASSUME NothingWritten PROVE PipeInv'
<1>1. <<>> \in Seq(Frame)
  OBVIOUS
<1> QED
  BY <1>1, PipeEmpty DEF NothingWritten

LEMMA PipeIdle == ASSUME PipeInv, exec.phase \notin {"writing", "cancelling"} PROVE outbox = {}
BY DEF PipeInv, OutboxInv

-----------------------------------------------------------------------------
(* The budget.                                                             *)

LEMMA BegunFinite ==
  ASSUME NEW rows
  PROVE  /\ IsFiniteSet(Begun(rows)) /\ Cardinality(Begun(rows)) \in Nat
         /\ Cardinality(Begun(rows)) <= ModelRequests
<1>1. /\ IsFiniteSet(Stages) /\ Cardinality(Stages) = NStages
      /\ IsFiniteSet(Attempts) /\ Cardinality(Attempts) = MaxAttempts
  BY NStagesAssumption, MaxAttemptsAssumption, FS_Interval DEF Stages, Attempts
<1>2. IsFiniteSet(Stages \X Attempts) /\ Cardinality(Stages \X Attempts) = NStages * MaxAttempts
  BY <1>1, FS_Product
<1>3. Begun(rows) \in SUBSET (Stages \X Attempts)
  BY DEF Begun
<1>4. IsFiniteSet(Begun(rows)) /\ Cardinality(Begun(rows)) <= NStages * MaxAttempts
  BY <1>2, <1>3, FS_Subset
<1>5. NStages * MaxAttempts <= 3 * NStages
  <2>1. MaxAttempts = 1 \/ MaxAttempts = 2 \/ MaxAttempts = 3
    BY MaxAttemptsAssumption, DefaultAttemptsAssumption
  <2> QED
    BY <2>1, NStagesAssumption
<1>6. Cardinality(Begun(rows)) \in Nat
  BY <1>4, FS_CardinalityType
<1>7. NStages * MaxAttempts \in Nat /\ 3 * NStages \in Nat
  BY NStagesAssumption, MaxAttemptsAssumption
<1> QED
  BY <1>4, <1>5, <1>6, <1>7 DEF ModelRequests

LEMMA BegunPair ==
  ASSUME NEW rows, NEW t \in Stages, NEW m \in Attempts
  PROVE  (<<t, m>> \in Begun(rows)) <=> (m <= rows[t].count)
BY DEF Begun

LEMMA BudgetKept ==
  ASSUME Budget, used' = used, \A r \in Runs : Begun(stage'[r]) = Begun(stage[r]),
         exec'.phase = "leased" => exec.phase = "leased" /\ exec'.run = exec.run
  PROVE  Budget'
BY DEF Budget

(* Putting the parts together after a step that begins and commits nothing. *)
LEMMA QuietStep ==
  ASSUME DInv, Quiet, output' = output, used' = used, app' = app \/ app' # "runs",
         exec'.phase = "leased" => exec.phase = "leased" /\ exec'.run = exec.run,
         Typed', ExecInv', PipeInv'
  PROVE  DInv'
<1>1. /\ IInv' /\ CheckpointMatchesStages' /\ OutputFromOwnAttempt'
      /\ \A r \in Runs : Begun(stage'[r]) = Begun(stage[r])
  BY QuietRows
<1>2. Budget'
  BY <1>1, BudgetKept DEF DInv
<1>3. Recovered'
  BY QuietRecovered
<1> QED
  BY <1>1, <1>2, <1>3 DEF DInv

-----------------------------------------------------------------------------
(* The process and the host.                                               *)

LEMMA DeadHost == Dead \in HostRow /\ Dead.jobs = {} /\ Alive \in HostRow /\ Alive.jobs = {}
BY DEF Dead, Alive, HostRow

LEMMA InitDInv == DInit => DInv
<1> SUFFICES ASSUME DInit PROVE DInv
  OBVIOUS
<1>1. IInv
  BY InitIInv DEF DInit
<1>2. exec = Idle /\ app = "down" /\ \A r \in Runs : used[r] = 0
  BY DEF DInit
<1>3. Typed
  BY MaxAttemptsAssumption, DeadHost DEF DInit, Typed, Owners
<1>4. ExecInv
  BY <1>2, IdleExec, LeaseTicksAssumption, RequestTicksAssumption DEF ExecInv, InHand, HeldPhases
<1>7. PipeInv
  BY DEF DInit, PipeInv, PipeTyped, OutboxInv
<1>5. Budget
  <2>1. ASSUME NEW r \in Runs PROVE used[r] <= Cardinality(Begun(stage[r]))
    <3>1. used[r] = 0 /\ Cardinality(Begun(stage[r])) \in Nat
      BY <1>2, BegunFinite
    <3> QED
      BY <3>1
  <2> QED
    BY <1>2, <2>1, IdleExec DEF Budget
<1>6. CheckpointMatchesStages /\ OutputFromOwnAttempt /\ Recovered
  BY <1>2 DEF DInit, Init, CheckpointMatchesStages, CompletedStages, OutputFromOwnAttempt, Recovered
<1> QED
  BY <1>1, <1>3, <1>4, <1>5, <1>6, <1>7 DEF DInv

LEMMA ProcessInv == ASSUME DInv, ProcessStep PROVE DInv'
<1>0. IInv /\ Typed /\ Recovered /\ ExecInv /\ PipeInv
  BY DEF DInv
<1>p. ASSUME app # "up", UNCHANGED <<hostvars, exec>> PROVE PipeInv' /\ UNCHANGED host
  BY <1>0, <1>p, PipeKept DEF hostvars
<1>1. CASE Crash
  <2>1. Typed'
    BY <1>0, <1>1, DeadHost DEF Typed, Crash, Owners
  <2>2. ExecInv' /\ exec'.phase # "leased"
    BY <1>1, ExecIdles, IdleExec DEF Crash
  <2>3. Quiet
    BY <1>0, <1>1, QuietUnchanged DEF Crash, vars
  <2>4. PipeInv'
    BY <1>1, PipeNew DEF Crash
  <2> QED
    BY <1>1, <2>1, <2>2, <2>3, <2>4, QuietStep DEF Crash
<1>2. CASE Boot
  <2>1. Typed'
    BY <1>0, <1>2, <1>p DEF Typed, Boot
  <2>2. ExecInv' /\ exec'.phase # "leased"
    BY <1>0, <1>2, ExecIdles, IdleExec DEF Boot, ExecInv
  <2>3. Quiet
    BY <1>0, <1>2, QuietUnchanged DEF Boot, vars
  <2> QED
    BY <1>2, <1>p, <2>1, <2>2, <2>3, QuietStep DEF Boot
<1>3. CASE RecoverLeasesAtStartup
  <2>1. Typed'
    BY <1>0, <1>3, <1>p DEF Typed, RecoverLeasesAtStartup
  <2>2. ExecInv' /\ exec'.phase # "leased"
    BY <1>0, <1>3, ExecIdles, IdleExec DEF RecoverLeasesAtStartup, ExecInv
  <2>3. Quiet
    BY <1>0, <1>3, QuietRecover DEF RecoverLeasesAtStartup, RecoverStaleLeases
  <2>4. ASSUME NEW r \in Runs, NEW s \in Stages PROVE stage'[r][s].state # "Running"
    <3>1. stage[r][s].state = "Running" => LapsedStage(r, s, FALSE)
      BY <1>0, RunningStage DEF LapsedStage, Lapsed
    <3>2. /\ LapsedStage(r, s, FALSE) => stage'[r][s] = Released(stage[r][s], "Queued", stage[r][s].wait)
          /\ ~LapsedStage(r, s, FALSE) => stage'[r][s] = stage[r][s]
      BY <1>3 DEF RecoverLeasesAtStartup, RecoverStaleLeases, RecoverLeases
    <3>3. Released(stage[r][s], "Queued", stage[r][s].wait).state = "Queued"
      BY ReleasedFields
    <3> QED
      BY <3>1, <3>2, <3>3
  <2>5. /\ IInv' /\ CheckpointMatchesStages' /\ OutputFromOwnAttempt'
        /\ \A r \in Runs : Begun(stage'[r]) = Begun(stage[r])
    BY <1>3, <2>3, QuietRows DEF RecoverLeasesAtStartup
  <2>6. Budget'
    BY <1>3, <2>2, <2>5, BudgetKept DEF DInv, RecoverLeasesAtStartup
  <2>7. Recovered'
    BY <2>4 DEF Recovered
  <2>8. PipeInv'
    BY <1>3, <1>p DEF RecoverLeasesAtStartup
  <2> QED
    BY <2>1, <2>2, <2>5, <2>6, <2>7, <2>8 DEF DInv
<1>4. CASE Started
  <2>1. Typed'
    BY <1>0, <1>4, <1>p DEF Typed, Started
  <2>2. ExecInv' /\ exec'.phase # "leased"
    BY <1>0, <1>4, ExecIdles, IdleExec DEF Started, ExecInv
  <2>3. Quiet
    BY <1>0, <1>4, QuietUnchanged DEF Started, vars
  <2> QED
    BY <1>4, <1>p, <2>1, <2>2, <2>3, QuietStep DEF Started
<1>5. CASE Connect
  <2>1. session' \in Sessions /\ unused' \subseteq Sessions
    BY <1>0, <1>5 DEF Typed, Connect
  <2>2. host' = Alive /\ PipeInv'
    BY <1>5, PipeNew DEF Connect
  <2>3. Typed'
    BY <1>0, <1>5, <2>1, <2>2, DeadHost DEF Typed, Connect, Owners
  <2>4. Quiet
    BY <1>0, <1>5, QuietUnchanged DEF Connect, vars
  <2>5. ExecInv'
    BY <1>0, <1>5, ExecKept DEF Connect
  <2> QED
    BY <1>5, <2>2, <2>3, <2>4, <2>5, QuietStep DEF Connect
<1>6. ASSUME NEW r \in Runs, RecoverInterruptedRun(r) PROVE DInv'
  <2>1. Typed'
    BY <1>0, <1>6, <1>p DEF Typed, RecoverInterruptedRun
  <2>2. ExecInv' /\ exec'.phase # "leased"
    BY <1>0, <1>6, ExecIdles, IdleExec DEF RecoverInterruptedRun, ExecInv
  <2>3. Quiet
    BY <1>0, <1>6, QuietInterrupted DEF RecoverInterruptedRun, Recovered
  <2> QED
    BY <1>6, <1>p, <2>1, <2>2, <2>3, QuietStep DEF RecoverInterruptedRun
<1> QED
  BY ProcessStep, <1>1, <1>2, <1>3, <1>4, <1>5, <1>6 DEF ProcessStep

(* A step that leaves the rows alone, and the lease in hand where it is.   *)
LEMMA RowsAlone ==
  ASSUME DInv, UNCHANGED <<vars, appvars, used, output>>, host' \in HostRow, \A i, j \in host'.jobs : i = j,
         ExecInv', PipeInv', exec'.phase = "leased" => exec.phase = "leased" /\ exec'.run = exec.run
  PROVE  DInv'
<1>1. Typed'
  BY DEF DInv, Typed, appvars
<1>2. Quiet
  BY QuietUnchanged DEF DInv, vars
<1> QED
  BY <1>1, <1>2, QuietStep DEF appvars

(* What the host hears of a cancel that is over. *)
LEMMA UncancelledInv ==
  ASSUME DInv, InHand(exec), exec.phase \notin {"writing", "cancelling"}, exec' = Uncancelled,
         UNCHANGED <<vars, appvars, hostvars, used, output>>
  PROVE  DInv'
<1>1. ExecInv /\ PipeInv /\ Typed
  BY DEF DInv
<1>2. ExecInv' /\ exec'.phase = "failing"
  BY <1>1, ExecUncancelled DEF appvars, vars
<1>3. PipeInv'
  BY <1>1, PipeIdle, PipeKept DEF hostvars
<1>4. host' \in HostRow /\ \A i, j \in host'.jobs : i = j
  BY <1>1 DEF Typed, hostvars
<1> QED
  BY <1>2, <1>3, <1>4, RowsAlone

LEMMA HostReadsInv == ASSUME DInv, HostReads PROVE DInv'
<1>0. Typed /\ ExecInv /\ PipeInv
  BY DEF DInv
<1>1. UNCHANGED <<vars, appvars, used, output>> /\ outbox' = outbox /\ inbox' = Tail(inbox)
  BY DEF HostReads
<1>2. /\ inbox \in Seq(Frame) /\ inbox # <<>> /\ activeRun \in Job \cup {NoJob}
      /\ host \in HostRow /\ \A i, j \in host.jobs : i = j
  BY <1>0 DEF HostReads, PipeInv, PipeTyped, Typed
<1>3. Head(inbox) \in Frame /\ Tail(inbox) \in Seq(Frame)
  BY <1>2
<1> DEFINE j == Head(inbox).job
<1>4. j \in Job
  BY <1>3 DEF Frame
<1>5. ReadsRun(j) \/ ReadsCancel(j)
  BY DEF HostReads
<1> HIDE DEF j
<1>6. ASSUME exec' = exec PROVE ExecInv'
  BY <1>0, <1>1, <1>6, ExecKept DEF appvars, vars
<1>7. ASSUME exec' = exec, activeRun' = activeRun PROVE PipeInv'
  BY <1>0, <1>1, <1>3, <1>7 DEF PipeInv, PipeTyped, OutboxInv
<1>8. CASE ReadsCancel(j)
  <2>1. /\ host' = [host EXCEPT !.aborted = host.aborted \/ j \in host.jobs] /\ exec' = exec /\ activeRun' = activeRun
    BY <1>8 DEF ReadsCancel
  <2>2. host' \in HostRow /\ host'.jobs = host.jobs
    BY <1>2, <2>1 DEF HostRow
  <2> QED
    BY <1>1, <1>2, <1>6, <1>7, <2>1, <2>2, RowsAlone
<1>9. CASE ReadsRun(j) /\ host.jobs = {}
  <2>1. /\ host' = [host EXCEPT !.jobs = {j}, !.aborted = FALSE] /\ exec' = exec /\ activeRun' = activeRun
    BY <1>9 DEF ReadsRun, Takes
  <2>2. host' \in HostRow /\ host'.jobs = {j}
    BY <1>2, <1>4, <2>1 DEF HostRow
  <2> QED
    BY <1>1, <1>6, <1>7, <2>1, <2>2, RowsAlone
<1>10. CASE ReadsRun(j) /\ host.jobs # {} /\ ~Asking(j)
  <2>1. host' = host /\ exec' = exec /\ activeRun' = activeRun
    BY <1>10 DEF ReadsRun
  <2> QED
    BY <1>1, <1>2, <1>6, <1>7, <2>1, RowsAlone
<1>11. CASE ReadsRun(j) /\ host.jobs # {} /\ Asking(j)
  <2>1. host' = host /\ exec' = Refused(TRUE) /\ activeRun' = NoJob /\ exec.phase = "asked"
    BY <1>11 DEF ReadsRun, Asking
  <2>2. InHand(exec) /\ outbox = {}
    BY <1>0, <2>1, PipeIdle DEF InHand, HeldPhases
  <2>3. ExecInv'
    BY <1>0, <1>1, <2>1, <2>2, ExecThrown DEF appvars, vars
  <2>4. exec'.phase # "leased"
    BY <1>0, <2>1, ThrownExec DEF ExecInv
  <2>5. PipeInv'
    BY <1>1, <1>3, <2>1, <2>2, PipeEmpty
  <2> QED
    BY <1>1, <1>2, <2>1, <2>3, <2>4, <2>5, RowsAlone
<1> QED
  BY <1>5, <1>8, <1>9, <1>10, <1>11

LEMMA HostDiesInv == ASSUME DInv, HostDies PROVE DInv'
<1>0. Typed /\ ExecInv /\ PipeInv
  BY DEF DInv
<1>1. UNCHANGED <<vars, appvars, used, output>> /\ inbox' = <<>> /\ outbox' = {} /\ activeRun' = activeRun /\ host' = Dead
  BY DEF HostDies
<1>2. PipeInv'
  <2>1. <<>> \in Seq(Frame) /\ activeRun \in Job \cup {NoJob}
    BY <1>0 DEF PipeInv, PipeTyped
  <2> QED
    BY <1>1, <2>1, PipeEmpty
<1>3. ExecInv' /\ (exec'.phase = "leased" => exec' = exec)
  <2>1. CASE exec.phase \in {"writing", "asked"}
    <3>1. exec' = Thrown(TRUE) /\ InHand(exec)
      BY <2>1 DEF HostDies, InHand, HeldPhases
    <3>2. exec \in Exec
      BY <1>0 DEF ExecInv
    <3>3. exec'.phase # "leased"
      BY <3>1, <3>2, ThrownExec
    <3> QED
      BY <1>0, <1>1, <3>1, <3>3, ExecThrown DEF appvars, vars
  <2>2. CASE exec.phase = "waiting"
    <3>1. exec' = Heard("gone", 0) /\ 0 \in 0 .. MaxAttempts /\ InHand(exec)
      BY <2>2, MaxAttemptsAssumption DEF HostDies, InHand, HeldPhases
    <3>2. exec \in Exec /\ (exec.answer = "good" => exec.source = exec.number)
      BY <1>0 DEF ExecInv
    <3>3. exec'.phase = "waiting"
      BY <2>2, <3>1, <3>2, HeardExec
    <3>4. ExecInv'
      BY <1>0, <1>1, <3>1, ExecHeard DEF appvars, vars
    <3> QED
      BY <3>3, <3>4
  <2>3. CASE exec.phase \in {"cancelling", "awaiting"}
    <3>1. exec' = Uncancelled /\ InHand(exec)
      BY <2>3 DEF HostDies, InHand, HeldPhases
    <3> QED
      BY <1>0, <1>1, <3>1, ExecUncancelled DEF appvars, vars
  <2>4. CASE exec.phase \notin {"writing", "asked", "waiting", "cancelling", "awaiting"}
    <3>1. exec' = exec
      BY <2>4 DEF HostDies
    <3> QED
      BY <1>0, <1>1, <3>1, ExecKept DEF appvars, vars
  <2> QED
    BY <2>1, <2>2, <2>3, <2>4
<1> QED
  BY <1>1, <1>2, <1>3, DeadHost, RowsAlone

LEMMA HostFinishesInv ==
  ASSUME DInv, NEW j \in host.jobs, NEW a \in {"good", "bad"}, HostFinishes(j, a) PROVE DInv'
<1>0. Typed /\ ExecInv /\ PipeInv
  BY DEF DInv
<1>1. /\ UNCHANGED <<vars, appvars, used, output>> /\ inbox' = inbox /\ outbox' = outbox /\ activeRun' = NoJob
      /\ host' = Alive /\ exec' = IF Mine(j) THEN Heard(a, j[3]) ELSE exec
  BY DEF HostFinishes
<1>2. ExecInv' /\ exec'.phase = exec.phase /\ exec'.run = exec.run
  <2>1. CASE Mine(j)
    <3>1. exec' = Heard(a, j[3]) /\ j[3] = exec.number /\ InHand(exec)
      BY <1>1, <2>1 DEF Mine, Listening, ThisJob, InHand, HeldPhases
    <3>2. exec \in Exec /\ (exec.answer = "good" => exec.source = exec.number)
      BY <1>0 DEF ExecInv
    <3>3. j[3] \in 0 .. MaxAttempts
      BY <3>1, <3>2 DEF Exec
    <3>4. exec'.phase = exec.phase /\ exec'.run = exec.run
      BY <3>1, <3>2, <3>3, HeardExec
    <3>5. ExecInv'
      BY <1>0, <1>1, <3>1, <3>3, ExecHeard DEF appvars, vars
    <3> QED
      BY <3>4, <3>5
  <2>2. CASE ~Mine(j)
    BY <1>0, <1>1, <2>2, ExecKept DEF appvars, vars
  <2> QED
    BY <2>1, <2>2
<1>3. PipeInv'
  BY <1>0, <1>1, <1>2 DEF PipeInv, PipeTyped, OutboxInv
<1> QED
  BY <1>1, <1>2, <1>3, DeadHost, RowsAlone

LEMMA HostInv == ASSUME DInv, HostStep PROVE DInv'
<1>0. Typed /\ ExecInv /\ PipeInv
  BY DEF DInv
<1>t. host \in HostRow /\ \A i, j \in host.jobs : i = j
  BY <1>0 DEF Typed
<1>1. CASE HostAnswersCancel
  BY <1>1, UncancelledInv DEF HostAnswersCancel, InHand, HeldPhases
<1>2. CASE HostAccepts
  <2>1. /\ UNCHANGED <<vars, appvars, hostvars, used, output>>
        /\ exec.phase = "asked" /\ exec' = [exec EXCEPT !.phase = "waiting", !.patience = LeaseTicks]
    BY <1>2 DEF HostAccepts
  <2>2. LeaseTicks \in Nat /\ "waiting" \in HeldPhases /\ LeaseTicks <= LeaseTicks + RequestTicks
    BY LeaseTicksAssumption, RequestTicksAssumption DEF HeldPhases
  <2>3. InHand(exec) /\ outbox = {}
    BY <1>0, <2>1, PipeIdle DEF InHand, HeldPhases
  <2>4. ExecInv' /\ exec'.phase = "waiting"
    BY <1>0, <2>1, <2>2, <2>3, ExecMoves DEF appvars, vars
  <2>5. PipeInv'
    BY <1>0, <2>1, <2>3, PipeKept DEF hostvars
  <2> QED
    BY <1>t, <2>1, <2>4, <2>5, RowsAlone DEF hostvars
<1>3. CASE HostRefuses
  <2>1. /\ UNCHANGED <<vars, appvars, inbox, outbox, used, output>> /\ activeRun' = NoJob
        /\ exec.phase = "asked" /\ exec' = Refused(FALSE) /\ host' = Alive
    BY <1>3 DEF HostRefuses
  <2>2. InHand(exec) /\ outbox = {}
    BY <1>0, <2>1, PipeIdle DEF InHand, HeldPhases
  <2>3. ExecInv'
    BY <1>0, <2>1, <2>2, ExecThrown DEF appvars, vars
  <2>4. exec'.phase # "leased"
    BY <1>0, <2>1, ThrownExec DEF ExecInv
  <2>5. PipeInv'
    BY <1>0, <2>1, <2>2, PipeEmpty DEF PipeInv, PipeTyped
  <2> QED
    BY <2>1, <2>3, <2>4, <2>5, DeadHost, RowsAlone
<1> QED
  BY HostStep, <1>1, <1>2, <1>3, HostReadsInv, HostDiesInv, HostFinishesInv DEF HostStep

-----------------------------------------------------------------------------
(* ExecuteAsync.                                                           *)

LEMMA StartInv == ASSUME DInv, NEW r \in Runs, CreateRun(r) \/ Start(r) PROVE DInv'
<1>0. IInv /\ Typed /\ ExecInv /\ PipeInv
  BY DEF DInv
<1>p. PipeInv'
  BY <1>0, PipeIdle, PipeKept DEF CreateRun, Start, hostvars
<1>1. CASE CreateRun(r)
  <2>1. Typed'
    BY <1>0, <1>1 DEF Typed, CreateRun, appvars, hostvars
  <2>2. Quiet
    BY <1>0, <1>1, QuietCreate DEF CreateRun
  <2>3. ExecInv'
    BY <1>0, <1>1, <2>2, ExecKept DEF CreateRun, appvars, Quiet
  <2> QED
    BY <1>1, <1>p, <2>1, <2>2, <2>3, QuietStep DEF CreateRun, appvars
<1>2. CASE Start(r)
  <2>1. /\ UNCHANGED <<appvars, hostvars, used, output>> /\ app = "up" /\ session # NoSession
        /\ exec' = [Idle EXCEPT !.phase = "next", !.run = r, !.known = run[r].checkpoint]
    BY <1>2 DEF Start
  <2>2. Typed'
    BY <1>0, <2>1 DEF Typed, appvars, hostvars
  <2>3. Quiet
    <3>1. CASE run[r].state = "Queued"
      BY <1>0, <1>2, <3>1, QuietUnchanged DEF Start
    <3>2. CASE run[r].state # "Queued"
      BY <1>0, <1>2, <3>2, QuietRequeue DEF Start
    <3> QED
      BY <3>1, <3>2
  <2>4. run[r].checkpoint \in SUBSET Stages /\ run'[r].checkpoint = run[r].checkpoint
    BY <1>0, <2>3, RunTypes DEF IInv, Quiet
  <2>5. /\ exec' \in Exec /\ exec'.phase = "next" /\ exec'.run = r /\ exec'.known = run[r].checkpoint
        /\ exec'.patience = 0 /\ exec'.answer = "none"
    <3>1. "next" \in Phases
      BY DEF Phases
    <3> QED
      BY <2>1, <2>4, <3>1, IdleExec DEF Exec
  <2>6. ExecInv'
    <3>1. session \in Sessions
      BY <1>0, <2>1 DEF Typed, Owners
    <3>2. exec'.patience <= LeaseTicks + RequestTicks
      BY <2>5, LeaseTicksAssumption, RequestTicksAssumption
    <3> QED
      BY <2>1, <2>4, <2>5, <3>1, <3>2 DEF ExecInv, InHand, HeldPhases, appvars
  <2> QED
    BY <1>p, <2>1, <2>2, <2>3, <2>5, <2>6, QuietStep DEF appvars
<1> QED
  BY <1>1, <1>2

(* The execution ends: whatever the last step did to the rows was quiet.   *)
LEMMA EndsInv ==
  ASSUME DInv, Quiet, exec' = Idle, UNCHANGED <<appvars, hostvars, used, output>>,
         exec.phase \notin {"writing", "cancelling"}
  PROVE  DInv'
<1>1. Typed'
  BY DEF DInv, Typed, appvars, hostvars
<1>2. ExecInv' /\ exec'.phase # "leased"
  BY ExecIdles, IdleExec
<1>3. PipeInv'
  BY PipeIdle, PipeKept DEF DInv, hostvars
<1> QED
  BY <1>1, <1>2, <1>3, QuietStep DEF appvars

(* ExecuteAsync throws with the lease in hand; a frame it waits to write   *)
(* is not written.                                                         *)
LEMMA ThrownInv ==
  ASSUME DInv, InHand(exec), NEW b \in BOOLEAN, exec' = Thrown(b) \/ exec' = Refused(b),
         \/ outbox' = outbox /\ exec.phase \notin {"writing", "cancelling"}
         \/ outbox' = {},
         UNCHANGED <<vars, appvars, host, inbox, activeRun, used, output>>
  PROVE  DInv'
<1>0. Typed /\ ExecInv /\ PipeInv /\ exec \in Exec
  BY DEF DInv, ExecInv
<1>1. host' \in HostRow /\ \A i, j \in host'.jobs : i = j
  BY <1>0 DEF Typed
<1>2. ExecInv'
  BY <1>0, ExecThrown DEF appvars, vars
<1>3. exec'.phase # "leased"
  BY <1>0, ThrownExec
<1>4. outbox' = {} /\ inbox' \in Seq(Frame) /\ activeRun' \in Job \cup {NoJob}
  BY <1>0, PipeIdle DEF PipeInv, PipeTyped
<1> QED
  BY <1>1, <1>2, <1>3, <1>4, PipeEmpty, RowsAlone

LEMMA AcquireInv == ASSUME DInv, Acquire PROVE DInv'
<1>0. IInv /\ Typed /\ ExecInv /\ PipeInv /\ CheckpointMatchesStages /\ OutputFromOwnAttempt /\ Budget
  BY DEF DInv
<1>1. PICK s \in Stages :
        /\ TryAcquireNext(exec.run, s, session)
        /\ exec' = [exec EXCEPT !.phase = IF s = NextStage THEN "leased" ELSE "failing",
                                !.stage = s, !.number = stage[exec.run][s].count + 1,
                                !.answer = "none", !.source = 0]
  BY DEF Acquire
<1> DEFINE r == exec.run
<1> DEFINE n == stage[r][s].count + 1
<1>2. UNCHANGED <<appvars, hostvars, used, output>> /\ exec.phase = "next"
  BY DEF Acquire, AtNextStage
<1>3. r \in Runs /\ session \in Sessions /\ exec \in Exec /\ app = "up"
  BY <1>0, <1>2, IdleExec DEF ExecInv
<1> HIDE DEF r
<1>a. TryAcquireNext(r, s, session)
  BY <1>1 DEF r
<1>4. IInv'
  BY <1>0, <1>a, <1>3, AcquireIInv
<1>5. n \in Attempts /\ stage[r][s].count \in Nat
  BY <1>0, <1>a, <1>3, StageTypes, MaxAttemptsAssumption DEF IInv, TryAcquireNext, Ready, Attempts
<1>6. /\ \A q \in Runs : run'[q].checkpoint = run[q].checkpoint
      /\ stage'[r][s].count = n /\ stage'[r][s].state = "Running"
      /\ stage[r][s].state \in {"Queued", "RetryScheduled"}
      /\ \A q \in Runs, t \in Stages : ~(q = r /\ t = s) => stage'[q][t] = stage[q][t]
  BY <1>0, <1>a, <1>3, <1>5 DEF IInv, TypeOK, TryAcquireNext, Ready
<1>7. Typed'
  BY <1>0, <1>2 DEF Typed, appvars, hostvars
<1>8. /\ exec' \in Exec /\ exec'.phase \in {"leased", "failing"} /\ exec'.run = r /\ exec'.known = exec.known
      /\ exec'.stage = s /\ exec'.number = n /\ exec'.patience = exec.patience /\ exec'.answer = "none"
  <2>1. /\ s \in 0 .. NStages /\ n \in 0 .. MaxAttempts /\ 0 \in 0 .. MaxAttempts
        /\ "leased" \in Phases /\ "failing" \in Phases /\ "none" \in Answers
    BY <1>5, NStagesAssumption, MaxAttemptsAssumption DEF Stages, Attempts, Phases, Answers
  <2>2. exec' = [exec EXCEPT !.phase = IF s = NextStage THEN "leased" ELSE "failing",
                             !.stage = s, !.number = n, !.answer = "none", !.source = 0]
    BY <1>1 DEF r
  <2> HIDE DEF n
  <2> QED
    BY <1>3, <2>1, <2>2 DEF Exec, r
<1>9. ExecInv'
  <2>1. exec'.answer = "good" => FALSE
    BY <1>8
  <2> QED
    BY <1>0, <1>2, <1>3, <1>5, <1>6, <1>8, <2>1 DEF ExecInv, appvars, r
<1>10. Recovered'
  BY <1>2, <1>3 DEF Recovered, appvars
<1>11. CheckpointMatchesStages' /\ OutputFromOwnAttempt'
  <2>1. \A q \in Runs : CompletedStages(q)' = CompletedStages(q)
    BY <1>6 DEF CompletedStages
  <2>2. CheckpointMatchesStages'
    BY <1>0, <1>6, <2>1 DEF CheckpointMatchesStages
  <2>3. OutputFromOwnAttempt'
    BY <1>0, <1>2, <1>6 DEF OutputFromOwnAttempt
  <2> QED
    BY <2>2, <2>3
<1>12. Budget'
  <2>1. ASSUME NEW q \in Runs, q # r PROVE Begun(stage'[q]) = Begun(stage[q])
    BY <1>6, <2>1 DEF Begun
  <2>2. Begun(stage'[r]) = Begun(stage[r]) \cup {<<s, n>>} /\ <<s, n>> \notin Begun(stage[r])
    <3>1. \A t \in Stages : t # s => stage'[r][t] = stage[r][t]
      BY <1>3, <1>6
    <3>2. ASSUME NEW t \in Stages, NEW m \in Attempts
          PROVE  <<t, m>> \in Begun(stage'[r]) <=> (<<t, m>> \in Begun(stage[r]) \/ <<t, m>> = <<s, n>>)
      <4>1. /\ (<<t, m>> \in Begun(stage'[r])) <=> (m <= stage'[r][t].count)
            /\ (<<t, m>> \in Begun(stage[r])) <=> (m <= stage[r][t].count)
        BY BegunPair
      <4>2. CASE t = s
        <5>1. m <= n <=> (m <= stage[r][s].count \/ m = n)
          BY <1>5 DEF Attempts
        <5> QED
          BY <1>6, <4>1, <4>2, <5>1
      <4>3. CASE t # s
        BY <3>1, <4>1, <4>3
      <4> QED
        BY <4>2, <4>3
    <3>3. <<s, n>> \in Stages \X Attempts /\ <<s, n>> \notin Begun(stage[r])
      BY <1>5 DEF Begun, Attempts
    <3>4. Begun(stage'[r]) \subseteq Stages \X Attempts /\ Begun(stage[r]) \subseteq Stages \X Attempts
      BY DEF Begun
    <3> QED
      BY <3>2, <3>3, <3>4
  <2>3. Cardinality(Begun(stage'[r])) = Cardinality(Begun(stage[r])) + 1 /\ Cardinality(Begun(stage[r])) \in Nat
    BY <1>3, <2>2, BegunFinite, FS_AddElement
  <2>4. used' = used /\ used \in [Runs -> Nat]
    BY <1>0, <1>2 DEF Typed
  <2>5. ASSUME NEW q \in Runs, q # r PROVE used'[q] <= Cardinality(Begun(stage'[q])) /\ exec'.run # q
    BY <1>0, <1>8, <2>1, <2>4, <2>5 DEF Budget
  <2>6. used'[r] < Cardinality(Begun(stage'[r]))
    <3>1. used[r] <= Cardinality(Begun(stage[r])) /\ used[r] \in Nat
      BY <1>0, <1>3, <2>4 DEF Budget
    <3> QED
      BY <2>3, <2>4, <3>1
  <2>7. used'[r] <= Cardinality(Begun(stage'[r]))
    BY <1>3, <2>3, <2>4, <2>6
  <2>8. ASSUME NEW q \in Runs
        PROVE  /\ used'[q] <= Cardinality(Begun(stage'[q]))
               /\ exec'.phase = "leased" /\ exec'.run = q => used'[q] < Cardinality(Begun(stage'[q]))
    <3>1. CASE q = r
      BY <2>6, <2>7, <3>1
    <3>2. CASE q # r
      BY <2>5, <3>2
    <3> QED
      BY <3>1, <3>2
  <2> QED
    BY <2>8 DEF Budget
<1>13. PipeInv'
  BY <1>0, <1>2, PipeIdle, PipeKept DEF hostvars
<1> QED
  BY <1>4, <1>7, <1>9, <1>10, <1>11, <1>12, <1>13 DEF DInv

LEMMA AskInv == ASSUME DInv, Ask PROVE DInv'
<1>0. IInv /\ Typed /\ ExecInv /\ PipeInv /\ Budget
  BY DEF DInv
<1>1. /\ exec.phase = "leased" /\ UNCHANGED <<vars, appvars, host, inbox, output>>
  BY DEF Ask
<1>2. /\ exec \in Exec /\ exec.run \in Runs /\ exec.stage \in Stages /\ exec.number \in Attempts
  BY <1>0, <1>1 DEF ExecInv, InHand
<1>3. Quiet
  BY <1>0, <1>1, QuietUnchanged DEF vars
<1>4. CASE ~BudgetLeft(exec.run)
  <2>1. exec' = Thrown(FALSE) /\ UNCHANGED <<used, outbox, activeRun>>
    BY <1>4 DEF Ask
  <2> QED
    BY <1>1, <2>1, ThrownInv DEF InHand
<1>5. CASE BudgetLeft(exec.run)
  <2>1. used' = [used EXCEPT ![exec.run] = @ + 1] /\ used \in [Runs -> Nat]
    BY <1>0, <1>5 DEF Ask, Typed
  <2>2. /\ activeRun' = ThisJob /\ ThisJob \in Job /\ outbox = {} /\ inbox' \in Seq(Frame)
    BY <1>0, <1>1, <1>2, <1>5, PipeIdle DEF Ask, ThisJob, Job, PipeInv, PipeTyped
  <2>3. Typed'
    <3>1. used' \in [Runs -> Nat]
      BY <1>2, <2>1
    <3> QED
      BY <1>0, <1>1, <3>1 DEF Typed, appvars
  <2>4. ExecInv' /\ exec'.phase # "leased" /\ PipeInv'
    <3>1. CASE host.alive
      <4>1. /\ exec' = [exec EXCEPT !.phase = "writing"] /\ "writing" \in HeldPhases
            /\ outbox' = {[kind |-> "run", job |-> ThisJob]}
        BY <1>5, <2>2, <3>1 DEF Ask, HeldPhases
      <4>2. ExecInv' /\ exec'.phase = "writing"
        BY <1>0, <1>1, <4>1, ExecMovesOn DEF InHand, appvars, vars
      <4>3. PipeInv'
        BY <2>2, <4>1, <4>2 DEF PipeInv, PipeTyped, OutboxInv, Frame
      <4> QED
        BY <4>2, <4>3
    <3>2. CASE ~host.alive
      <4>1. exec' = Thrown(TRUE) /\ outbox' = {}
        BY <1>5, <2>2, <3>2 DEF Ask
      <4>2. ExecInv'
        BY <1>0, <1>1, <4>1, ExecThrown DEF InHand, appvars, vars
      <4>3. exec'.phase # "leased"
        BY <1>2, <4>1, ThrownExec
      <4> QED
        BY <2>2, <4>1, <4>2, <4>3, PipeEmpty
    <3> QED
      BY <3>1, <3>2
  <2>5. /\ IInv' /\ CheckpointMatchesStages' /\ OutputFromOwnAttempt'
        /\ \A r \in Runs : Begun(stage'[r]) = Begun(stage[r])
    BY <1>1, <1>3, QuietRows
  <2>6. Budget'
    <3>1. ASSUME NEW r \in Runs PROVE used'[r] <= Cardinality(Begun(stage'[r]))
      <4>1. Cardinality(Begun(stage[r])) \in Nat /\ Begun(stage'[r]) = Begun(stage[r])
        BY <2>5, BegunFinite
      <4>2. CASE r = exec.run
        <5>1. used[r] < Cardinality(Begun(stage[r])) /\ used'[r] = used[r] + 1 /\ used[r] \in Nat
          BY <1>0, <1>1, <1>2, <2>1, <4>2 DEF Budget
        <5> QED
          BY <4>1, <5>1
      <4>3. CASE r # exec.run
        BY <1>0, <2>1, <4>1, <4>3 DEF Budget
      <4> QED
        BY <4>2, <4>3
    <3> QED
      BY <2>4, <3>1 DEF Budget
  <2>7. Recovered'
    BY <1>1, <1>3, QuietRecovered DEF appvars
  <2> QED
    BY <2>3, <2>4, <2>5, <2>6, <2>7 DEF DInv
<1> QED
  BY <1>4, <1>5

LEMMA UserCancelInv == ASSUME DInv, UserCancel PROVE DInv'
<1>0. Typed /\ ExecInv /\ PipeInv
  BY DEF DInv
<1>1. /\ exec.phase \in {"writing", "asked", "waiting", "cancelling", "awaiting"}
      /\ exec' = [exec EXCEPT !.cancelled = TRUE]
      /\ UNCHANGED <<vars, appvars, hostvars, used, output>>
  BY DEF UserCancel
<1>2. exec \in Exec /\ (exec.answer = "good" => exec.source = exec.number)
      /\ exec.patience <= LeaseTicks + RequestTicks
  BY <1>0 DEF ExecInv
<1>3. /\ exec' \in Exec /\ exec'.patience = exec.patience /\ exec'.phase = exec.phase
      /\ exec'.run = exec.run /\ exec'.known = exec.known /\ exec'.stage = exec.stage
      /\ exec'.number = exec.number /\ exec'.answer = exec.answer /\ exec'.source = exec.source
  BY <1>1, <1>2 DEF Exec
<1>4. ExecInv'
  BY <1>0, <1>1, <1>2, <1>3, ExecGoesOn DEF InHand, appvars, vars
<1>5. PipeInv'
  BY <1>0, <1>1, <1>3, PipeKept DEF hostvars
<1>6. host' \in HostRow /\ \A i, j \in host'.jobs : i = j
  BY <1>0, <1>1 DEF Typed, hostvars
<1> QED
  BY <1>1, <1>3, <1>4, <1>5, <1>6, RowsAlone

LEMMA WriteFrameInv == ASSUME DInv, NEW f \in outbox, WriteFrame(f) PROVE DInv'
<1>0. Typed /\ ExecInv /\ PipeInv
  BY DEF DInv
<1> DEFINE p == IF f.kind = "run" THEN "asked" ELSE "awaiting"
<1>1. /\ inbox' = Append(inbox, f) /\ outbox' = outbox \ {f} /\ activeRun' = activeRun
      /\ exec' = [exec EXCEPT !.phase = p, !.patience = RequestTicks]
      /\ UNCHANGED <<vars, appvars, host, used, output>>
  BY DEF WriteFrame
<1>2. f \in Frame /\ outbox' = {} /\ exec.phase \in {"writing", "cancelling"}
  BY <1>0, <1>1 DEF PipeInv, OutboxInv
<1>3. p \in HeldPhases /\ p # "leased" /\ InHand(exec)
  BY <1>2 DEF HeldPhases, InHand
<1>4. RequestTicks \in Nat /\ RequestTicks <= LeaseTicks + RequestTicks
  BY LeaseTicksAssumption, RequestTicksAssumption
<1> HIDE DEF p
<1>5. ExecInv' /\ exec'.phase = p
  BY <1>0, <1>1, <1>3, <1>4, ExecMoves DEF appvars, vars
<1>6. inbox' \in Seq(Frame) /\ activeRun' \in Job \cup {NoJob}
  BY <1>0, <1>1, <1>2 DEF PipeInv, PipeTyped
<1>7. host' \in HostRow /\ \A i, j \in host'.jobs : i = j
  BY <1>0, <1>1 DEF Typed
<1> QED
  BY <1>1, <1>2, <1>3, <1>5, <1>6, <1>7, PipeEmpty, RowsAlone

LEMMA CancelQuietlyInv == ASSUME DInv, CancelQuietly PROVE DInv'
<1>0. Typed /\ ExecInv /\ PipeInv
  BY DEF DInv
<1>1. exec.phase = "throwing" /\ UNCHANGED <<vars, appvars, host, inbox, activeRun, used, output>>
  BY DEF CancelQuietly
<1>2. InHand(exec) /\ outbox = {} /\ "cancelling" \in HeldPhases
  BY <1>0, <1>1, PipeIdle DEF InHand, HeldPhases
<1>3. CASE host.alive /\ activeRun # NoJob
  <2>1. /\ outbox' = {[kind |-> "cancel", job |-> activeRun]} /\ exec' = [exec EXCEPT !.phase = "cancelling"]
    BY <1>2, <1>3 DEF CancelQuietly
  <2>2. ExecInv' /\ exec'.phase = "cancelling"
    BY <1>0, <1>1, <1>2, <2>1, ExecMovesOn DEF appvars, vars
  <2>3. PipeInv'
    BY <1>0, <1>1, <1>3, <2>1, <2>2 DEF PipeInv, PipeTyped, OutboxInv, Frame
  <2>4. host' \in HostRow /\ \A i, j \in host'.jobs : i = j
    BY <1>0, <1>1 DEF Typed
  <2> QED
    BY <1>1, <2>2, <2>3, <2>4, RowsAlone
<1>4. CASE ~(host.alive /\ activeRun # NoJob)
  <2>1. exec' = Uncancelled /\ UNCHANGED <<vars, appvars, hostvars, used, output>>
    BY <1>1, <1>4 DEF CancelQuietly, hostvars, pipevars
  <2> QED
    BY <1>1, <1>2, <2>1, UncancelledInv
<1> QED
  BY <1>3, <1>4

(* The commit: the checkpoint gains the stage, the output is the answer to *)
(* the attempt whose lease is still live, which is the newest one.         *)
LEMMA CommitInv ==
  ASSUME DInv, AnswerStored, EnsureLease(exec.run, exec.stage, exec.number) PROVE DInv'
<1>0. IInv /\ Typed /\ ExecInv /\ PipeInv /\ Budget /\ CheckpointMatchesStages /\ OutputFromOwnAttempt
  BY DEF DInv
<1> DEFINE r == exec.run
<1> DEFINE s == exec.stage
<1> DEFINE n == exec.number
<1>1. /\ CompleteStage(r, s, n, CheckpointAfter)
      /\ output' = [output EXCEPT ![r][s] = exec.source]
      /\ exec' = [Idle EXCEPT !.phase = "next", !.run = r, !.known = exec.known \cup {s},
                              !.cancelled = exec.cancelled]
      /\ UNCHANGED <<appvars, hostvars, used>> /\ exec.phase = "waiting" /\ exec.answer = "good"
  BY DEF AnswerStored
<1>2. /\ exec \in Exec /\ r \in Runs /\ s \in Stages /\ n \in Attempts
      /\ app = "up" /\ session \in Sessions /\ exec.known = run[r].checkpoint /\ exec.source = n
  BY <1>0, <1>1, IdleExec DEF ExecInv, InHand, HeldPhases
<1>c. CheckpointAfter = run[r].checkpoint \cup {s} /\ CheckpointAfter \in SUBSET Stages
  BY <1>0, <1>2, RunTypes DEF IInv, CheckpointAfter
<1> HIDE DEF r, s, n
<1>3. IInv'
  BY <1>0, <1>1, <1>2, <1>c, CompleteIInv
<1>4. EnsureLease(r, s, n) /\ FinishAttempt(r, s, n, "Completed")
  BY <1>1 DEF CompleteStage
<1>5. n = stage[r][s].count /\ run[r].owner = attempt[r][s][n].owner
  BY <1>0, <1>2, <1>4, LiveLease DEF FinishAttempt
<1>6. /\ run'[r].checkpoint = CheckpointAfter
      /\ \A q \in Runs : q # r => run'[q] = run[q]
  BY <1>0, <1>1, <1>2, <1>5 DEF IInv, TypeOK, CompleteStage, RunFollows
<1>7. /\ stage'[r][s].state = "Completed" /\ stage'[r][s].count = n
      /\ \A q \in Runs, t \in Stages : ~(q = r /\ t = s) => stage'[q][t] = stage[q][t]
  BY <1>0, <1>1, <1>2, <1>5, ReleasedFields DEF IInv, TypeOK, CompleteStage
<1>8. /\ output'[r][s] = n /\ output' \in [Runs -> [Stages -> 0 .. MaxAttempts]]
      /\ \A q \in Runs, t \in Stages : ~(q = r /\ t = s) => output'[q][t] = output[q][t]
  <2>1. output \in [Runs -> [Stages -> 0 .. MaxAttempts]] /\ exec.source \in 0 .. MaxAttempts
    BY <1>0, <1>2 DEF Typed, Exec
  <2> QED
    BY <1>1, <1>2, <2>1
<1>9. Typed'
  BY <1>0, <1>1, <1>8 DEF Typed, appvars, hostvars
<1>10. /\ exec' \in Exec /\ exec'.phase = "next" /\ exec'.run = r /\ exec'.known = CheckpointAfter
       /\ exec'.patience = 0 /\ exec'.answer = "none"
  <2>1. /\ "next" \in Phases /\ exec.cancelled \in BOOLEAN /\ exec.known \cup {s} \in SUBSET Stages
        /\ exec.known \cup {s} = CheckpointAfter
    BY <1>2, <1>c DEF Phases, Exec
  <2> QED
    BY <1>1, <1>2, <2>1, IdleExec DEF Exec
<1>11. ExecInv'
  <2>1. exec'.patience <= LeaseTicks + RequestTicks
    BY <1>10, LeaseTicksAssumption, RequestTicksAssumption
  <2> QED
    BY <1>1, <1>2, <1>6, <1>10, <2>1 DEF ExecInv, InHand, HeldPhases, appvars
<1>12. CheckpointMatchesStages'
  <2>1. ASSUME NEW q \in Runs PROVE run'[q].checkpoint = CompletedStages(q)'
    <3>1. run[q].checkpoint = CompletedStages(q)
      BY <1>0 DEF CheckpointMatchesStages
    <3>2. CASE q = r
      <4>1. CompletedStages(q)' = CompletedStages(q) \cup {s}
        BY <1>2, <1>7, <3>2 DEF CompletedStages
      <4> QED
        BY <1>6, <1>c, <3>1, <3>2, <4>1
    <3>3. CASE q # r
      <4>1. CompletedStages(q)' = CompletedStages(q)
        BY <1>7, <3>3 DEF CompletedStages
      <4> QED
        BY <1>6, <3>1, <3>3, <4>1
    <3> QED
      BY <3>2, <3>3
  <2> QED
    BY <2>1 DEF CheckpointMatchesStages
<1>13. OutputFromOwnAttempt'
  BY <1>0, <1>7, <1>8 DEF OutputFromOwnAttempt
<1>14. Recovered'
  BY <1>1, <1>2 DEF Recovered, appvars
<1>15. Budget'
  <2>1. ASSUME NEW q \in Runs PROVE Begun(stage'[q]) = Begun(stage[q])
    <3>1. \A t \in Stages : stage'[q][t].count = stage[q][t].count
      BY <1>5, <1>7
    <3> QED
      BY <3>1 DEF Begun
  <2> QED
    BY <1>0, <1>1, <1>10, <2>1, BudgetKept
<1>16. PipeInv'
  BY <1>0, <1>1, PipeIdle, PipeKept DEF hostvars
<1> QED
  BY <1>3, <1>9, <1>11, <1>12, <1>13, <1>14, <1>15, <1>16 DEF DInv

LEMMA ConcludeInv == ASSUME DInv, Conclude PROVE DInv'
<1>1. exec.run \in Runs /\ exec.stage \in Stages /\ exec.number \in Attempts /\ exec.retryable \in BOOLEAN
  BY DEF DInv, Conclude, ExecInv, InHand, HeldPhases, Exec
<1>2. Quiet
  <2>1. CASE ~EnsureLease(exec.run, exec.stage, exec.number)
    BY <2>1, QuietUnchanged DEF DInv, Conclude
  <2>2. CASE EnsureLease(exec.run, exec.stage, exec.number) /\ exec.cancelled
    BY <1>1, <2>2, QuietCancel DEF DInv, Conclude
  <2>3. CASE EnsureLease(exec.run, exec.stage, exec.number) /\ ~exec.cancelled
    BY <1>1, <2>3, QuietFail DEF DInv, Conclude
  <2> QED
    BY <2>1, <2>2, <2>3
<1> QED
  BY <1>2, EndsInv DEF Conclude

LEMMA CloseRunInv == ASSUME DInv, CloseRun PROVE DInv'
<1>1. exec.run \in Runs /\ session \in Sessions
  BY DEF DInv, CloseRun, ExecInv
<1>2. Quiet
  <2>1. CASE AllStagesCompleted(exec.run) /\ run[exec.run].owner \in {session, NoSession}
    BY <1>1, <2>1, QuietClose DEF DInv, CloseRun
  <2>2. CASE ~(AllStagesCompleted(exec.run) /\ run[exec.run].owner \in {session, NoSession})
    BY <2>2, QuietUnchanged DEF DInv, CloseRun
  <2> QED
    BY <2>1, <2>2
<1> QED
  BY <1>2, EndsInv DEF CloseRun

LEMMA AdvanceInv == ASSUME DInv, Advance PROVE DInv'
<1>0. IInv
  BY DEF DInv
<1>1. CASE CancelledBetweenStages \/ NotReady
  BY <1>0, <1>1, QuietUnchanged, EndsInv DEF CancelledBetweenStages, NotReady, AtNextStage
<1>2. CASE RequestTimeout \/ WaitTimeout \/ Aborted
  <2>1. CASE RequestTimeout \/ WaitTimeout
    BY <2>1, ThrownInv DEF RequestTimeout, WaitTimeout, InHand, HeldPhases, hostvars, pipevars
  <2>2. CASE Aborted
    <3>1. \A f \in outbox : f.kind = "run"
      BY <2>2 DEF DInv, PipeInv, OutboxInv, Aborted, Listening
    <3>2. outbox' = {}
      BY <2>2, <3>1 DEF Aborted
    <3> QED
      BY <2>2, <3>2, ThrownInv DEF Aborted, Listening, InHand, HeldPhases
  <2> QED
    BY <1>2, <2>1, <2>2
<1>3. CASE AnswerRefused
  BY <1>3, ThrownInv DEF AnswerRefused, InHand, HeldPhases, hostvars, pipevars
<1>4. CASE AnswerStored
  <2>1. CASE EnsureLease(exec.run, exec.stage, exec.number)
    BY <1>4, <2>1, CommitInv
  <2>2. CASE ~EnsureLease(exec.run, exec.stage, exec.number)
    BY <1>4, <2>2, ThrownInv DEF AnswerStored, InHand, HeldPhases, hostvars, pipevars
  <2> QED
    BY <2>1, <2>2
<1>5. CASE CancelUnanswered
  BY <1>5, UncancelledInv DEF CancelUnanswered, InHand, HeldPhases
<1> QED
  BY Advance, <1>1, <1>2, <1>3, <1>4, <1>5, AcquireInv, AskInv, WriteFrameInv, CancelQuietlyInv, ConcludeInv, CloseRunInv
     DEF Advance

LEMMA TimePassesInv == ASSUME DInv, TimePasses PROVE DInv'
<1>0. IInv /\ Typed /\ ExecInv /\ PipeInv
  BY DEF DInv
<1>1. /\ TimersElapse /\ exec' = [exec EXCEPT !.patience = Less(@)]
      /\ UNCHANGED <<run, attempt, appvars, hostvars, used, output>>
  BY DEF TimePasses
<1>2. Quiet
  BY <1>0, <1>1, QuietTimers
<1>3. Typed'
  BY <1>0, <1>1 DEF Typed, appvars, hostvars
<1>4. exec \in Exec /\ exec.patience \in Nat /\ exec.patience <= LeaseTicks + RequestTicks
      /\ (exec.answer = "good" => exec.source = exec.number)
  BY <1>0 DEF ExecInv, Exec
<1>5. Less(exec.patience) \in Nat /\ Less(exec.patience) <= exec.patience
      /\ (exec.patience = 0 => Less(exec.patience) = 0)
  BY <1>4 DEF Less
<1>6. /\ exec' \in Exec /\ exec'.patience = Less(exec.patience) /\ exec'.phase = exec.phase
      /\ exec'.run = exec.run /\ exec'.known = exec.known /\ exec'.stage = exec.stage
      /\ exec'.number = exec.number /\ exec'.answer = exec.answer /\ exec'.source = exec.source
  BY <1>1, <1>4, <1>5 DEF Exec
<1>7. exec'.patience <= LeaseTicks + RequestTicks
  BY <1>4, <1>5, <1>6, LeaseTicksAssumption, RequestTicksAssumption
<1>8. ExecInv'
  <2>1. CASE exec = Idle
    <3>1. exec' = Idle
      BY <1>1, <1>5, <2>1, IdleExec DEF Exec, Idle
    <3> QED
      BY <3>1, ExecIdles
  <2>2. CASE exec.phase # "idle"
    BY <1>0, <1>1, <1>4, <1>6, <1>7, <2>2, ExecGoesOn DEF InHand, appvars
  <2>3. CASE exec # Idle /\ exec.phase = "idle"
    <3>1. app' = "up"
      BY <1>0, <1>1, <2>3 DEF ExecInv, appvars, Typed
    <3> QED
      BY <1>0, <1>4, <1>6, <1>7, <2>3, <3>1 DEF ExecInv, InHand, HeldPhases
  <2> QED
    BY <2>1, <2>2, <2>3
<1>9. PipeInv'
  BY <1>0, <1>1, <1>6, PipeKept DEF hostvars
<1> QED
  BY <1>1, <1>2, <1>3, <1>6, <1>8, <1>9, QuietStep DEF appvars

LEMMA NextDInv == DInv /\ [DNext]_dvars => DInv'
<1> SUFFICES ASSUME DInv, [DNext]_dvars PROVE DInv'
  OBVIOUS
<1>1. CASE UNCHANGED dvars
  <2>1. Quiet
    BY <1>1, QuietUnchanged DEF DInv, dvars, vars
  <2>2. Typed' /\ ExecInv' /\ PipeInv'
    BY <1>1, PipeKept DEF DInv, dvars, Typed, ExecInv, InHand
  <2> QED
    BY <1>1, <2>1, <2>2, QuietStep DEF dvars
<1>2. CASE DNext
  BY <1>2, ProcessInv, HostInv, AdvanceInv, UserCancelInv, StartInv, TimePassesInv DEF DNext
<1> QED
  BY <1>1, <1>2

THEOREM DiscoveryInductive == DSafeSpec => []DInv
BY InitDInv, NextDInv, PTL DEF DSafeSpec

-----------------------------------------------------------------------------
(* The process, the host, the pipe and the local state of ExecuteAsync     *)
(* keep their types, and the budget counter its bound.                     *)
THEOREM DiscoveryTypeCorrect == DSafeSpec => []DTypeOK
<1>1. DInv => DTypeOK
  <2> SUFFICES ASSUME DInv PROVE DTypeOK
    OBVIOUS
  <2>1. used \in [Runs -> 0 .. ModelRequests]
    <3>1. ASSUME NEW r \in Runs PROVE used[r] \in 0 .. ModelRequests
      <4>1. used[r] \in Nat /\ used[r] <= Cardinality(Begun(stage[r]))
        BY DEF DInv, Typed, Budget
      <4>2. Cardinality(Begun(stage[r])) \in Nat /\ Cardinality(Begun(stage[r])) <= ModelRequests
        BY BegunFinite
      <4>3. ModelRequests \in Nat
        BY NStagesAssumption DEF ModelRequests
      <4> QED
        BY <4>1, <4>2, <4>3
    <3> QED
      BY <3>1 DEF DInv, Typed
  <2> QED
    BY <2>1 DEF DTypeOK, DInv, IInv, Typed, ExecInv, HostRow, PipeInv, PipeTyped, OutboxInv
<1> QED
  BY <1>1, DiscoveryInductive, PTL

(* Whatever is interrupted, cancelled or retried, an execution resumes     *)
(* from the outputs of exactly the stages that are Completed.              *)
THEOREM CheckpointAlwaysMatches == DSafeSpec => []CheckpointMatchesStages
<1>1. DInv => CheckpointMatchesStages
  BY DEF DInv
<1> QED
  BY <1>1, DiscoveryInductive, PTL

(* The output stored for a stage is the answer to the attempt credited     *)
(* with it, never the late answer to an earlier one.                       *)
THEOREM OutputAlwaysOwn == DSafeSpec => []OutputFromOwnAttempt
<1>1. DInv => OutputFromOwnAttempt
  BY DEF DInv
<1> QED
  BY <1>1, DiscoveryInductive, PTL

(* Three requests per stage are enough for every attempt that is begun.    *)
THEOREM BudgetAlwaysSuffices == DSafeSpec => []BudgetSuffices
<1>1. DInv => BudgetSuffices
  <2> SUFFICES ASSUME DInv, exec.phase = "leased" PROVE BudgetLeft(exec.run)
    BY DEF BudgetSuffices
  <2>1. exec.run \in Runs
    BY DEF DInv, ExecInv
  <2>2. used[exec.run] < Cardinality(Begun(stage[exec.run])) /\ used[exec.run] \in Nat
    BY <2>1 DEF DInv, Budget, Typed
  <2>3. /\ Cardinality(Begun(stage[exec.run])) \in Nat
        /\ Cardinality(Begun(stage[exec.run])) <= ModelRequests
    BY BegunFinite
  <2>4. ModelRequests \in Nat
    BY NStagesAssumption DEF ModelRequests
  <2> QED
    BY <2>2, <2>3, <2>4 DEF BudgetLeft
<1> QED
  BY <1>1, DiscoveryInductive, PTL

(* Nothing is left Running in any table once the two recoveries are over.  *)
THEOREM StartupAlwaysSettles == DSafeSpec => StartupSettles
<1> DEFINE Settled == \A r \in Runs :
                        /\ run'[r].state # "Running"
                        /\ \A s \in Stages : /\ stage'[r][s].state # "Running"
                                             /\ \A n \in Attempts : attempt'[r][s][n].state # "Running"
<1>1. ASSUME DInv, [DNext]_dvars PROVE [(app # "up" /\ app' = "up") => Settled]_dvars
  <2> SUFFICES ASSUME DNext, app # "up", app' = "up" PROVE Settled
    BY <1>1
  <2>0. exec = Idle
    BY <1>1 DEF DInv, ExecInv
  <2>1. Started
    <3>1. ProcessStep
      BY <2>0, IdleExec
         DEF DNext, HostStep, HostReads, HostAccepts, HostRefuses, HostDies, HostFinishes, UserCancel, CreateRun,
             Start, TimePasses, Advance, CancelledBetweenStages, NotReady, AtNextStage, Acquire, Ask,
             RequestTimeout, WaitTimeout, Aborted, AnswerRefused, AnswerStored, Conclude, CloseRun, appvars,
             HostAnswersCancel, WriteFrame, CancelQuietly, CancelUnanswered
    <3> QED
      BY <3>1 DEF ProcessStep, Crash, Boot, RecoverLeasesAtStartup, Connect, RecoverInterruptedRun
  <2>2. UNCHANGED <<run, stage, attempt>> /\ app = "runs" /\ \A r \in Runs : run[r].state # "Running"
    BY <2>1 DEF Started
  <2>3. \A r \in Runs, s \in Stages : stage[r][s].state # "Running"
    BY <1>1, <2>2 DEF DInv, Recovered
  <2>4. \A r \in Runs, s \in Stages, n \in Attempts : attempt[r][s][n].state # "Running"
    BY <1>1, <2>3 DEF DInv, IInv, LeaseCoherent, LeaseAgrees
  <2> QED
    BY <2>2, <2>3, <2>4
<1>2. DInv /\ [DNext]_dvars => [(app # "up" /\ app' = "up") => Settled]_dvars
  BY <1>1
<1> QED
  BY <1>2, DiscoveryInductive, PTL DEF DSafeSpec, StartupSettles

-----------------------------------------------------------------------------
(* Refinement: whatever the process, the host and the user do, the rows    *)
(* take a step of the queue or one that StagedRun does not see.            *)

LEMMA TimersStutter == ASSUME TimersElapse, UNCHANGED <<run, attempt>> PROVE Stutters
<1>1. \A q \in Runs, t \in Stages : stage'[q][t] = Elapsed(stage[q][t])
  BY DEF TimersElapse
<1>2. \A q \in Runs, t \in Stages : /\ stage'[q][t].count = stage[q][t].count
                                   /\ stage'[q][t].state = stage[q][t].state
  BY <1>1, ElapsedFields
<1> QED
  BY <1>2, Invisible

LEMMA InterruptedStutters == ASSUME IInv, NEW r \in Runs, RecoverInterruptedRun(r) PROVE Stutters
<1>1. \A q \in Runs : (run'[q].state = "Completed") <=> (run[q].state = "Completed")
  BY DEF IInv, TypeOK, RunRow, RecoverInterruptedRun
<1> QED
  BY <1>1, Invisible DEF RecoverInterruptedRun

LEMMA QueueStep == ASSUME DInv, [DNext]_dvars PROVE [Next]_vars \/ Stutters
<1> DEFINE Goal == [Next]_vars \/ Stutters
<1>0. ASSUME UNCHANGED vars PROVE Goal
  BY <1>0
<1>e. exec.phase # "idle" => exec.run \in Runs /\ session \in Sessions /\ exec.known = CompletedStages(exec.run)
  BY DEF DInv, ExecInv, CheckpointMatchesStages
<1>h. InHand(exec) => exec.stage \in Stages /\ exec.number \in Attempts /\ exec.retryable \in BOOLEAN
                      /\ exec.run \in Runs
  BY DEF DInv, ExecInv, Exec, InHand, HeldPhases
<1>1. ASSUME ProcessStep PROVE Goal
  <2>1. CASE RecoverLeasesAtStartup
    BY <2>1 DEF RecoverLeasesAtStartup, Next
  <2>2. ASSUME NEW r \in Runs, RecoverInterruptedRun(r) PROVE Goal
    BY <2>2, InterruptedStutters DEF DInv
  <2>3. CASE Crash \/ Boot \/ Started \/ Connect
    BY <1>0, <2>3 DEF Crash, Boot, Started, Connect, vars
  <2> QED
    BY <1>1, <2>1, <2>2, <2>3 DEF ProcessStep
<1>2. ASSUME HostStep \/ UserCancel PROVE Goal
  BY <1>0, <1>2 DEF HostStep, HostReads, HostAnswersCancel, HostAccepts, HostRefuses, HostDies, HostFinishes, UserCancel
<1>3. ASSUME NEW r \in Runs, CreateRun(r) \/ Start(r) PROVE Goal
  <2>1. Create(r) \/ RequeueIncomplete(r) \/ UNCHANGED vars
    BY <1>3 DEF CreateRun, Start
  <2> QED
    BY <2>1, <1>0 DEF Next
<1>4. ASSUME TimePasses PROVE Goal
  BY <1>4, TimersStutter DEF TimePasses
<1>5. ASSUME Acquire PROVE Goal
  BY <1>5, <1>e DEF Acquire, AtNextStage, Next
<1>6. ASSUME AnswerStored PROVE Goal
  <2>1. CASE EnsureLease(exec.run, exec.stage, exec.number)
    <3>1. CompleteStage(exec.run, exec.stage, exec.number, CompletedStages(exec.run) \cup {exec.stage})
      BY <1>6, <1>e, <2>1 DEF AnswerStored, CheckpointAfter
    <3> QED
      BY <1>6, <1>h, <3>1 DEF AnswerStored, InHand, HeldPhases, LeaseStep, Next
  <2>2. CASE ~EnsureLease(exec.run, exec.stage, exec.number)
    BY <1>6, <1>0, <2>2 DEF AnswerStored
  <2> QED
    BY <2>1, <2>2
<1>7. ASSUME Conclude PROVE Goal
  <2>1. \/ CancelStage(exec.run, exec.stage, exec.number)
        \/ FailStage(exec.run, exec.stage, exec.number, exec.retryable)
        \/ UNCHANGED vars
    BY <1>7 DEF Conclude
  <2>2. InHand(exec)
    BY <1>7 DEF Conclude, InHand, HeldPhases
  <2> QED
    BY <1>h, <1>0, <2>1, <2>2 DEF LeaseStep, Next
<1>8. ASSUME CloseRun PROVE Goal
  <2>1. CompleteRun(exec.run, session) \/ UNCHANGED vars
    BY <1>8 DEF CloseRun
  <2> QED
    BY <1>8, <1>e, <1>0, <2>1 DEF CloseRun, Next
<1>9. ASSUME \/ CancelledBetweenStages \/ NotReady \/ Ask \/ RequestTimeout \/ WaitTimeout \/ Aborted \/ AnswerRefused
             \/ CancelQuietly \/ CancelUnanswered \/ \E f \in outbox : WriteFrame(f)
      PROVE  Goal
  BY <1>0, <1>9 DEF CancelledBetweenStages, NotReady, Ask, RequestTimeout, WaitTimeout, Aborted, AnswerRefused,
                    CancelQuietly, CancelUnanswered, WriteFrame
<1>10. ASSUME UNCHANGED dvars PROVE Goal
  BY <1>0, <1>10 DEF dvars, vars
<1> HIDE DEF Goal
<1>11. Goal
  BY <1>1, <1>2, <1>3, <1>4, <1>5, <1>6, <1>7, <1>8, <1>9, <1>10 DEF DNext, Advance
<1> QED
  BY <1>11 DEF Goal

(* Executed by DiscoveryService, over crashes, restarts, late answers and  *)
(* expired leases, the queue keeps what StagedRun promises.                *)
THEOREM DiscoveryImplementsStagedRun == DSafeSpec => ImplementsStagedRun
<1>1. DInit => Abstract!Init
  BY InitBar DEF DInit
<1>2. ASSUME DInv, DInv', [DNext]_dvars PROVE [Abstract!Next]_(Abstract!avars)
  <2>1. CASE [Next]_vars
    BY <1>2, <2>1, StepBar DEF DInv
  <2>2. CASE Stutters
    BY <2>2 DEF Stutters, Abstract!avars, doneBar, workingBar, triesBar, closedBar
  <2> QED
    BY <1>2, <2>1, <2>2, QueueStep
<1>3. DInv /\ DInv' /\ [DNext]_dvars => [Abstract!Next]_(Abstract!avars)
  BY <1>2
<1> QED
  BY <1>1, <1>3, DiscoveryInductive, PTL DEF DSafeSpec, ImplementsStagedRun, Abstract!Spec
=============================================================================
