--------------------------- MODULE JobQueueProofs ---------------------------
(***************************************************************************)
(* Proofs about JobQueue, for any number of runs, sessions, stages and     *)
(* attempts and any lease and retry delay.                                 *)
(***************************************************************************)
EXTENDS JobQueue, TLAPS

(* The conjunction of the invariants is inductive: none of them is on its *)
(* own.  LeaseCoherent needs AttemptLedger to know that the next attempt   *)
(* row is free, StagesInOrder to know that no other stage is Running, and  *)
(* RunMatchesStages needs LeaseCoherent to know whose run row follows.     *)
IInv == TypeOK /\ LeaseCoherent /\ AttemptLedger /\ StagesInOrder /\ RunMatchesStages

-----------------------------------------------------------------------------
LEMMA InitIInv == Init => IInv
<1> SUFFICES ASSUME Init PROVE IInv
  OBVIOUS
<1> USE NStagesAssumption, MaxAttemptsAssumption, LeaseTicksAssumption, RetryTicksAssumption, NoSessionAssumption
<1>1. TypeOK
  BY DEF Init, TypeOK, RunRow, StageRow, AttemptRow, RunStates, StageStates, AttemptStates, Owners, Stages
<1>2. LeaseCoherent
  BY DEF Init, LeaseCoherent, LeaseAgrees
<1>3. AttemptLedger
  BY DEF Init, AttemptLedger, LedgerAgrees, Attempts
<1>4. StagesInOrder
  BY DEF Init, StagesInOrder, InOrder
<1>5. RunMatchesStages
  BY DEF Init, RunMatchesStages, VerdictAgrees
<1> QED
  BY <1>1, <1>2, <1>3, <1>4, <1>5 DEF IInv

(* The types of the rows, spelled out. *)
LEMMA RunTypes ==
  ASSUME TypeOK, NEW r \in Runs
  PROVE  run[r].state \in RunStates /\ run[r].owner \in Owners /\ run[r].checkpoint \in SUBSET Stages
BY DEF TypeOK, RunRow

LEMMA StageTypes ==
  ASSUME TypeOK, NEW r \in Runs, NEW s \in Stages
  PROVE  /\ stage[r][s] \in StageRow
         /\ stage[r][s].state \in StageStates /\ stage[r][s].count \in 0 .. MaxAttempts
         /\ stage[r][s].owner \in Owners /\ stage[r][s].left \in 0 .. LeaseTicks
         /\ stage[r][s].wait \in 0 .. RetryTicks
<1>1. stage[r][s] \in StageRow
  BY DEF TypeOK
<1> QED
  BY <1>1 DEF StageRow

LEMMA AttemptTypes ==
  ASSUME TypeOK, NEW r \in Runs, NEW s \in Stages, NEW n \in Attempts
  PROVE  attempt[r][s][n].state \in AttemptStates /\ attempt[r][s][n].owner \in Owners
<1>1. attempt[r][s][n] \in AttemptRow
  BY DEF TypeOK
<1> QED
  BY <1>1 DEF AttemptRow

(* A step that touches the rows of one run only has to be checked there.  *)
LEMMA OneRun ==
  ASSUME IInv, TypeOK', NEW r \in Runs,
         \A q \in Runs : q # r => run'[q] = run[q] /\ stage'[q] = stage[q] /\ attempt'[q] = attempt[q],
         \A s \in Stages : LeaseAgrees(r, s)' /\ LedgerAgrees(r, s)' /\ InOrder(r, s)',
         VerdictAgrees(r)'
  PROVE  IInv'
<1>1. ASSUME NEW q \in Runs, NEW s \in Stages
      PROVE  LeaseAgrees(q, s)' /\ LedgerAgrees(q, s)' /\ InOrder(q, s)' /\ VerdictAgrees(q)'
  <2>1. CASE q = r
    BY <2>1
  <2>2. CASE q # r
    <3>1. run'[q] = run[q] /\ stage'[q] = stage[q] /\ attempt'[q] = attempt[q]
      BY <2>2
    <3>2. LeaseAgrees(q, s) /\ LedgerAgrees(q, s) /\ InOrder(q, s) /\ VerdictAgrees(q)
      BY DEF IInv, LeaseCoherent, AttemptLedger, StagesInOrder, RunMatchesStages
    <3>3. LeaseAgrees(q, s)'
      BY <3>1, <3>2 DEF LeaseAgrees, LeaseHeld
    <3>4. LedgerAgrees(q, s)'
      BY <3>1, <3>2 DEF LedgerAgrees
    <3>5. InOrder(q, s)' /\ VerdictAgrees(q)'
      BY <3>1, <3>2 DEF InOrder, PriorsCompleted, VerdictAgrees, AllStagesCompleted
    <3> QED
      BY <3>3, <3>4, <3>5
  <2> QED
    BY <2>1, <2>2
<1>2. \A q \in Runs : VerdictAgrees(q)'
  <2>1. 1 \in Stages
    BY NStagesAssumption DEF Stages
  <2> QED
    BY <1>1, <2>1
<1> QED
  BY <1>1, <1>2 DEF IInv, LeaseCoherent, AttemptLedger, StagesInOrder, RunMatchesStages

(* At most one stage of a run has been attempted and is not Completed.    *)
LEMMA OneOpenStage ==
  ASSUME IInv, NEW r \in Runs, NEW s \in Stages, NEW t \in Stages,
         stage[r][s].count > 0, stage[r][s].state # "Completed",
         stage[r][t].count > 0, stage[r][t].state # "Completed"
  PROVE  s = t
<1>1. ~ s < t /\ ~ t < s
  BY DEF IInv, StagesInOrder, InOrder, PriorsCompleted
<1> QED
  BY <1>1 DEF Stages

(* A Running stage has been attempted, and its attempt is the newest one. *)
LEMMA RunningStage ==
  ASSUME IInv, NEW r \in Runs, NEW s \in Stages, stage[r][s].state = "Running"
  PROVE  /\ stage[r][s].count \in Attempts /\ stage[r][s].count > 0
         /\ \A n \in Attempts : attempt[r][s][n].state = "Running" <=> n = stage[r][s].count
         /\ LeaseHeld(r, s)
         /\ stage[r][s].wait = 0
<1>1. LedgerAgrees(r, s) /\ LeaseAgrees(r, s)
  BY DEF IInv, AttemptLedger, LeaseCoherent
<1> QED
  BY <1>1, StageTypes DEF IInv, LedgerAgrees, LeaseAgrees, Attempts

LEMMA ReleasedFields ==
  ASSUME NEW row, NEW st, NEW w
  PROVE  /\ Released(row, st, w).state = st /\ Released(row, st, w).count = row.count
         /\ Released(row, st, w).owner = NoSession /\ Released(row, st, w).left = 0
         /\ Released(row, st, w).wait = w
BY DEF Released

LEMMA CreateIInv == ASSUME IInv, NEW r \in Runs, Create(r) PROVE IInv'
<1>1. TypeOK'
  BY DEF Create, IInv, TypeOK, RunRow, RunStates
<1>2. \A q \in Runs : q # r => run'[q] = run[q] /\ stage'[q] = stage[q] /\ attempt'[q] = attempt[q]
  BY DEF Create, IInv, TypeOK
<1>3. /\ run'[r].state = "Queued" /\ run[r].state = "Absent" /\ run'[r].owner = run[r].owner
      /\ stage' = stage /\ attempt' = attempt
  BY DEF Create, IInv, TypeOK, RunRow
<1>4. ASSUME NEW s \in Stages PROVE LeaseAgrees(r, s)'
  BY <1>3 DEF IInv, LeaseCoherent, LeaseAgrees, LeaseHeld
<1>5. ASSUME NEW s \in Stages PROVE LedgerAgrees(r, s)' /\ InOrder(r, s)'
  BY <1>3 DEF IInv, AttemptLedger, LedgerAgrees, StagesInOrder, InOrder, PriorsCompleted
<1>6. VerdictAgrees(r)'
  BY <1>3 DEF VerdictAgrees
<1> QED
  BY <1>1, <1>2, <1>4, <1>5, <1>6, OneRun

LEMMA AcquireIInv ==
  ASSUME IInv, NEW r \in Runs, NEW s \in Stages, NEW o \in Sessions, TryAcquireNext(r, s, o)
  PROVE  IInv'
<1> DEFINE n == stage[r][s].count + 1
<1> DEFINE srow == [state |-> "Running", count |-> n, owner |-> o, left |-> LeaseTicks, wait |-> 0]
<1> DEFINE arow == [state |-> "Running", owner |-> o]
<1> DEFINE rrow == [state |-> "Running", owner |-> o, checkpoint |-> run[r].checkpoint]
<1>1. n \in Attempts /\ stage[r][s].count \in Nat
  BY StageTypes, MaxAttemptsAssumption DEF IInv, TryAcquireNext, Ready, Attempts
<1>2. TypeOK'
  <2>1. rrow \in RunRow
    BY RunTypes DEF IInv, RunRow, RunStates, Owners
  <2>2. srow \in StageRow
    BY <1>1, LeaseTicksAssumption, RetryTicksAssumption DEF StageRow, StageStates, Owners, Attempts
  <2>3. arow \in AttemptRow
    BY DEF AttemptRow, AttemptStates, Owners
  <2> QED
    BY <1>1, <2>1, <2>2, <2>3 DEF IInv, TypeOK, TryAcquireNext
<1>3. \A q \in Runs : q # r => run'[q] = run[q] /\ stage'[q] = stage[q] /\ attempt'[q] = attempt[q]
  BY <1>1 DEF IInv, TypeOK, TryAcquireNext
<1>4. /\ run'[r].state = "Running" /\ run'[r].owner = o
      /\ stage'[r][s].state = "Running" /\ stage'[r][s].count = n /\ stage'[r][s].owner = o
      /\ stage'[r][s].wait = 0
      /\ attempt'[r][s][n].state = "Running" /\ attempt'[r][s][n].owner = o
  BY <1>1 DEF IInv, TypeOK, TryAcquireNext
<1>5. /\ \A t \in Stages : t # s => stage'[r][t] = stage[r][t] /\ attempt'[r][t] = attempt[r][t]
      /\ \A m \in Attempts : m # n => attempt'[r][s][m] = attempt[r][s][m]
  BY <1>1 DEF IInv, TypeOK, TryAcquireNext
<1>6. /\ stage[r][s].state \in {"Queued", "RetryScheduled"}
      /\ PriorsCompleted(r, s)
      /\ run[r].state \in {"Queued", "Running", "Partial"}
  BY DEF TryAcquireNext, Ready
<1> HIDE DEF n
<1>7. ASSUME NEW t \in Stages, t # s, stage[r][t].state # "Completed"
      PROVE  stage[r][t].count = 0 /\ stage[r][t].state = "Queued"
  <2>1. s < t
    BY <1>6, <1>7 DEF PriorsCompleted, Stages
  <2>2. ~ stage[r][t].count > 0
    BY <1>6, <2>1 DEF IInv, StagesInOrder, InOrder, PriorsCompleted
  <2> QED
    BY <2>2, StageTypes DEF IInv, AttemptLedger, LedgerAgrees
<1>8. ASSUME NEW t \in Stages PROVE LeaseAgrees(r, t)'
  <2>1. CASE t = s
    <3>1. \A m \in Attempts : attempt[r][s][m].state # "Running"
      BY <1>6 DEF IInv, LeaseCoherent, LeaseAgrees
    <3>2. LeaseHeld(r, s)'
      BY <1>4, <1>5, <1>7 DEF LeaseHeld
    <3> QED
      BY <2>1, <3>1, <3>2, <1>4, <1>5 DEF LeaseAgrees
  <2>2. CASE t # s
    <3>1. LeaseAgrees(r, t) /\ stage[r][t].state # "Running"
      BY <2>2, <1>7 DEF IInv, LeaseCoherent
    <3> QED
      BY <2>2, <3>1, <1>5 DEF LeaseAgrees
  <2> QED
    BY <2>1, <2>2
<1>9. ASSUME NEW t \in Stages PROVE LedgerAgrees(r, t)'
  <2>0. LedgerAgrees(r, t)
    BY DEF IInv, AttemptLedger
  <2>1. CASE t = s
    <3>1. ASSUME NEW m \in Attempts, m # n
          PROVE  /\ attempt'[r][s][m].state # "Completed"
                 /\ attempt'[r][s][m].state = "None" <=> m > n
      BY <2>0, <2>1, <3>1, <1>1, <1>5, <1>6 DEF LedgerAgrees, Attempts, n
    <3> QED
      BY <2>1, <3>1, <1>1, <1>4 DEF LedgerAgrees, Attempts
  <2>2. CASE t # s
    BY <2>0, <2>2, <1>5 DEF LedgerAgrees
  <2> QED
    BY <2>1, <2>2
<1>10. ASSUME NEW t \in Stages PROVE InOrder(r, t)'
  <2>1. \A u \in Stages : stage[r][u].state = "Completed" => stage'[r][u].state = "Completed"
    BY <1>5, <1>6
  <2>2. stage'[r][t].count > 0 => PriorsCompleted(r, t)
    BY <1>5, <1>6 DEF IInv, StagesInOrder, InOrder
  <2> QED
    BY <2>1, <2>2 DEF InOrder, PriorsCompleted
<1>11. VerdictAgrees(r)'
  BY <1>4, <1>5, <1>7 DEF VerdictAgrees
<1> QED
  BY <1>2, <1>3, <1>8, <1>9, <1>10, <1>11, OneRun

(* Only timers move: those of the leases and of the pending retries.      *)
LEMMA TimersOnly ==
  ASSUME IInv, TypeOK', run' = run, attempt' = attempt,
         \A q \in Runs, t \in Stages :
           /\ stage'[q][t].state = stage[q][t].state
           /\ stage'[q][t].count = stage[q][t].count
           /\ stage'[q][t].owner = stage[q][t].owner
           /\ stage[q][t].state # "Running" => stage'[q][t].left = 0
           /\ stage[q][t].state # "RetryScheduled" => stage'[q][t].wait = 0
  PROVE  IInv'
<1>1. ASSUME NEW q \in Runs, NEW t \in Stages PROVE LeaseAgrees(q, t)'
  <2>1. LeaseAgrees(q, t)
    BY DEF IInv, LeaseCoherent
  <2>2. LeaseHeld(q, t) => LeaseHeld(q, t)'
    BY DEF LeaseHeld
  <2>3. \A n \in Attempts : (attempt[q][t][n].state = "Running") <=>
                            (stage'[q][t].state = "Running" /\ n = stage'[q][t].count)
    BY <2>1 DEF LeaseAgrees
  <2>4. stage'[q][t].state # "Running" => stage'[q][t].owner = NoSession /\ stage'[q][t].left = 0
    BY <2>1 DEF LeaseAgrees
  <2> QED
    BY <2>1, <2>2, <2>3, <2>4 DEF LeaseAgrees
<1>2. ASSUME NEW q \in Runs, NEW t \in Stages PROVE LedgerAgrees(q, t)'
  <2>1. LedgerAgrees(q, t)
    BY DEF IInv, AttemptLedger
  <2> QED
    BY <2>1 DEF LedgerAgrees
<1>3. ASSUME NEW q \in Runs, NEW t \in Stages PROVE InOrder(q, t)'
  <2>1. InOrder(q, t)
    BY DEF IInv, StagesInOrder
  <2> QED
    BY <2>1 DEF InOrder, PriorsCompleted
<1>4. ASSUME NEW q \in Runs PROVE VerdictAgrees(q)'
  <2>1. VerdictAgrees(q)
    BY DEF IInv, RunMatchesStages
  <2>2. \A t \in Stages : stage'[q][t].state = stage[q][t].state
    OBVIOUS
  <2> QED
    BY <2>1, <2>2 DEF VerdictAgrees, AllStagesCompleted
<1> QED
  BY <1>1, <1>2, <1>3, <1>4 DEF IInv, LeaseCoherent, AttemptLedger, StagesInOrder, RunMatchesStages

LEMMA RenewIInv ==
  ASSUME IInv, NEW r \in Runs, NEW s \in Stages, NEW n \in Attempts, RenewLease(r, s, n)
  PROVE  IInv'
<1>1. \A q \in Runs, t \in Stages :
        /\ stage'[q][t].state = stage[q][t].state
        /\ stage'[q][t].count = stage[q][t].count
        /\ stage'[q][t].owner = stage[q][t].owner
        /\ stage'[q][t].wait = stage[q][t].wait
        /\ stage[q][t].state # "Running" => stage'[q][t].left = stage[q][t].left
  BY DEF IInv, TypeOK, StageRow, RenewLease
<1>2. TypeOK'
  <2>1. stage[r][s] \in StageRow /\ LeaseTicks \in 0 .. LeaseTicks
    BY StageTypes, LeaseTicksAssumption DEF IInv
  <2>2. [stage[r][s] EXCEPT !.left = LeaseTicks] \in StageRow
    BY <2>1 DEF StageRow
  <2> QED
    BY <2>2 DEF IInv, TypeOK, RenewLease
<1>3. ASSUME NEW q \in Runs, NEW t \in Stages
      PROVE  /\ stage[q][t].state # "Running" => stage'[q][t].left = 0
             /\ stage[q][t].state # "RetryScheduled" => stage'[q][t].wait = 0
  BY <1>1 DEF IInv, LeaseCoherent, LeaseAgrees
<1>4. run' = run /\ attempt' = attempt
  BY DEF RenewLease
<1> QED
  BY <1>1, <1>2, <1>3, <1>4, TimersOnly

LEMMA LessRange == ASSUME NEW k \in Nat, NEW t \in 0 .. k PROVE Less(t) \in 0 .. k /\ (t = 0 => Less(t) = 0)
BY DEF Less

LEMMA ElapsedFields ==
  ASSUME NEW row
  PROVE  /\ Elapsed(row).state = row.state /\ Elapsed(row).count = row.count /\ Elapsed(row).owner = row.owner
         /\ Elapsed(row).left = Less(row.left) /\ Elapsed(row).wait = Less(row.wait)
BY DEF Elapsed

LEMMA TickIInv == ASSUME IInv, TimersElapse, UNCHANGED <<run, attempt>> PROVE IInv'
<1>1. \A q \in Runs, t \in Stages : stage'[q][t] = Elapsed(stage[q][t])
  BY DEF TimersElapse
<1>2. ASSUME NEW q \in Runs, NEW t \in Stages
      PROVE  /\ stage'[q][t] \in StageRow
             /\ stage[q][t].state # "Running" => stage'[q][t].left = 0
             /\ stage[q][t].state # "RetryScheduled" => stage'[q][t].wait = 0
  <2>1. /\ Less(stage[q][t].left) \in 0 .. LeaseTicks /\ (stage[q][t].left = 0 => Less(stage[q][t].left) = 0)
        /\ Less(stage[q][t].wait) \in 0 .. RetryTicks /\ (stage[q][t].wait = 0 => Less(stage[q][t].wait) = 0)
    <3>1. stage[q][t].left \in 0 .. LeaseTicks /\ stage[q][t].wait \in 0 .. RetryTicks
      BY StageTypes DEF IInv
    <3>2. LeaseTicks \in Nat /\ RetryTicks \in Nat
      BY LeaseTicksAssumption, RetryTicksAssumption
    <3> QED
      BY <3>1, <3>2, LessRange
  <2>2. stage'[q][t] \in StageRow
    <3>1. /\ stage[q][t].state \in StageStates /\ stage[q][t].count \in 0 .. MaxAttempts
          /\ stage[q][t].owner \in Owners
      BY StageTypes DEF IInv
    <3>2. Elapsed(stage[q][t]) \in StageRow
      BY <2>1, <3>1 DEF Elapsed, StageRow
    <3> QED
      BY <1>1, <3>2
  <2>3. LeaseAgrees(q, t)
    BY DEF IInv, LeaseCoherent
  <2>4. stage'[q][t].left = Less(stage[q][t].left) /\ stage'[q][t].wait = Less(stage[q][t].wait)
    BY <1>1, ElapsedFields
  <2> QED
    BY <2>1, <2>2, <2>3, <2>4 DEF LeaseAgrees
<1>3. TypeOK'
  <2>1. \A q \in Runs, t \in Stages : Elapsed(stage[q][t]) \in StageRow
    BY <1>1, <1>2
  <2> QED
    BY <2>1 DEF IInv, TypeOK, TimersElapse
<1>4. \A q \in Runs, t \in Stages : /\ stage'[q][t].state = stage[q][t].state
                                   /\ stage'[q][t].count = stage[q][t].count
                                   /\ stage'[q][t].owner = stage[q][t].owner
  BY <1>1, ElapsedFields
<1> QED
  BY <1>2, <1>3, <1>4, TimersOnly

(* The lease is live and its attempt open: it is the newest attempt of the *)
(* only Running stage, and the run row is the lease owner's.               *)
LEMMA LiveLease ==
  ASSUME IInv, NEW r \in Runs, NEW s \in Stages, NEW n \in Attempts,
         EnsureLease(r, s, n), AttemptOpen(r, s, n)
  PROVE  /\ n = stage[r][s].count
         /\ run[r].owner = attempt[r][s][n].owner /\ run[r].state = "Running"
         /\ \A t \in Stages : t # s => stage[r][t].state \notin {"Running", "RetryScheduled"}
<1>1. n = stage[r][s].count /\ LeaseHeld(r, s)
  BY RunningStage DEF EnsureLease, AttemptOpen
<1>2. ASSUME NEW t \in Stages PROVE stage[r][t].state # "RetryScheduled"
  BY <1>1 DEF IInv, RunMatchesStages, VerdictAgrees, LeaseHeld
<1> QED
  BY <1>1, <1>2 DEF LeaseHeld, EnsureLease

(* The lease in hand is given back: the stage leaves Running for sst, the *)
(* attempt for ast and the run row becomes row.                            *)
LEMMA EndLease ==
  ASSUME IInv, NEW r \in Runs, NEW s \in Stages, NEW n \in Attempts,
         NEW ast \in {"Completed", "Failed", "Cancelled"},
         NEW sst \in {"Completed", "RetryScheduled", "Failed", "Cancelled"},
         NEW rst \in {"Running", "Queued", "Failed", "Cancelled"},
         NEW cp \in SUBSET Stages, NEW w \in 0 .. RetryTicks,
         ast = "Completed" <=> sst = "Completed",
         sst = "RetryScheduled" => rst = "Queued" /\ n < MaxAttempts,
         rst \in {"Failed", "Cancelled"} => sst = rst,
         sst # "RetryScheduled" => w = 0,
         EnsureLease(r, s, n), FinishAttempt(r, s, n, ast),
         stage' = [stage EXCEPT ![r][s] = Released(@, sst, w)],
         run' = [run EXCEPT ![r] = [state |-> rst, owner |-> NoSession, checkpoint |-> cp]]
  PROVE  IInv'
<1>1. /\ n = stage[r][s].count
      /\ run[r].state = "Running"
      /\ \A t \in Stages : t # s => stage[r][t].state \notin {"Running", "RetryScheduled"}
  BY LiveLease DEF FinishAttempt
<1>2. TypeOK'
  <2>1. [state |-> rst, owner |-> NoSession, checkpoint |-> cp] \in RunRow
    BY DEF RunRow, RunStates, Owners
  <2>2. Released(stage[r][s], sst, w) \in StageRow
    BY StageTypes, LeaseTicksAssumption DEF IInv, Released, StageRow, StageStates, Owners
  <2>3. [attempt[r][s][n] EXCEPT !.state = ast] \in AttemptRow
    <3>1. attempt[r][s][n] \in AttemptRow
      BY DEF IInv, TypeOK
    <3> QED
      BY <3>1 DEF AttemptRow, AttemptStates
  <2> QED
    BY <2>1, <2>2, <2>3 DEF IInv, TypeOK, FinishAttempt
<1>3. \A q \in Runs : q # r => run'[q] = run[q] /\ stage'[q] = stage[q] /\ attempt'[q] = attempt[q]
  BY DEF IInv, TypeOK, FinishAttempt
<1>4. /\ run'[r].state = rst
      /\ stage'[r][s].state = sst /\ stage'[r][s].count = n /\ stage'[r][s].owner = NoSession
      /\ stage'[r][s].left = 0 /\ stage'[r][s].wait = w
      /\ attempt'[r][s][n].state = ast
  BY <1>1 DEF IInv, TypeOK, AttemptRow, FinishAttempt, Released
<1>5. /\ \A t \in Stages : t # s => stage'[r][t] = stage[r][t] /\ attempt'[r][t] = attempt[r][t]
      /\ \A m \in Attempts : m # n => attempt'[r][s][m] = attempt[r][s][m]
  BY DEF IInv, TypeOK, FinishAttempt
<1>6. ASSUME NEW t \in Stages PROVE LeaseAgrees(r, t)'
  <2>0. LeaseAgrees(r, t)
    BY DEF IInv, LeaseCoherent
  <2>1. CASE t = s
    BY <2>0, <2>1, <1>1, <1>4, <1>5 DEF LeaseAgrees, EnsureLease
  <2>2. CASE t # s
    BY <2>0, <2>2, <1>1, <1>5 DEF LeaseAgrees
  <2> QED
    BY <2>1, <2>2
<1>7. ASSUME NEW t \in Stages PROVE LedgerAgrees(r, t)'
  <2>0. LedgerAgrees(r, t)
    BY DEF IInv, AttemptLedger
  <2>1. CASE t = s
    BY <2>0, <2>1, <1>1, <1>4, <1>5 DEF LedgerAgrees, EnsureLease, Attempts
  <2>2. CASE t # s
    BY <2>0, <2>2, <1>5 DEF LedgerAgrees
  <2> QED
    BY <2>1, <2>2
<1>8. ASSUME NEW t \in Stages PROVE InOrder(r, t)'
  <2>1. \A u \in Stages : stage[r][u].state = "Completed" => stage'[r][u].state = "Completed"
    BY <1>5 DEF EnsureLease
  <2>2. stage'[r][t].count > 0 => stage[r][t].count > 0
    BY <1>1, <1>4, <1>5
  <2>3. stage'[r][t].count > 0 => PriorsCompleted(r, t)
    BY <2>2 DEF IInv, StagesInOrder, InOrder
  <2> QED
    BY <2>1, <2>3 DEF InOrder, PriorsCompleted
<1>9. VerdictAgrees(r)'
  BY <1>1, <1>4, <1>5 DEF VerdictAgrees
<1> QED
  BY <1>2, <1>3, <1>6, <1>7, <1>8, <1>9, OneRun

LEMMA CompleteIInv ==
  ASSUME IInv, NEW r \in Runs, NEW s \in Stages, NEW n \in Attempts, NEW cp \in SUBSET Stages,
         CompleteStage(r, s, n, cp)
  PROVE  IInv'
<1>1. EnsureLease(r, s, n) /\ FinishAttempt(r, s, n, "Completed")
  BY DEF CompleteStage
<1>2. run[r].owner = attempt[r][s][n].owner /\ run[r].state = "Running"
  BY <1>1, LiveLease DEF FinishAttempt
<1>3. run' = [run EXCEPT ![r] = [state |-> "Running", owner |-> NoSession, checkpoint |-> cp]]
  BY <1>2 DEF CompleteStage, RunFollows
<1>4. stage[r][s].wait = 0
  BY <1>1, RunningStage DEF EnsureLease
<1>5. stage' = [stage EXCEPT ![r][s] = Released(@, "Completed", 0)]
  BY <1>4 DEF CompleteStage, Released
<1>6. 0 \in 0 .. RetryTicks
  BY RetryTicksAssumption
<1> QED
  BY <1>1, <1>3, <1>5, <1>6, EndLease

LEMMA FinishIInv ==
  ASSUME IInv, NEW r \in Runs, NEW s \in Stages, NEW n \in Attempts,
         NEW ast \in {"Failed", "Cancelled"},
         NEW sst \in {"RetryScheduled", "Failed", "Cancelled"},
         NEW rst \in {"Queued", "Failed", "Cancelled"},
         rst = IF sst = "RetryScheduled" THEN "Queued" ELSE sst,
         sst = "RetryScheduled" => n < MaxAttempts,
         FinishStage(r, s, n, ast, sst, rst)
  PROVE  IInv'
<1> DEFINE w == IF sst = "RetryScheduled" THEN RetryTicks ELSE 0
<1>1. EnsureLease(r, s, n) /\ FinishAttempt(r, s, n, ast)
  BY DEF FinishStage
<1>2. run[r].owner = attempt[r][s][n].owner
  BY <1>1, LiveLease DEF FinishAttempt
<1>3. run' = [run EXCEPT ![r] = [state |-> rst, owner |-> NoSession, checkpoint |-> run[r].checkpoint]]
  BY <1>2 DEF FinishStage, RunFollows
<1>4. stage' = [stage EXCEPT ![r][s] = Released(@, sst, w)]
  BY DEF FinishStage
<1>5. w \in 0 .. RetryTicks /\ run[r].checkpoint \in SUBSET Stages
  BY RetryTicksAssumption, RunTypes DEF IInv
<1>6. sst # "RetryScheduled" => w = 0
  OBVIOUS
<1> HIDE DEF w
<1> QED
  BY <1>1, <1>3, <1>4, <1>5, <1>6, EndLease

LEMMA FailIInv ==
  ASSUME IInv, NEW r \in Runs, NEW s \in Stages, NEW n \in Attempts, NEW retryable \in BOOLEAN,
         FailStage(r, s, n, retryable)
  PROVE  IInv'
<1>1. CASE retryable /\ n < MaxAttempts
  <2>1. FinishStage(r, s, n, "Failed", "RetryScheduled", "Queued")
    BY <1>1 DEF FailStage
  <2> QED
    BY <1>1, <2>1, FinishIInv
<1>2. CASE ~(retryable /\ n < MaxAttempts)
  <2>1. FinishStage(r, s, n, "Failed", "Failed", "Failed")
    BY <1>2 DEF FailStage
  <2> QED
    BY <2>1, FinishIInv
<1> QED
  BY <1>1, <1>2

LEMMA CancelIInv ==
  ASSUME IInv, NEW r \in Runs, NEW s \in Stages, NEW n \in Attempts, CancelStage(r, s, n)
  PROVE  IInv'
BY FinishIInv DEF CancelStage

LEMMA RunReleased ==
  ASSUME run \in [Runs -> RunRow], NEW r \in Runs, NEW s \in RunStates,
         run' = [run EXCEPT ![r].state = s, ![r].owner = NoSession]
  PROVE  run' \in [Runs -> RunRow]
<1> DEFINE row == [run[r] EXCEPT !.state = s, !.owner = NoSession]
<1>1. run[r] \in RunRow OBVIOUS
<1>2. row \in RunRow BY <1>1 DEF RunRow, Owners
<1>3. run' = [run EXCEPT ![r] = row] OBVIOUS
<1> HIDE DEF row
<1> QED BY <1>2, <1>3

LEMMA RequeueIInv == ASSUME IInv, NEW r \in Runs, RequeueIncomplete(r) PROVE IInv'
<1> DEFINE Q == Requeueable(r)
<1>1. PICK u \in Stages : u \in Q
  BY DEF RequeueIncomplete, Requeueable
<1>2. stage[r][u].state \in {"Failed", "Cancelled"} /\ stage[r][u].count > 0
  BY <1>1, StageTypes DEF Requeueable, IInv, AttemptLedger, LedgerAgrees
<1>3. TypeOK'
  <2>1. \A t \in Stages : Requeued(stage[r][t]) \in StageRow
    BY StageTypes, LeaseTicksAssumption, RetryTicksAssumption
       DEF IInv, Requeued, Released, StageRow, StageStates, Owners
  <2>2. \A t \in Stages : stage[r][t] \in StageRow
    BY StageTypes DEF IInv
  <2>3. [s \in Stages |-> IF s \in Q THEN Requeued(stage[r][s]) ELSE stage[r][s]] \in [Stages -> StageRow]
    BY <2>1, <2>2
  <2>4. stage' \in [Runs -> [Stages -> StageRow]]
    BY <2>3 DEF IInv, TypeOK, RequeueIncomplete
  <2>5. run' \in [Runs -> RunRow]
    <3>1. run' = [run EXCEPT ![r].state = "Queued", ![r].owner = NoSession]
      BY DEF RequeueIncomplete
    <3>2. "Queued" \in RunStates BY DEF RunStates
    <3> QED BY <3>1, <3>2, RunReleased DEF IInv, TypeOK
  <2> QED
    BY <2>4, <2>5 DEF IInv, TypeOK, RequeueIncomplete
<1>4. \A q \in Runs : q # r => run'[q] = run[q] /\ stage'[q] = stage[q] /\ attempt'[q] = attempt[q]
  BY DEF IInv, TypeOK, RequeueIncomplete
<1>5. run'[r].state = "Queued" /\ attempt' = attempt
  BY DEF IInv, TypeOK, RunRow, RequeueIncomplete
<1>6. \A t \in Stages : stage'[r][t] = IF t \in Q THEN Requeued(stage[r][t]) ELSE stage[r][t]
  BY DEF IInv, TypeOK, RequeueIncomplete
<1>7. ASSUME NEW t \in Stages
      PROVE  /\ t \in Q => stage[r][t].state \in {"Failed", "Cancelled"}
             /\ t \in Q => stage'[r][t].state = "Queued" /\ stage'[r][t].count = stage[r][t].count
             /\ t \in Q => stage'[r][t].owner = NoSession /\ stage'[r][t].left = 0 /\ stage'[r][t].wait = 0
             /\ t \notin Q => stage'[r][t] = stage[r][t]
             /\ stage[r][t].state # "Running"
  <2>1. stage[r][t].state # "Running"
    BY <1>2, OneOpenStage, RunningStage
  <2>2. t \in Q => stage[r][t].state \in {"Failed", "Cancelled"}
    BY DEF Requeueable
  <2>3. t \in Q => stage'[r][t] = Requeued(stage[r][t])
    BY <1>6
  <2>4. t \notin Q => stage'[r][t] = stage[r][t]
    BY <1>6
  <2> HIDE DEF Q
  <2> QED
    BY <2>1, <2>2, <2>3, <2>4 DEF Requeued, Released
<1> HIDE DEF Q
<1>8. ASSUME NEW t \in Stages PROVE LeaseAgrees(r, t)'
  <2>1. LeaseAgrees(r, t)
    BY DEF IInv, LeaseCoherent
  <2> QED
    BY <2>1, <1>5, <1>7 DEF LeaseAgrees
<1>9. ASSUME NEW t \in Stages PROVE LedgerAgrees(r, t)'
  <2>1. LedgerAgrees(r, t)
    BY DEF IInv, AttemptLedger
  <2> QED
    BY <2>1, <1>5, <1>7 DEF LedgerAgrees
<1>10. ASSUME NEW t \in Stages PROVE InOrder(r, t)'
  <2>1. InOrder(r, t)
    BY DEF IInv, StagesInOrder
  <2> QED
    BY <2>1, <1>7 DEF InOrder, PriorsCompleted
<1>11. VerdictAgrees(r)'
  BY <1>5 DEF VerdictAgrees
<1> QED
  BY <1>3, <1>4, <1>8, <1>9, <1>10, <1>11, OneRun

LEMMA CompleteRunIInv ==
  ASSUME IInv, NEW r \in Runs, NEW o \in Sessions, CompleteRun(r, o) PROVE IInv'
<1>1. TypeOK'
  <2>1. run' = [run EXCEPT ![r].state = "Completed", ![r].owner = NoSession]
    BY DEF CompleteRun
  <2>2. "Completed" \in RunStates BY DEF RunStates
  <2>3. run' \in [Runs -> RunRow] BY <2>1, <2>2, RunReleased DEF IInv, TypeOK
  <2> QED BY <2>3 DEF IInv, TypeOK, CompleteRun
<1>2. \A q \in Runs : q # r => run'[q] = run[q] /\ stage'[q] = stage[q] /\ attempt'[q] = attempt[q]
  BY DEF IInv, TypeOK, CompleteRun
<1>3. /\ run'[r].state = "Completed" /\ stage' = stage /\ attempt' = attempt
      /\ \A t \in Stages : stage[r][t].state = "Completed"
  BY DEF IInv, TypeOK, RunRow, CompleteRun, AllStagesCompleted
<1>4. ASSUME NEW t \in Stages PROVE LeaseAgrees(r, t)'
  BY <1>3 DEF IInv, LeaseCoherent, LeaseAgrees
<1>5. ASSUME NEW t \in Stages PROVE LedgerAgrees(r, t)' /\ InOrder(r, t)'
  BY <1>3 DEF IInv, AttemptLedger, LedgerAgrees, StagesInOrder, InOrder, PriorsCompleted
<1>6. VerdictAgrees(r)'
  BY <1>3 DEF VerdictAgrees, AllStagesCompleted
<1> QED
  BY <1>1, <1>2, <1>4, <1>5, <1>6, OneRun

(* Recovery interrupts the newest attempt of the one Running stage of a   *)
(* run, if the lease counts as lapsed, and nothing else.                   *)
LEMMA RecoverIInv == ASSUME IInv, NEW e \in BOOLEAN, RecoverLeases(e) PROVE IInv'
<1>1. \A r \in Runs, s \in Stages, n \in Attempts :
        Lapsed(r, s, n, e) <=>
          /\ stage[r][s].state = "Running" /\ n = stage[r][s].count
          /\ e => stage[r][s].left = 0
  BY DEF Lapsed, IInv, LeaseCoherent, LeaseAgrees
<1>2. ASSUME NEW r \in Runs, NEW s \in Stages
      PROVE  LapsedStage(r, s, e) <=> stage[r][s].state = "Running" /\ (e => stage[r][s].left = 0)
  BY <1>1, RunningStage DEF LapsedStage
<1>3. ASSUME NEW r \in Runs, NEW s \in Stages
      PROVE  /\ LapsedStage(r, s, e) => stage'[r][s] = Released(stage[r][s], "Queued", stage[r][s].wait)
             /\ ~LapsedStage(r, s, e) => stage'[r][s] = stage[r][s]
  BY DEF RecoverLeases
<1>4. ASSUME NEW r \in Runs, NEW s \in Stages, NEW n \in Attempts
      PROVE  /\ Lapsed(r, s, n, e) => attempt'[r][s][n].state = "Interrupted"
             /\ Lapsed(r, s, n, e) =>
                  attempt'[r][s][n] = [state |-> "Interrupted", owner |-> attempt[r][s][n].owner]
             /\ ~Lapsed(r, s, n, e) => attempt'[r][s][n] = attempt[r][s][n]
  BY DEF RecoverLeases
<1>5. ASSUME NEW r \in Runs
      PROVE  /\ (\E s \in Stages : LapsedStage(r, s, e)) =>
                  run'[r] = [state |-> "Queued", owner |-> NoSession, checkpoint |-> run[r].checkpoint]
             /\ (\A s \in Stages : ~LapsedStage(r, s, e)) => run'[r] = run[r]
  <2>1. ASSUME NEW s \in Stages, NEW n \in Attempts, Lapsed(r, s, n, e)
        PROVE  run[r].owner = attempt[r][s][n].owner
    BY <2>1, <1>1, RunningStage DEF LeaseHeld
  <2>2. (\E s \in Stages, n \in Attempts : Lapsed(r, s, n, e) /\ run[r].owner = attempt[r][s][n].owner)
        <=> \E s \in Stages : LapsedStage(r, s, e)
    BY <2>1 DEF LapsedStage
  <2> QED
    BY <2>2 DEF RecoverLeases
<1>6. TypeOK'
  <2>1. ASSUME NEW r \in Runs PROVE run'[r] \in RunRow
    <3>1. run[r] \in RunRow
      BY DEF IInv, TypeOK
    <3>2. [state |-> "Queued", owner |-> NoSession, checkpoint |-> run[r].checkpoint] \in RunRow
      BY RunTypes DEF IInv, RunRow, RunStates, Owners
    <3> QED
      BY <1>5, <3>1, <3>2
  <2>2. ASSUME NEW r \in Runs, NEW s \in Stages PROVE stage'[r][s] \in StageRow
    <3>1. stage[r][s] \in StageRow
      BY StageTypes DEF IInv
    <3>2. Released(stage[r][s], "Queued", stage[r][s].wait) \in StageRow
      BY StageTypes, LeaseTicksAssumption DEF IInv, Released, StageRow, StageStates, Owners
    <3> QED
      BY <1>3, <3>1, <3>2
  <2>3. ASSUME NEW r \in Runs, NEW s \in Stages, NEW n \in Attempts PROVE attempt'[r][s][n] \in AttemptRow
    <3>1. attempt[r][s][n] \in AttemptRow
      BY DEF IInv, TypeOK
    <3>2. [state |-> "Interrupted", owner |-> attempt[r][s][n].owner] \in AttemptRow
      BY <3>1 DEF AttemptRow, AttemptStates
    <3> QED
      BY <1>4, <3>1, <3>2
  <2> QED
    BY <2>1, <2>2, <2>3 DEF TypeOK, RecoverLeases
<1>7. ASSUME NEW r \in Runs, NEW s \in Stages
      PROVE  /\ LapsedStage(r, s, e) => stage[r][s].state = "Running"
             /\ LapsedStage(r, s, e) =>
                  stage'[r][s].state = "Queued" /\ stage'[r][s].owner = NoSession /\ stage'[r][s].left = 0
             /\ stage'[r][s].count = stage[r][s].count /\ stage'[r][s].wait = stage[r][s].wait
             /\ ~LapsedStage(r, s, e) => stage'[r][s] = stage[r][s] /\
                                         \A n \in Attempts : attempt'[r][s][n] = attempt[r][s][n]
             /\ LapsedStage(r, s, e) => \A n \in Attempts :
                  attempt'[r][s][n].state = IF n = stage[r][s].count THEN "Interrupted"
                                            ELSE attempt[r][s][n].state
  <2>1. LapsedStage(r, s, e) => \A n \in Attempts : Lapsed(r, s, n, e) <=> n = stage[r][s].count
    BY <1>1, <1>2
  <2>2. ~LapsedStage(r, s, e) => \A n \in Attempts : ~Lapsed(r, s, n, e)
    BY DEF LapsedStage
  <2>3. LapsedStage(r, s, e) => \A n \in Attempts :
          attempt'[r][s][n].state = IF n = stage[r][s].count THEN "Interrupted" ELSE attempt[r][s][n].state
    <3>1. \A n \in Attempts : LapsedStage(r, s, e) /\ n = stage[r][s].count => attempt'[r][s][n].state = "Interrupted"
      BY <1>4, <2>1
    <3>2. \A n \in Attempts : LapsedStage(r, s, e) /\ n # stage[r][s].count => attempt'[r][s][n] = attempt[r][s][n]
      BY <1>4, <2>1
    <3> QED
      BY <3>1, <3>2
  <2>4. ~LapsedStage(r, s, e) => \A n \in Attempts : attempt'[r][s][n] = attempt[r][s][n]
    BY <1>4, <2>2
  <2>5. LapsedStage(r, s, e) => /\ stage'[r][s].state = "Queued" /\ stage'[r][s].owner = NoSession
                                /\ stage'[r][s].left = 0 /\ stage'[r][s].count = stage[r][s].count
                                /\ stage'[r][s].wait = stage[r][s].wait
    BY <1>3, ReleasedFields
  <2> QED
    BY <1>2, <1>3, <2>3, <2>4, <2>5
<1>8. ASSUME NEW r \in Runs, NEW s \in Stages PROVE LeaseAgrees(r, s)'
  <2>0. LeaseAgrees(r, s)
    BY DEF IInv, LeaseCoherent
  <2>1. CASE LapsedStage(r, s, e)
    <3>1. \A n \in Attempts : attempt'[r][s][n].state # "Running"
      BY <2>0, <2>1, <1>7 DEF LeaseAgrees
    <3> QED
      BY <2>0, <2>1, <3>1, <1>7 DEF LeaseAgrees
  <2>2. CASE ~LapsedStage(r, s, e) /\ stage[r][s].state = "Running"
    <3>1. \A t \in Stages : ~LapsedStage(r, t, e)
      BY <2>0, <2>2, <1>7 DEF LeaseAgrees, LeaseHeld
    <3>2. run'[r] = run[r]
      BY <3>1, <1>5
    <3>3. stage[r][s].count \in Attempts
      BY <2>2, RunningStage
    <3>4. LeaseHeld(r, s)'
      BY <2>0, <2>2, <3>1, <3>2, <3>3, <1>7 DEF LeaseAgrees, LeaseHeld
    <3> QED
      BY <2>0, <2>2, <3>4, <1>7 DEF LeaseAgrees
  <2>3. CASE ~LapsedStage(r, s, e) /\ stage[r][s].state # "Running"
    BY <2>0, <2>3, <1>7 DEF LeaseAgrees
  <2> QED
    BY <2>1, <2>2, <2>3
<1>9. ASSUME NEW r \in Runs, NEW s \in Stages PROVE LedgerAgrees(r, s)'
  <2>0. LedgerAgrees(r, s)
    BY DEF IInv, AttemptLedger
  <2>1. CASE LapsedStage(r, s, e)
    BY <2>0, <2>1, <1>7, StageTypes DEF IInv, LedgerAgrees, Attempts
  <2>2. CASE ~LapsedStage(r, s, e)
    BY <2>0, <2>2, <1>7 DEF LedgerAgrees
  <2> QED
    BY <2>1, <2>2
<1>10. ASSUME NEW r \in Runs, NEW s \in Stages PROVE InOrder(r, s)'
  <2>1. InOrder(r, s)
    BY DEF IInv, StagesInOrder
  <2>2. \A t \in Stages : stage[r][t].state = "Completed" => stage'[r][t].state = "Completed"
    BY <1>7
  <2> QED
    BY <2>1, <2>2, <1>7 DEF InOrder, PriorsCompleted
<1>11. ASSUME NEW r \in Runs PROVE VerdictAgrees(r)'
  <2>0. VerdictAgrees(r)
    BY DEF IInv, RunMatchesStages
  <2>1. CASE \E s \in Stages : LapsedStage(r, s, e)
    <3>0. [state |-> "Queued", owner |-> NoSession, checkpoint |-> run[r].checkpoint].state = "Queued"
      OBVIOUS
    <3>1. run'[r].state = "Queued"
      BY <2>1, <3>0, <1>5, Zenon
    <3> QED
      BY <3>1 DEF VerdictAgrees
  <2>2. CASE \A s \in Stages : ~LapsedStage(r, s, e)
    <3>1. run'[r] = run[r] /\ \A s \in Stages : stage'[r][s] = stage[r][s]
      BY <2>2, <1>5, <1>7
    <3> QED
      BY <2>0, <3>1 DEF VerdictAgrees, AllStagesCompleted
  <2> QED
    BY <2>1, <2>2
<1> QED
  BY <1>6, <1>8, <1>9, <1>10, <1>11 DEF IInv, LeaseCoherent, AttemptLedger, StagesInOrder, RunMatchesStages

-----------------------------------------------------------------------------
LEMMA NextIInv == IInv /\ [Next]_vars => IInv'
<1> SUFFICES ASSUME IInv, [Next]_vars PROVE IInv'
  OBVIOUS
<1>1. ASSUME NEW r \in Runs, Create(r) PROVE IInv'
  BY <1>1, CreateIInv
<1>2. ASSUME NEW r \in Runs, RequeueIncomplete(r) PROVE IInv'
  BY <1>2, RequeueIInv
<1>3. ASSUME NEW r \in Runs, NEW s \in Stages, NEW o \in Sessions, TryAcquireNext(r, s, o) PROVE IInv'
  BY <1>3, AcquireIInv
<1>4. ASSUME NEW r \in Runs, NEW s \in Stages, NEW n \in Attempts, LeaseStep(r, s, n) PROVE IInv'
  <2>1. CompletedStages(r) \cup {s} \in SUBSET Stages
    BY DEF CompletedStages
  <2> QED
    BY <1>4, <2>1, RenewIInv, CompleteIInv, FailIInv, CancelIInv DEF LeaseStep
<1>5. ASSUME NEW r \in Runs, NEW o \in Sessions, CompleteRun(r, o) PROVE IInv'
  BY <1>5, CompleteRunIInv
<1>6. CASE RecoverExpiredLeases
  BY <1>6, RecoverIInv DEF RecoverExpiredLeases
<1>7. CASE RecoverStaleLeases
  BY <1>7, RecoverIInv DEF RecoverStaleLeases
<1>8. CASE Tick
  BY <1>8, TickIInv DEF Tick
<1>9. CASE UNCHANGED vars
  BY <1>9 DEF vars, IInv, TypeOK, LeaseCoherent, LeaseAgrees, LeaseHeld, AttemptLedger, LedgerAgrees,
     StagesInOrder, InOrder, PriorsCompleted, RunMatchesStages, VerdictAgrees, AllStagesCompleted
<1> QED
  BY <1>1, <1>2, <1>3, <1>4, <1>5, <1>6, <1>7, <1>8, <1>9 DEF Next

THEOREM InductiveInvariant == Spec => []IInv
BY InitIInv, NextIInv, PTL DEF Spec

(* The three tables keep their types and a stage never counts more        *)
(* attempts than MaxAttempts.                                              *)
THEOREM TypeCorrect == Spec => []TypeOK
<1>1. IInv => TypeOK
  BY DEF IInv
<1> QED
  BY <1>1, InductiveInvariant, PTL

(* Run, stage and attempt agree on who holds the one lease of a run.      *)
THEOREM LeaseAlwaysCoherent == Spec => []LeaseCoherent
<1>1. IInv => LeaseCoherent
  BY DEF IInv
<1> QED
  BY <1>1, InductiveInvariant, PTL

(* The attempts of a stage are numbered without a gap and at most one,    *)
(* the newest, ever completes.                                             *)
THEOREM LedgerAlwaysAgrees == Spec => []AttemptLedger
<1>1. IInv => AttemptLedger
  BY DEF IInv
<1> QED
  BY <1>1, InductiveInvariant, PTL

(* No stage is attempted before every earlier stage is Completed.         *)
THEOREM StagesAlwaysInOrder == Spec => []StagesInOrder
<1>1. IInv => StagesInOrder
  BY DEF IInv
<1> QED
  BY <1>1, InductiveInvariant, PTL

(* The state of a run is the verdict on its stages.                       *)
THEOREM VerdictAlwaysAgrees == Spec => []RunMatchesStages
<1>1. IInv => RunMatchesStages
  BY DEF IInv
<1> QED
  BY <1>1, InductiveInvariant, PTL

-----------------------------------------------------------------------------
(* What a step may do to the history.                                     *)

(* Ending a lease touches the Running stage and its open attempt only.    *)
LEMMA EndLeaseFrame ==
  ASSUME IInv, NEW r \in Runs, NEW s \in Stages, NEW n \in Attempts,
         NEW ast, EnsureLease(r, s, n), FinishAttempt(r, s, n, ast)
  PROVE  /\ n = stage[r][s].count /\ stage[r][s].state = "Running" /\ stage[r][s].left > 0
         /\ attempt[r][s][n].state = "Running" /\ attempt'[r][s][n].state = ast
         /\ \A q \in Runs, t \in Stages, m \in Attempts :
              ~(q = r /\ t = s /\ m = n) => attempt'[q][t][m] = attempt[q][t][m]
<1>1. n = stage[r][s].count
  BY LiveLease DEF FinishAttempt
<1>2. stage[r][s].state = "Running" /\ stage[r][s].left > 0 /\ attempt[r][s][n].state = "Running"
  BY DEF EnsureLease, FinishAttempt, AttemptOpen
<1>3. \A q \in Runs, t \in Stages, m \in Attempts :
        ~(q = r /\ t = s /\ m = n) => attempt'[q][t][m] = attempt[q][t][m]
  BY DEF IInv, TypeOK, FinishAttempt
<1>4. attempt'[r][s][n].state = ast
  BY DEF IInv, TypeOK, AttemptRow, FinishAttempt
<1> QED
  BY <1>1, <1>2, <1>3, <1>4

(* A run that was completed has all its outputs, so that no transaction    *)
(* finds a stage of it to take up, to conclude, to requeue or to recover.  *)
LEMMA RunStaysCompleted ==
  ASSUME IInv, Next, NEW q \in Runs, run[q].state = "Completed"
  PROVE  run'[q].state = "Completed"
<1>1. \A s \in Stages : stage[q][s].state = "Completed"
  BY DEF IInv, RunMatchesStages, VerdictAgrees, AllStagesCompleted
<1>2. ASSUME NEW r \in Runs, Create(r) \/ RequeueIncomplete(r) PROVE run'[q] = run[q]
  BY <1>2 DEF Create, RequeueIncomplete, IInv, TypeOK, RunRow
<1>3. ASSUME NEW r \in Runs, NEW s \in Stages, NEW o \in Sessions, TryAcquireNext(r, s, o)
      PROVE  run'[q] = run[q]
  BY <1>1, <1>3 DEF TryAcquireNext, Ready, IInv, TypeOK
<1>4. ASSUME NEW r \in Runs, NEW s \in Stages, NEW n \in Attempts, LeaseStep(r, s, n)
      PROVE  run'[q] = run[q]
  <2>1. r # q
    BY <1>1, <1>4 DEF LeaseStep, RenewLease, CompleteStage, FailStage, CancelStage, FinishStage, EnsureLease
  <2>2. CASE RenewLease(r, s, n)
    BY <2>2 DEF RenewLease
  <2>3. ASSUME NEW row, RunFollows(r, s, n, row) PROVE run'[q] = run[q]
    BY <2>1, <2>3 DEF RunFollows, IInv, TypeOK
  <2> QED
    BY <1>4, <2>2, <2>3 DEF LeaseStep, CompleteStage, FailStage, CancelStage, FinishStage
<1>5. ASSUME NEW r \in Runs, NEW o \in Sessions, CompleteRun(r, o)
      PROVE  run'[q].state = "Completed"
  BY <1>5 DEF CompleteRun, IInv, TypeOK, RunRow
<1>6. ASSUME NEW e, RecoverLeases(e) PROVE run'[q] = run[q]
  BY <1>1, <1>6 DEF RecoverLeases, Lapsed
<1>7. CASE Tick
  BY <1>7 DEF Tick
<1> QED
  BY <1>2, <1>3, <1>4, <1>5, <1>6, <1>7 DEF Next, RecoverExpiredLeases, RecoverStaleLeases

(* A stage is never requeued, recovered or acquired again once Completed,  *)
(* an attempt never changes once ended, and ends, other than by a          *)
(* recovery, only under its own live lease.                                *)
LEMMA HistoryStep ==
  ASSUME IInv, Next, NEW q \in Runs, NEW t \in Stages
  PROVE  HistoryKept(q, t) /\ ConclusionsLive(q, t)
<1> DEFINE Kept == HistoryKept(q, t) /\ ConclusionsLive(q, t)
<1>0. /\ run[q].state = "Completed" => run'[q].state = "Completed"
      /\ stage[q][t].count \in Nat
  BY RunStaysCompleted, StageTypes DEF IInv
<1>1. ASSUME \/ stage'[q][t].state = stage[q][t].state
             \/ stage'[q][t].state \notin Ended \cup {"RetryScheduled"},
             stage'[q][t].count >= stage[q][t].count,
             stage[q][t].state = "Completed" => stage'[q][t] = stage[q][t],
             \A m \in Attempts :
               \/ attempt'[q][t][m] = attempt[q][t][m]
               \/ attempt[q][t][m].state \in {"None", "Running"} /\ attempt'[q][t][m].state \notin Ended
      PROVE  Kept
  <2>1. \A m \in Attempts : ~Concludes(q, t, m)
    BY <1>1 DEF Concludes
  <2>2. \A m \in Attempts : attempt[q][t][m].state \notin {"None", "Running"} =>
                             attempt'[q][t][m] = attempt[q][t][m]
    BY <1>1
  <2> QED
    BY <1>0, <1>1, <2>1, <2>2 DEF HistoryKept, ConclusionsLive
<1>2. ASSUME UNCHANGED <<stage, attempt>> PROVE Kept
  BY <1>0, <1>1, <1>2
<1>3. ASSUME NEW r \in Runs, RequeueIncomplete(r) PROVE Kept
  <2>1. attempt' = attempt
    BY <1>3 DEF RequeueIncomplete
  <2>2. \/ stage'[q][t] = stage[q][t]
        \/ stage[q][t].state # "Completed" /\ stage'[q][t] = Released(stage[q][t], "Queued", 0)
    BY <1>3 DEF IInv, TypeOK, RequeueIncomplete, Requeueable, Requeued
  <2> QED
    BY <1>0, <1>1, <2>1, <2>2, ReleasedFields DEF Ended
<1>4. ASSUME NEW r \in Runs, NEW s \in Stages, NEW o \in Sessions, TryAcquireNext(r, s, o) PROVE Kept
  <2>1. stage[r][s].state # "Completed" /\ stage[r][s].count + 1 \in Attempts
    BY <1>4, StageTypes, MaxAttemptsAssumption DEF IInv, TryAcquireNext, Ready, Attempts
  <2>2. attempt[r][s][stage[r][s].count + 1].state = "None"
    BY <2>1, StageTypes DEF IInv, AttemptLedger, LedgerAgrees
  <2>3. \/ stage'[q][t] = stage[q][t]
        \/ /\ stage[q][t].state # "Completed" /\ stage'[q][t].state = "Running"
           /\ stage'[q][t].count = stage[q][t].count + 1
    BY <1>4, <2>1 DEF IInv, TypeOK, TryAcquireNext
  <2>4. \A m \in Attempts :
          \/ attempt'[q][t][m] = attempt[q][t][m]
          \/ attempt[q][t][m].state = "None" /\ attempt'[q][t][m].state = "Running"
    BY <1>4, <2>1, <2>2 DEF IInv, TypeOK, TryAcquireNext
  <2> QED
    BY <1>0, <1>1, <2>3, <2>4 DEF Ended
<1>5. ASSUME NEW r \in Runs, NEW s \in Stages, NEW n \in Attempts, RenewLease(r, s, n) PROVE Kept
  <2>1. \/ stage'[q][t] = stage[q][t]
        \/ /\ stage[q][t].state = "Running" /\ stage'[q][t].state = "Running"
           /\ stage'[q][t].count = stage[q][t].count
    BY <1>5 DEF IInv, TypeOK, StageRow, RenewLease
  <2>2. attempt' = attempt
    BY <1>5 DEF RenewLease
  <2> QED
    BY <1>0, <1>1, <2>1, <2>2
<1>6. ASSUME NEW r \in Runs, NEW s \in Stages, NEW n \in Attempts, NEW ast \in Ended, NEW sst, NEW w,
             EnsureLease(r, s, n), FinishAttempt(r, s, n, ast),
             stage' = [stage EXCEPT ![r][s] = Released(@, sst, w)]
      PROVE  Kept
  <2>1. /\ n = stage[r][s].count /\ stage[r][s].state = "Running" /\ stage[r][s].left > 0
        /\ attempt[r][s][n].state = "Running" /\ attempt'[r][s][n].state = ast
        /\ \A m \in Attempts : ~(q = r /\ t = s /\ m = n) => attempt'[q][t][m] = attempt[q][t][m]
    BY <1>6, EndLeaseFrame
  <2>2. /\ stage'[r][s].count = stage[r][s].count
        /\ ~(q = r /\ t = s) => stage'[q][t] = stage[q][t]
    BY <1>6, ReleasedFields DEF IInv, TypeOK
  <2>3. CASE q = r /\ t = s
    <3>1. Concludes(q, t, n)
      BY <2>1, <2>3 DEF Concludes, Ended
    <3>2. \A m \in Attempts : m # n => ~Concludes(q, t, m)
      BY <2>1, <2>3 DEF Concludes
    <3> QED
      BY <1>0, <2>1, <2>2, <2>3, <3>1, <3>2 DEF HistoryKept, ConclusionsLive
  <2>4. CASE ~(q = r /\ t = s)
    BY <1>0, <1>1, <2>1, <2>2, <2>4
  <2> QED
    BY <2>3, <2>4
<1>7. ASSUME NEW r \in Runs, NEW s \in Stages, NEW n \in Attempts, NEW cp, CompleteStage(r, s, n, cp)
      PROVE  Kept
  <2>1. stage' = [stage EXCEPT ![r][s] = Released(stage[r][s], "Completed", stage[r][s].wait)]
    BY <1>7 DEF CompleteStage
  <2>2. EnsureLease(r, s, n) /\ FinishAttempt(r, s, n, "Completed") /\ "Completed" \in Ended
    BY <1>7 DEF CompleteStage, Ended
  <2> QED
    BY <1>6, <2>1, <2>2
<1>8. ASSUME NEW r \in Runs, NEW s \in Stages, NEW n \in Attempts,
             NEW ast \in {"Failed", "Cancelled"}, NEW sst, NEW rst, FinishStage(r, s, n, ast, sst, rst)
      PROVE  Kept
  <2>1. stage' = [stage EXCEPT ![r][s] = Released(stage[r][s], sst, IF sst = "RetryScheduled" THEN RetryTicks ELSE 0)]
    BY <1>8 DEF FinishStage
  <2>2. EnsureLease(r, s, n) /\ FinishAttempt(r, s, n, ast) /\ ast \in Ended
    BY <1>8 DEF FinishStage, Ended
  <2> QED
    BY <1>6, <2>1, <2>2
<1>9. ASSUME NEW e \in BOOLEAN, RecoverLeases(e) PROVE Kept
  <2>1. \/ stage'[q][t] = stage[q][t]
        \/ stage[q][t].state = "Running" /\ stage'[q][t] = Released(stage[q][t], "Queued", stage[q][t].wait)
    BY <1>9 DEF RecoverLeases, LapsedStage, Lapsed
  <2>2. \A m \in Attempts :
          \/ attempt'[q][t][m] = attempt[q][t][m]
          \/ attempt[q][t][m].state = "Running" /\ attempt'[q][t][m].state = "Interrupted"
    BY <1>9 DEF RecoverLeases, Lapsed
  <2> QED
    BY <1>0, <1>1, <2>1, <2>2, ReleasedFields DEF Ended
<1>10. ASSUME Tick PROVE Kept
  <2>1. stage'[q][t] = Elapsed(stage[q][t]) /\ attempt' = attempt
    BY <1>10 DEF Tick, TimersElapse
  <2>2. stage[q][t].state = "Completed" => stage[q][t].left = 0 /\ stage[q][t].wait = 0
    BY DEF IInv, LeaseCoherent, LeaseAgrees
  <2>3. stage[q][t].state = "Completed" => Elapsed(stage[q][t]) = stage[q][t]
    <3>1. stage[q][t] \in StageRow
      BY StageTypes DEF IInv
    <3> QED
      BY <2>2, <3>1 DEF StageRow, Elapsed, Less
  <2>4. stage'[q][t].state = stage[q][t].state /\ stage'[q][t].count = stage[q][t].count
    BY <2>1, ElapsedFields
  <2> QED
    BY <1>0, <1>1, <2>1, <2>3, <2>4
<1> HIDE DEF Kept
<1>11. Kept
  <2>1. ASSUME NEW r \in Runs, NEW s \in Stages, NEW n \in Attempts, LeaseStep(r, s, n) PROVE Kept
    BY <1>5, <1>7, <1>8, <2>1 DEF LeaseStep, FailStage, CancelStage
  <2>2. ASSUME NEW r \in Runs, NEW o \in Sessions, Create(r) \/ CompleteRun(r, o) PROVE Kept
    BY <1>2, <2>2 DEF Create, CompleteRun
  <2>3. ASSUME NEW r \in Runs, Create(r) PROVE Kept
    BY <1>2, <2>3 DEF Create
  <2>4. CASE RecoverExpiredLeases \/ RecoverStaleLeases
    BY <1>9, <2>4 DEF RecoverExpiredLeases, RecoverStaleLeases
  <2> QED
    BY <1>3, <1>4, <1>10, <2>1, <2>2, <2>3, <2>4 DEF Next
<1> QED
  BY <1>11 DEF Kept

(* A committed output and an ended attempt are never touched again, a     *)
(* completed run stays completed and no attempt is ever uncounted.        *)
THEOREM HistoryAlwaysFinal == Spec => HistoryIsFinal
<1>1. IInv /\ [Next]_vars => [\A r \in Runs, s \in Stages : HistoryKept(r, s)]_vars
  BY HistoryStep
<1> QED
  BY <1>1, InductiveInvariant, PTL DEF Spec, HistoryIsFinal

(* Only the holder of the newest lease, not expired, concludes a stage    *)
(* and its attempt: with an output, a failure or a cancellation.          *)
THEOREM ConclusionsAlwaysLive == Spec => OnlyLiveLeaseConcludes
<1>1. IInv /\ [Next]_vars => [\A r \in Runs, s \in Stages : ConclusionsLive(r, s)]_vars
  BY HistoryStep
<1> QED
  BY <1>1, InductiveInvariant, PTL DEF Spec, OnlyLiveLeaseConcludes

-----------------------------------------------------------------------------
(***************************************************************************)
(* The job queue implements StagedRun, for any value of the constants:     *)
(* every transaction of JobRepository is a step of StagedRun or changes    *)
(* nothing that StagedRun speaks of.                                       *)
(***************************************************************************)
doneBar    == [r \in Runs |-> CompletedStages(r)]
workingBar == [r \in Runs |-> RunningIn(attempt[r])]
triesBar   == [r \in Runs |-> [s \in Stages |-> stage[r][s].count]]
closedBar  == {r \in Runs : run[r].state = "Completed"}

(* The four abstract variables stay as they are. *)
Stutters == /\ doneBar' = doneBar /\ workingBar' = workingBar
            /\ triesBar' = triesBar /\ closedBar' = closedBar

-----------------------------------------------------------------------------
(* The attempts in progress of a run, read off its attempt rows.          *)
LEMMA NoneRunning ==
  ASSUME NEW rows, \A s \in Stages, n \in Attempts : rows[s][n].state # "Running"
  PROVE  RunningIn(rows) = {}
BY DEF RunningIn

LEMMA OneRunning ==
  ASSUME NEW rows, NEW s \in Stages, NEW n \in Attempts,
         \A t \in Stages, m \in Attempts : rows[t][m].state = "Running" <=> t = s /\ m = n
  PROVE  RunningIn(rows) = {<<s, n>>}
<1>1. ASSUME NEW x \in RunningIn(rows) PROVE x = <<s, n>>
  BY <1>1 DEF RunningIn
<1>2. <<s, n>> \in RunningIn(rows)
  BY DEF RunningIn
<1> QED
  BY <1>1, <1>2

LEMMA WorkingOne ==
  ASSUME IInv, NEW r \in Runs, NEW s \in Stages, stage[r][s].state = "Running"
  PROVE  RunningIn(attempt[r]) = {<<s, stage[r][s].count>>}
<1>1. stage[r][s].count \in Attempts /\ LeaseHeld(r, s)
  BY RunningStage
<1>2. ASSUME NEW t \in Stages, NEW m \in Attempts
      PROVE  attempt[r][t][m].state = "Running" <=> t = s /\ m = stage[r][s].count
  BY <1>1 DEF IInv, LeaseCoherent, LeaseAgrees, LeaseHeld
<1> QED
  BY <1>1, <1>2, OneRunning

LEMMA WorkingNone ==
  ASSUME IInv, NEW r \in Runs, \A s \in Stages : stage[r][s].state # "Running"
  PROVE  RunningIn(attempt[r]) = {}
<1>1. ASSUME NEW s \in Stages, NEW n \in Attempts PROVE attempt[r][s][n].state # "Running"
  BY DEF IInv, LeaseCoherent, LeaseAgrees
<1> QED
  BY <1>1, NoneRunning

(* Enough for a step to be invisible.                                     *)
LEMMA Invisible ==
  ASSUME attempt' = attempt,
         \A r \in Runs : (run'[r].state = "Completed") <=> (run[r].state = "Completed"),
         \A r \in Runs, s \in Stages :
           /\ stage'[r][s].count = stage[r][s].count
           /\ (stage'[r][s].state = "Completed") <=> (stage[r][s].state = "Completed")
  PROVE  Stutters
<1>1. \A r \in Runs : CompletedStages(r)' = CompletedStages(r)
  BY DEF CompletedStages
<1>2. doneBar' = doneBar
  BY <1>1 DEF doneBar
<1>3. triesBar' = triesBar
  BY DEF triesBar
<1>4. workingBar' = workingBar /\ closedBar' = closedBar
  BY DEF workingBar, closedBar
<1> QED
  BY <1>2, <1>3, <1>4 DEF Stutters

-----------------------------------------------------------------------------
LEMMA CreateStutters == ASSUME IInv, NEW r \in Runs, Create(r) PROVE Stutters
<1>1. \A q \in Runs : (run'[q].state = "Completed") <=> (run[q].state = "Completed")
  BY DEF IInv, TypeOK, RunRow, Create
<1> QED
  BY <1>1, Invisible DEF Create

LEMMA RenewStutters ==
  ASSUME IInv, NEW r \in Runs, NEW s \in Stages, NEW n \in Attempts, RenewLease(r, s, n)
  PROVE  Stutters
<1>1. \A q \in Runs, t \in Stages : /\ stage'[q][t].count = stage[q][t].count
                                   /\ stage'[q][t].state = stage[q][t].state
  BY DEF IInv, TypeOK, StageRow, RenewLease
<1> QED
  BY <1>1, Invisible DEF RenewLease

LEMMA TickStutters == ASSUME IInv, Tick PROVE Stutters
<1>1. \A q \in Runs, t \in Stages : stage'[q][t] = Elapsed(stage[q][t])
  BY DEF Tick, TimersElapse
<1>2. \A q \in Runs, t \in Stages : /\ stage'[q][t].count = stage[q][t].count
                                   /\ stage'[q][t].state = stage[q][t].state
  BY <1>1, ElapsedFields
<1> QED
  BY <1>2, Invisible DEF Tick

LEMMA RequeueStutters == ASSUME IInv, NEW r \in Runs, RequeueIncomplete(r) PROVE Stutters
<1>1. ASSUME NEW q \in Runs, NEW t \in Stages
      PROVE  \/ stage'[q][t] = stage[q][t]
             \/ /\ stage[q][t].state \in {"Failed", "Cancelled"}
                /\ stage'[q][t] = Released(stage[q][t], "Queued", 0)
  BY DEF IInv, TypeOK, RequeueIncomplete, Requeueable, Requeued
<1>2. \A q \in Runs, t \in Stages :
        /\ stage'[q][t].count = stage[q][t].count
        /\ (stage'[q][t].state = "Completed") <=> (stage[q][t].state = "Completed")
  BY <1>1, ReleasedFields
<1>3. \A q \in Runs : (run'[q].state = "Completed") <=> (run[q].state = "Completed")
  BY DEF IInv, TypeOK, RunRow, RequeueIncomplete
<1> QED
  BY <1>2, <1>3, Invisible DEF RequeueIncomplete

(* TryAcquireNext begins the next attempt of the first stage that is not  *)
(* done.                                                                   *)
LEMMA AcquireClaims ==
  ASSUME IInv, IInv', NEW r \in Runs, NEW s \in Stages, NEW o \in Sessions, TryAcquireNext(r, s, o)
  PROVE  Abstract!Claim(r, s)
<1> DEFINE n == stage[r][s].count + 1
<1>1. n \in Attempts /\ stage[r][s].count \in Nat /\ stage[r][s].count < MaxAttempts
  BY StageTypes, MaxAttemptsAssumption DEF IInv, TryAcquireNext, Ready, Attempts
<1>2. /\ stage'[r][s].state = "Running" /\ stage'[r][s].count = n
      /\ run'[r].state = "Running"
      /\ \A q \in Runs, t \in Stages : ~(q = r /\ t = s) => stage'[q][t] = stage[q][t]
      /\ \A q \in Runs : q # r => run'[q] = run[q] /\ attempt'[q] = attempt[q]
  BY <1>1 DEF IInv, TypeOK, TryAcquireNext
<1>3. /\ stage[r][s].state \in {"Queued", "RetryScheduled"}
      /\ PriorsCompleted(r, s)
      /\ run[r].state \in {"Queued", "Running", "Partial"}
  BY DEF TryAcquireNext, Ready
<1>4. r \notin closedBar /\ closedBar' = closedBar
  BY <1>2, <1>3 DEF closedBar
<1>5. workingBar[r] = {}
  <2>1. ASSUME NEW t \in Stages PROVE stage[r][t].state # "Running"
    <3>1. CASE t = s
      BY <1>3, <3>1
    <3>2. CASE t < s
      BY <1>3, <3>2 DEF PriorsCompleted
    <3>3. CASE s < t
      BY <1>3, <3>3, RunningStage DEF IInv, StagesInOrder, InOrder, PriorsCompleted
    <3> QED
      BY <3>1, <3>2, <3>3 DEF Stages
  <2> QED
    BY <2>1, WorkingNone DEF workingBar
<1>6. /\ s \notin doneBar[r]
      /\ \A p \in Stages : p < s => p \in doneBar[r]
  BY <1>3 DEF doneBar, CompletedStages, PriorsCompleted
<1>7. doneBar' = doneBar
  <2>1. \A q \in Runs : CompletedStages(q)' = CompletedStages(q)
    BY <1>2, <1>3 DEF CompletedStages
  <2> QED
    BY <2>1 DEF doneBar
<1>8. triesBar' = [triesBar EXCEPT ![r][s] = @ + 1]
  <2>1. \A q \in Runs : q # r => triesBar'[q] = triesBar[q]
    BY <1>2 DEF triesBar
  <2>2. triesBar'[r] = [triesBar[r] EXCEPT ![s] = @ + 1]
    BY <1>2 DEF triesBar
  <2> QED
    BY <2>1, <2>2 DEF triesBar
<1>9. workingBar' = [workingBar EXCEPT ![r] = {<<s, triesBar[r][s] + 1>>}]
  <2>1. ASSUME NEW q \in Runs
        PROVE  workingBar'[q] = IF q = r THEN {<<s, n>>} ELSE workingBar[q]
    <3>1. CASE q = r
      <4>1. \A t \in Stages, m \in Attempts : attempt[r][t][m].state # "Running"
        <5>1. ASSUME NEW t \in Stages, NEW m \in Attempts, attempt[r][t][m].state = "Running" PROVE FALSE
          <6>1. <<t, m>> \in RunningIn(attempt[r])
            BY <5>1 DEF RunningIn
          <6> QED
            BY <6>1, <1>5 DEF workingBar
        <5> QED
          BY <5>1
      <4>2. \A t \in Stages, m \in Attempts : attempt'[r][t][m].state = "Running" <=> t = s /\ m = n
        BY <1>1, <4>1 DEF IInv, TypeOK, TryAcquireNext
      <4>3. RunningIn(attempt'[r]) = {<<s, n>>}
        BY <1>1, <4>2, OneRunning
      <4> QED
        BY <3>1, <4>3 DEF workingBar
    <3>2. CASE q # r
      BY <3>2, <1>2 DEF workingBar
    <3> QED
      BY <3>1, <3>2
  <2>2. triesBar[r][s] + 1 = n
    BY DEF triesBar
  <2> QED
    BY <2>1, <2>2 DEF workingBar
<1>10. triesBar[r][s] < MaxAttempts
  BY <1>1 DEF triesBar
<1> QED
  BY <1>4, <1>5, <1>6, <1>7, <1>8, <1>9, <1>10
     DEF Abstract!Claim, Abstract!Stages, Stages, doneBar, workingBar, triesBar, closedBar

(* CompleteStage commits the attempt in progress.                         *)
LEMMA CompleteCommits ==
  ASSUME IInv, IInv', NEW r \in Runs, NEW s \in Stages, NEW n \in Attempts, NEW cp \in SUBSET Stages,
         CompleteStage(r, s, n, cp)
  PROVE  Abstract!Commit(r, s)
<1>1. EnsureLease(r, s, n) /\ FinishAttempt(r, s, n, "Completed")
  BY DEF CompleteStage
<1>2. /\ n = stage[r][s].count /\ stage[r][s].state = "Running"
      /\ run[r].state = "Running" /\ run[r].owner = attempt[r][s][n].owner
  BY <1>1, LiveLease DEF FinishAttempt, EnsureLease
<1>3. /\ \A q \in Runs, t \in Stages : ~(q = r /\ t = s) => stage'[q][t] = stage[q][t]
      /\ stage'[r][s].state = "Completed" /\ stage'[r][s].count = stage[r][s].count
  BY <1>2, ReleasedFields DEF IInv, TypeOK, CompleteStage
<1>4. /\ \A q \in Runs : q # r => run'[q] = run[q] /\ attempt'[q] = attempt[q]
      /\ run'[r].state = "Running"
  BY <1>2 DEF IInv, TypeOK, CompleteStage, RunFollows, FinishAttempt
<1>5. workingBar[r] = {<<s, triesBar[r][s]>>}
  BY <1>2, WorkingOne DEF workingBar, triesBar
<1>6. doneBar' = [doneBar EXCEPT ![r] = @ \cup {s}]
  <2>1. \A q \in Runs : q # r => CompletedStages(q)' = CompletedStages(q)
    BY <1>3 DEF CompletedStages
  <2>2. CompletedStages(r)' = CompletedStages(r) \cup {s}
    BY <1>3 DEF CompletedStages
  <2> QED
    BY <2>1, <2>2 DEF doneBar
<1>7. workingBar' = [workingBar EXCEPT ![r] = {}]
  <2>1. ASSUME NEW t \in Stages, NEW m \in Attempts PROVE attempt'[r][t][m].state # "Running"
    <3>1. stage'[r][t].state # "Running"
      BY <1>2, <1>3, RunningStage DEF LeaseHeld
    <3> QED
      BY <3>1 DEF IInv, LeaseCoherent, LeaseAgrees
  <2>2. RunningIn(attempt'[r]) = {}
    BY <2>1, NoneRunning
  <2> QED
    BY <2>2, <1>4 DEF workingBar
<1>8. triesBar' = triesBar /\ closedBar' = closedBar
  <2>1. \A q \in Runs, t \in Stages : stage'[q][t].count = stage[q][t].count
    BY <1>3
  <2> QED
    BY <2>1, <1>2, <1>4 DEF triesBar, closedBar
<1> QED
  BY <1>5, <1>6, <1>7, <1>8 DEF Abstract!Commit, doneBar, workingBar, triesBar, closedBar

(* A step that ends the attempts of the runs R and completes nothing.     *)
LEMMA Abandons ==
  ASSUME NEW R \in SUBSET Runs,
         \A r \in Runs : (run'[r].state = "Completed") <=> (run[r].state = "Completed"),
         \A r \in Runs, s \in Stages :
           /\ stage'[r][s].count = stage[r][s].count
           /\ (stage'[r][s].state = "Completed") <=> (stage[r][s].state = "Completed"),
         \A r \in Runs : RunningIn(attempt'[r]) = IF r \in R THEN {} ELSE RunningIn(attempt[r])
  PROVE  Abstract!Abandon(R)
<1>1. \A r \in Runs : CompletedStages(r)' = CompletedStages(r)
  BY DEF CompletedStages
<1>2. doneBar' = doneBar
  BY <1>1 DEF doneBar
<1>3. triesBar' = triesBar /\ closedBar' = closedBar
  BY DEF triesBar, closedBar
<1>4. workingBar' = [r \in Runs |-> IF r \in R THEN {} ELSE workingBar[r]]
  BY DEF workingBar
<1> QED
  BY <1>2, <1>3, <1>4 DEF Abstract!Abandon, doneBar, workingBar, triesBar, closedBar

LEMMA FinishAbandons ==
  ASSUME IInv, IInv', NEW r \in Runs, NEW s \in Stages, NEW n \in Attempts,
         NEW ast, NEW sst \in {"RetryScheduled", "Failed", "Cancelled"},
         NEW rst \in {"Queued", "Failed", "Cancelled"},
         FinishStage(r, s, n, ast, sst, rst)
  PROVE  Abstract!Abandon({r})
<1> DEFINE w == IF sst = "RetryScheduled" THEN RetryTicks ELSE 0
<1>1. EnsureLease(r, s, n) /\ FinishAttempt(r, s, n, ast)
  BY DEF FinishStage
<1>2. /\ stage[r][s].state = "Running" /\ run[r].state = "Running"
      /\ run[r].owner = attempt[r][s][n].owner
  BY <1>1, LiveLease DEF FinishAttempt, EnsureLease
<1>w. stage' = [stage EXCEPT ![r][s] = Released(@, sst, w)]
  BY DEF FinishStage
<1> HIDE DEF w
<1>3. /\ \A q \in Runs, t \in Stages : ~(q = r /\ t = s) => stage'[q][t] = stage[q][t]
      /\ stage'[r][s].state = sst /\ stage'[r][s].count = stage[r][s].count
  BY <1>w, ReleasedFields DEF IInv, TypeOK
<1>4. /\ \A q \in Runs : q # r => run'[q] = run[q] /\ attempt'[q] = attempt[q]
      /\ run'[r].state = rst
  BY <1>2 DEF IInv, TypeOK, FinishStage, RunFollows, FinishAttempt
<1>5. RunningIn(attempt'[r]) = {}
  <2>1. ASSUME NEW t \in Stages, NEW m \in Attempts PROVE attempt'[r][t][m].state # "Running"
    <3>1. stage'[r][t].state # "Running"
      BY <1>2, <1>3, RunningStage DEF LeaseHeld
    <3> QED
      BY <3>1 DEF IInv, LeaseCoherent, LeaseAgrees
  <2> QED
    BY <2>1, NoneRunning
<1>6. \A q \in Runs : RunningIn(attempt'[q]) = IF q \in {r} THEN {} ELSE RunningIn(attempt[q])
  BY <1>4, <1>5
<1>7. \A q \in Runs : (run'[q].state = "Completed") <=> (run[q].state = "Completed")
  BY <1>2, <1>4
<1>8. \A q \in Runs, t \in Stages :
        /\ stage'[q][t].count = stage[q][t].count
        /\ (stage'[q][t].state = "Completed") <=> (stage[q][t].state = "Completed")
  BY <1>2, <1>3
<1> QED
  BY <1>6, <1>7, <1>8, Abandons

LEMMA CloseCloses ==
  ASSUME IInv, NEW r \in Runs, NEW o \in Sessions, CompleteRun(r, o)
  PROVE  Abstract!Close(r)
<1>1. \A q \in Runs : q # r => run'[q] = run[q]
  BY DEF IInv, TypeOK, CompleteRun
<1>2. run'[r].state = "Completed" /\ stage' = stage /\ attempt' = attempt
  BY DEF IInv, TypeOK, RunRow, CompleteRun
<1>3. closedBar' = closedBar \cup {r}
  BY <1>1, <1>2 DEF closedBar
<1>4. doneBar[r] = Stages
  BY DEF CompleteRun, AllStagesCompleted, doneBar, CompletedStages
<1>5. doneBar' = doneBar /\ workingBar' = workingBar /\ triesBar' = triesBar
  BY <1>2 DEF doneBar, CompletedStages, workingBar, triesBar
<1> QED
  BY <1>3, <1>4, <1>5 DEF Abstract!Close, Abstract!Stages, Stages, doneBar, workingBar, triesBar, closedBar

(* Recovery gives up the attempts of the runs whose lease lapsed.         *)
LEMMA RecoverAbandons ==
  ASSUME IInv, IInv', NEW e \in BOOLEAN, RecoverLeases(e)
  PROVE  \E R \in SUBSET Runs : Abstract!Abandon(R)
<1> DEFINE R == {r \in Runs : \E s \in Stages : LapsedStage(r, s, e)}
<1>1. ASSUME NEW r \in Runs, NEW s \in Stages
      PROVE  \/ stage'[r][s] = stage[r][s] /\ ~LapsedStage(r, s, e)
             \/ /\ stage[r][s].state = "Running"
                /\ stage'[r][s] = Released(stage[r][s], "Queued", stage[r][s].wait)
  BY DEF RecoverLeases, LapsedStage, Lapsed
<1>2. \A r \in Runs, s \in Stages :
        /\ stage'[r][s].count = stage[r][s].count
        /\ (stage'[r][s].state = "Completed") <=> (stage[r][s].state = "Completed")
  BY <1>1, ReleasedFields
<1>3. ASSUME NEW r \in Runs PROVE (run'[r].state = "Completed") <=> (run[r].state = "Completed")
  <2>1. ASSUME NEW s \in Stages, NEW n \in Attempts, Lapsed(r, s, n, e) PROVE run[r].state = "Running"
    BY <2>1, RunningStage DEF Lapsed, LeaseHeld
  <2> QED
    BY <2>1 DEF RecoverLeases
<1>4. ASSUME NEW r \in Runs
      PROVE  RunningIn(attempt'[r]) = IF r \in R THEN {} ELSE RunningIn(attempt[r])
  <2>1. CASE r \in R
    <3>1. PICK s \in Stages : LapsedStage(r, s, e)
      BY <2>1
    <3>2. stage[r][s].state = "Running"
      BY <3>1 DEF LapsedStage, Lapsed
    <3>3. ASSUME NEW t \in Stages PROVE stage'[r][t].state # "Running"
      <4>1. CASE t = s
        BY <3>1, <4>1, <1>1, ReleasedFields
      <4>2. CASE t # s
        BY <3>2, <4>2, <1>1, ReleasedFields, RunningStage DEF LeaseHeld
      <4> QED
        BY <4>1, <4>2
    <3>4. ASSUME NEW t \in Stages, NEW m \in Attempts PROVE attempt'[r][t][m].state # "Running"
      BY <3>3 DEF IInv, LeaseCoherent, LeaseAgrees
    <3>5. RunningIn(attempt'[r]) = {}
      BY <3>4, NoneRunning
    <3> QED
      BY <2>1, <3>5
  <2>2. CASE r \notin R
    <3>1. \A s \in Stages, m \in Attempts : ~Lapsed(r, s, m, e)
      BY <2>2 DEF LapsedStage
    <3>2. \A s \in Stages, m \in Attempts : attempt'[r][s][m] = attempt[r][s][m]
      BY <3>1 DEF RecoverLeases
    <3>3. RunningIn(attempt'[r]) = RunningIn(attempt[r])
      BY <3>2 DEF RunningIn
    <3> QED
      BY <2>2, <3>3
  <2> QED
    BY <2>1, <2>2
<1> HIDE DEF R
<1>5. R \in SUBSET Runs
  BY DEF R
<1>6. Abstract!Abandon(R)
  BY <1>2, <1>3, <1>4, <1>5, Abandons
<1> QED
  BY <1>5, <1>6

-----------------------------------------------------------------------------
LEMMA InitBar == Init => Abstract!Init
<1> SUFFICES ASSUME Init PROVE Abstract!Init
  OBVIOUS
<1>1. \A r \in Runs : CompletedStages(r) = {}
  BY DEF Init, CompletedStages
<1>2. \A r \in Runs : RunningIn(attempt[r]) = {}
  <2>1. \A r \in Runs, s \in Stages, n \in Attempts : attempt[r][s][n].state # "Running"
    BY DEF Init
  <2> QED
    BY <2>1, NoneRunning
<1>3. {r \in Runs : run[r].state = "Completed"} = {}
  BY DEF Init
<1>4. \A r \in Runs, s \in Stages : stage[r][s].count = 0
  BY DEF Init
<1> QED
  BY <1>1, <1>2, <1>3, <1>4 DEF Abstract!Init, Abstract!Stages, Stages

LEMMA StepBar == ASSUME IInv, IInv', [Next]_vars PROVE [Abstract!Next]_(Abstract!avars)
<1> DEFINE Goal == Abstract!Next \/ Stutters
<1>0. ASSUME Stutters PROVE Goal
  BY <1>0
<1>a. ASSUME NEW r \in Runs, NEW s \in Stages, Abstract!Claim(r, s) \/ Abstract!Commit(r, s) PROVE Goal
  BY <1>a DEF Abstract!Next, Abstract!Stages, Stages
<1>b. ASSUME NEW R \in SUBSET Runs, Abstract!Abandon(R) PROVE Goal
  BY <1>b DEF Abstract!Next
<1>c. ASSUME NEW r \in Runs, Abstract!Close(r) PROVE Goal
  BY <1>c DEF Abstract!Next
<1> HIDE DEF Goal
<1>1. ASSUME NEW r \in Runs, Create(r) PROVE Goal
  BY <1>0, <1>1, CreateStutters
<1>2. ASSUME NEW r \in Runs, RequeueIncomplete(r) PROVE Goal
  BY <1>0, <1>2, RequeueStutters
<1>3. ASSUME NEW r \in Runs, NEW s \in Stages, NEW o \in Sessions, TryAcquireNext(r, s, o) PROVE Goal
  BY <1>a, <1>3, AcquireClaims
<1>4. ASSUME NEW r \in Runs, NEW s \in Stages, NEW n \in Attempts, LeaseStep(r, s, n) PROVE Goal
  <2>1. CASE RenewLease(r, s, n)
    BY <2>1, <1>0, RenewStutters
  <2>2. CASE CompleteStage(r, s, n, CompletedStages(r) \cup {s})
    <3>1. CompletedStages(r) \cup {s} \in SUBSET Stages
      BY DEF CompletedStages
    <3> QED
      BY <2>2, <3>1, <1>a, CompleteCommits
  <2>3. ASSUME NEW retryable \in BOOLEAN, FailStage(r, s, n, retryable) PROVE Goal
    <3>1. Abstract!Abandon({r})
      BY <2>3, FinishAbandons DEF FailStage
    <3> QED
      BY <3>1, <1>b
  <2>4. CASE CancelStage(r, s, n)
    <3>1. Abstract!Abandon({r})
      BY <2>4, FinishAbandons DEF CancelStage
    <3> QED
      BY <3>1, <1>b
  <2> QED
    BY <1>4, <2>1, <2>2, <2>3, <2>4 DEF LeaseStep
<1>5. ASSUME NEW r \in Runs, NEW o \in Sessions, CompleteRun(r, o) PROVE Goal
  BY <1>c, <1>5, CloseCloses
<1>6. ASSUME RecoverExpiredLeases PROVE Goal
  BY <1>b, <1>6, RecoverAbandons DEF RecoverExpiredLeases
<1>7. ASSUME RecoverStaleLeases PROVE Goal
  BY <1>b, <1>7, RecoverAbandons DEF RecoverStaleLeases
<1>8. ASSUME Tick PROVE Goal
  BY <1>0, <1>8, TickStutters
<1>9. ASSUME UNCHANGED vars PROVE Goal
  <2>1. Stutters
    BY <1>9, Invisible DEF vars
  <2> QED
    BY <2>1, <1>0
<1>10. Goal
  BY <1>1, <1>2, <1>3, <1>4, <1>5, <1>6, <1>7, <1>8, <1>9 DEF Next
<1>11. Stutters => UNCHANGED Abstract!avars
  BY DEF Stutters, Abstract!avars, doneBar, workingBar, triesBar, closedBar
<1> QED
  BY <1>10, <1>11 DEF Goal

(* The queue keeps what StagedRun promises: one attempt at a time at the  *)
(* first stage without an output, each output committed once, a bounded    *)
(* number of tries, and a run closed only with all its outputs in.         *)
THEOREM QueueImplementsStagedRun == Spec => ImplementsStagedRun
<1>1. Init => Abstract!Init
  BY InitBar
<1>2. IInv /\ IInv' /\ [Next]_vars => [Abstract!Next]_(Abstract!avars)
  BY StepBar
<1> QED
  BY <1>1, <1>2, InductiveInvariant, PTL DEF Spec, ImplementsStagedRun, Abstract!Spec

=============================================================================
