------------------------------ MODULE StagedRun ------------------------------
(***************************************************************************)
(* What the persistent job queue promises, with no row, lease or clock in  *)
(* sight.  A run is a list of stages.  At any moment at most one attempt   *)
(* of a run is being worked on, always at the first stage whose output is  *)
(* not committed yet; an attempt either commits the output of its stage,   *)
(* once and for all, or is given up; a stage is tried MaxAttempts times    *)
(* at most; and a run is closed when every output is in.                   *)
(***************************************************************************)
EXTENDS Naturals

CONSTANTS
  Runs,         \* identifiers of the runs
  NStages,      \* stages of a run, in the order of their ordinals
  MaxAttempts   \* attempts one stage may use

Stages == 1 .. NStages

VARIABLES
  done,     \* done[r]: the stages of r whose output is committed
  working,  \* working[r]: the attempts <<stage, number>> of r in progress
  tries,    \* tries[r][s]: attempts of stage s begun so far
  closed    \* the runs reported complete

avars == <<done, working, tries, closed>>

Init ==
  /\ done    = [r \in Runs |-> {}]
  /\ working = [r \in Runs |-> {}]
  /\ tries   = [r \in Runs |-> [s \in Stages |-> 0]]
  /\ closed  = {}

(* Somebody begins the next attempt of the first stage without an output. *)
Claim(r, s) ==
  /\ r \notin closed
  /\ working[r] = {}
  /\ s \notin done[r]
  /\ \A p \in Stages : p < s => p \in done[r]
  /\ tries[r][s] < MaxAttempts
  /\ tries'   = [tries EXCEPT ![r][s] = @ + 1]
  /\ working' = [working EXCEPT ![r] = {<<s, tries[r][s] + 1>>}]
  /\ UNCHANGED <<done, closed>>

(* The attempt in progress commits the output of its stage. *)
Commit(r, s) ==
  /\ working[r] = {<<s, tries[r][s]>>}
  /\ done'    = [done EXCEPT ![r] = @ \cup {s}]
  /\ working' = [working EXCEPT ![r] = {}]
  /\ UNCHANGED <<tries, closed>>

(* The attempts in progress of the runs R are given up: a failure, a      *)
(* cancellation, or the recovery of the leases of a dead process.         *)
Abandon(R) ==
  /\ working' = [r \in Runs |-> IF r \in R THEN {} ELSE working[r]]
  /\ UNCHANGED <<done, tries, closed>>

Close(r) ==
  /\ done[r] = Stages
  /\ closed' = closed \cup {r}
  /\ UNCHANGED <<done, working, tries>>

Next ==
  \/ \E r \in Runs, s \in Stages : Claim(r, s) \/ Commit(r, s)
  \/ \E R \in SUBSET Runs : Abandon(R)
  \/ \E r \in Runs : Close(r)

Spec == Init /\ [][Next]_avars
=============================================================================
