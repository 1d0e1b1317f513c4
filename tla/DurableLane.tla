--------------------------- MODULE DurableLane ---------------------------
(***************************************************************************)
(* One lane of pi's durable agent harness.  A lane owns at most one open   *)
(* operation (a run).  Everything the operation needs to go on is durable: *)
(* its state leaf, the lane's inbox, the conversation branch and the       *)
(* values the operation owns.  One process-local Drive advances it, a      *)
(* straight line of "publish intent, perform the effect, publish outcome". *)
(* Every durable change is one command on the session's mutation line, so  *)
(* an action here that changes a durable variable is one such commit.      *)
(* A crash loses the Drive, its effects and its tool jobs and nothing      *)
(* else; closing the harness is the same crash.                            *)
(*                                                                         *)
(* Left out: deferred replies, standalone compaction, navigation, tool     *)
(* memos, the preparations of summaries, the usage ledger, events,         *)
(* configuration changes, runWhenIdle.                                     *)
(***************************************************************************)
EXTENDS Integers, Sequences, FiniteSets, SequencesExt, Filters

CONSTANTS
    Runs,        \* operation ids a host may have accepted
    Steers, FollowUps, NextRuns, Writes,   \* items, by the tag they are queued with
    Silent,      \* the writes no entry projector turns into a message
    AllSteers, AllFollowUps,   \* queue mode "all" (TRUE) or "one-at-a-time"
    Parallel,    \* settings.toolExecution
    Safe,        \* the source positions whose tool declares replay "safe"
    MaxCalls,    \* tool calls in one reply
    MaxAttempts, \* retryPolicy.maxAttempts
    MaxMinted,   \* ids minted for replies, summaries and hook messages
    MaxCrashes,
    Nothing

Items == Steers \cup FollowUps \cup NextRuns \cup Writes
Positions == 1 .. MaxCalls

ASSUME BoundsAssumption ==
    /\ MaxCalls \in Nat \ {0} /\ MaxAttempts \in Nat \ {0}
    /\ MaxMinted \in Nat /\ MaxCrashes \in Nat
    /\ Silent \subseteq Writes /\ Safe \subseteq Positions
    /\ {AllSteers, AllFollowUps, Parallel} \subseteq BOOLEAN

VARIABLES
    branch,    \* the entry ids from the root to the lane's tip
    op,        \* the open operation, meta and state leaf, or Nothing
    inbox,     \* LaneState.inbox, item ids in order
    pending,   \* ids with a pi.pending.entry value
    owned,     \* the values the operation owns, by kind
    results,   \* pi.result of every run
    minted,    \* ids given out by the generator
    asked,     \* the results each committed reply asks for in later contexts
    taken,     \* items handed back by an abort or withdrawn by cancelQueued
    runs,      \* how often the effect of each tool call was started
    drive,     \* Lane.activeDrive, or Nothing
    abort,     \* a requestAbort whose command has not run yet, or Nothing
    crashes

(***************************************************************************)
(* Ids and records.  Entry ids are told apart by the kind of thing they    *)
(* stand for; every id comes from one generator, or from the host.         *)
(***************************************************************************)
durable == <<branch, op, inbox, pending, owned, results, minted, asked, taken>>
vars == <<durable, runs, drive, abort, crashes>>

Reply(n) == <<"reply", n>>
Result(n, k) == <<"result", n, k>>
Prompt(r) == <<"prompt", r>>
Summary(n) == <<"summary", n>>
HookMessage(n) == <<"hook", n>>

Made == {Prompt(r) : r \in Runs}
          \cup {Reply(n) : n \in 1 .. MaxMinted} \cup {Summary(n) : n \in 1 .. MaxMinted}
          \cup {HookMessage(n) : n \in 1 .. MaxMinted}
          \cup {Result(n, k) : n \in 1 .. MaxMinted, k \in Positions}
Entries == Items \cup Made

Leaves == {"starting", "checkpoint", "assistant.ready", "assistant.effect_pending",
           "assistant.retry_wait", "summary.deciding", "summary.ready",
           "summary.effect_pending", "summary.retry_wait", "tools"}

Operations ==
    [id : Runs, at : Leaves, cancelled : BOOLEAN, may : BOOLEAN, used : BOOLEAN,
     trigger : Entries \cup {Nothing}, attempt : 1 .. MaxAttempts,
     reserved : 0 .. MaxMinted, reason : {"threshold", "overflow"},
     calls : Seq({"planned", "effect_pending", "outcome_ready", "completed"}),
     ends : SUBSET Positions]

Drives ==
    [id : Runs, gate : {"open", "aborting"}, told : BOOLEAN,
     step : {"dispatch", "finishing", "requesting", "streaming", "timer", "waiting",
             "summarizing", "asking", "answering", "answered", "tools", "settled"},
     plan : Seq(Items), jobs : [Positions -> {"idle", "cleared", "running", "refused"}],
     parallel : BOOLEAN, place : SUBSET Positions]

Aborts == [id : Runs, drive : BOOLEAN]

ASSUME IdsAssumption ==
    /\ Items \cap Made = {}
    /\ Nothing \notin Operations /\ Nothing \notin Drives /\ Nothing \notin Aborts

NoValues == [args |-> {}, outputs |-> {}, frames |-> {}]
NoJobs == [k \in Positions |-> "idle"]
NoRuns == [c \in (1 .. MaxMinted) \X Positions |-> 0]

Init ==
    /\ branch = <<>> /\ op = Nothing /\ inbox = <<>> /\ pending = {}
    /\ owned = NoValues /\ results = [r \in Runs |-> "none"] /\ minted = 0
    /\ asked = [n \in 1 .. MaxMinted |-> 0] /\ taken = {} /\ runs = NoRuns
    /\ drive = Nothing /\ abort = Nothing /\ crashes = 0

(***************************************************************************)
(* The inbox.                                                              *)
(***************************************************************************)
Queued(tag) == Keep(inbox, tag)

Eligible(tag, all) ==
    LET q == Queued(tag) IN IF all \/ q = <<>> THEN ToSet(q) ELSE {q[1]}

\* selectAcceptedInbox
Accepted == Keep(inbox, Writes \cup NextRuns \cup Eligible(Steers, AllSteers)
                                \cup Eligible(FollowUps, AllFollowUps))

Projects(i) == i \notin Silent

\* planBoundaryInbox: the writes and the steering that is due; a follow-up
\* only where nothing of these asks the assistant for anything.
Boundary(followUp) ==
    LET first == Writes \cup Eligible(Steers, AllSteers)
        quiet == \A i \in ToSet(Keep(inbox, first)) : ~Projects(i)
    IN Keep(inbox, IF followUp /\ quiet
                   THEN first \cup Eligible(FollowUps, AllFollowUps) ELSE first)

Trigger(place) == place[SelectLastInSeq(place, Projects)]
Triggers(place) == \E i \in ToSet(place) : Projects(i)

\* The writes of a placement: entries in, payloads and inbox items out.
Place(place, after) ==
    /\ branch' = branch \o place \o after
    /\ inbox' = Keep(inbox, ToSet(inbox) \ ToSet(place))
    /\ pending' = pending \ ToSet(place)

Unqueued(i) == i \notin ToSet(branch) \cup ToSet(inbox) \cup taken

\* steer, followUp, nextRun; an append while an operation is open.
Enqueue(i) ==
    /\ Unqueued(i)
    /\ i \in Writes => op # Nothing
    /\ inbox' = Append(inbox, i)
    /\ pending' = pending \cup {i}
    /\ UNCHANGED <<branch, op, owned, results, minted, asked, taken, runs, drive, abort, crashes>>

\* An append on an idle lane places what was queued to be written first.
AppendIdle(i) ==
    /\ Unqueued(i) /\ i \in Writes /\ op = Nothing
    /\ Place(Queued(Writes), <<i>>)
    /\ UNCHANGED <<op, owned, results, minted, asked, taken, runs, drive, abort, crashes>>

CancelQueued(i) ==
    /\ i \in ToSet(inbox)
    /\ inbox' = Keep(inbox, ToSet(inbox) \ {i})
    /\ pending' = pending \ {i}
    /\ taken' = taken \cup {i}
    /\ UNCHANGED <<branch, op, owned, results, minted, asked, runs, drive, abort, crashes>>

(***************************************************************************)
(* Acceptance.                                                             *)
(***************************************************************************)
Started(r) == [id |-> r, at |-> "starting", cancelled |-> FALSE, may |-> FALSE,
               used |-> FALSE, trigger |-> Nothing, attempt |-> 1, reserved |-> 0,
               reason |-> "threshold", calls |-> <<>>, ends |-> {}]

\* accept with a prompt or with an empty one, which only takes the inbox.  An
\* id stands for one run: the generator gives it out, or the host, which the
\* code trusts not to use one again (it does not look for an earlier result).
Accept(r, prompt) ==
    /\ op = Nothing /\ results[r] = "none"
    /\ prompt # <<>> \/ \E i \in ToSet(Accepted) : i \notin Writes
    /\ Place(Accepted, prompt)
    /\ op' = Started(r)
    /\ UNCHANGED <<owned, results, minted, asked, taken, runs, drive, abort, crashes>>

(***************************************************************************)
(* The Drive.                                                              *)
(***************************************************************************)
\* The claim installs a Drive for the current operation unless one is live.
Claim ==
    /\ op # Nothing /\ drive = Nothing
    /\ drive' = [id |-> op.id, gate |-> "open", told |-> FALSE, step |-> "dispatch",
                 plan |-> <<>>, jobs |-> NoJobs, parallel |-> FALSE, place |-> {}]
    /\ UNCHANGED <<durable, runs, abort, crashes>>

Standing(step) == drive # Nothing /\ drive.step = step

\* A Drive claimed behind a queued abort finds that abort's command ahead of
\* its own.
Live(step) == Standing(step) /\ (abort # Nothing => abort.drive)
Running(step) == Live(step) /\ ~op.cancelled
At(leaf) == Running("dispatch") /\ op.at = leaf

Step(step) == drive' = [drive EXCEPT !.step = step, !.plan = <<>>, !.jobs = NoJobs,
                                     !.parallel = FALSE]
Local == UNCHANGED <<durable, runs, abort, crashes>>

\* continueOperation refuses once cancellation is durable; a procedure that
\* threw AbortRequested comes back here after the cancellation is durable.
Stale ==
    /\ op # Nothing /\ op.cancelled
    /\ \E step \in {"finishing", "requesting", "timer", "summarizing", "asking", "answered"} : Standing(step)
    /\ Step("dispatch") /\ Local

DriveEnds ==
    /\ Standing("settled") \/ Standing("waiting")
    /\ drive' = Nothing
    /\ abort' = IF abort = Nothing THEN abort ELSE [abort EXCEPT !.drive = FALSE]
    /\ UNCHANGED <<durable, runs, crashes>>

\* A slip: the record is written and the operation's own values stay.
SettleLeavesValues(status) ==
    /\ results' = [results EXCEPT ![op.id] = status]
    /\ op' = Nothing
    /\ UNCHANGED owned
    /\ Step("settled")

\* The open operation's cleanup, with the result record.
Settle(status) ==
    /\ results' = [results EXCEPT ![op.id] = status]
    /\ op' = Nothing
    /\ owned' = NoValues
    /\ Step("settled")

AssistantReady(trigger, used) ==
    op' = [op EXCEPT !.at = "assistant.ready", !.trigger = trigger, !.used = used,
                     !.attempt = 1]

\* before_run may put messages of its own behind the prompt.
StartRun(injects) ==
    /\ At("starting")
    /\ injects => minted < MaxMinted
    /\ LET more == IF injects THEN <<HookMessage(minted + 1)>> ELSE <<>>
       IN /\ branch' = branch \o more
          /\ minted' = minted + Len(more)
          /\ op' = [op EXCEPT !.at = "checkpoint", !.may = FALSE, !.used = FALSE,
                              !.trigger = Last(branch \o more)]
    /\ UNCHANGED <<inbox, pending, owned, results, asked, taken, runs, drive, abort, crashes>>

\* prepareCompactionThreshold: no summary follows the checkpoint's trigger.
MayCompact ==
    LET at == CHOOSE j \in DOMAIN branch : branch[j] = op.trigger
    IN \A j \in at .. Len(branch) : branch[j] \notin {Summary(n) : n \in 1 .. MaxMinted}

RunCheckpoint(full) ==
    /\ At("checkpoint")
    /\ full => MayCompact
    /\ LET place == Boundary(~full /\ op.may)
           onward == \/ /\ Triggers(place)
                        /\ AssistantReady(Trigger(place), FALSE)
                     \/ /\ ~Triggers(place) /\ full
                        /\ op' = [op EXCEPT !.at = "summary.deciding", !.reason = "threshold"]
                     \/ /\ ~Triggers(place) /\ ~full /\ ~op.may
                        /\ AssistantReady(op.trigger, op.used)
       IN \/ /\ onward /\ Place(place, <<>>) /\ UNCHANGED drive
          \/ /\ ~Triggers(place) /\ ~full /\ op.may
             /\ drive' = [drive EXCEPT !.step = "finishing", !.plan = place]
             /\ UNCHANGED <<branch, op, inbox, pending>>
    /\ UNCHANGED <<owned, results, minted, asked, taken, runs, abort, crashes>>

\* A slip: settleOperation where continueOperation belongs.
FinishBoundaryAnyway(hook) ==
    /\ Live("finishing") /\ ~hook
    /\ LET place == Boundary(TRUE)
       IN /\ ~Triggers(place)
          /\ Place(place, <<>>) /\ Settle("completed") /\ UNCHANGED minted
    /\ UNCHANGED <<asked, taken, runs, abort, crashes>>

\* After before_run_end the inbox is read again; the hook's own follow-up
\* counts only if the plan it saw still stands.
FinishBoundary(hook) ==
    /\ Running("finishing")
    /\ hook => minted < MaxMinted
    /\ LET place == Boundary(TRUE)
           heard == hook /\ place = drive.plan
           more == IF heard THEN <<HookMessage(minted + 1)>> ELSE <<>>
       IN \/ /\ Triggers(place)
             /\ Place(place, <<>>) /\ AssistantReady(Trigger(place), FALSE)
             /\ Step("dispatch") /\ UNCHANGED <<owned, results, minted>>
          \/ /\ ~Triggers(place) /\ heard
             /\ Place(place, more) /\ AssistantReady(Last(more), FALSE)
             /\ minted' = minted + 1
             /\ Step("dispatch") /\ UNCHANGED <<owned, results>>
          \/ /\ ~Triggers(place) /\ ~heard
             /\ Place(place, <<>>) /\ Settle("completed") /\ UNCHANGED minted
    /\ UNCHANGED <<asked, taken, runs, abort, crashes>>

(***************************************************************************)
(* One generation.                                                         *)
(***************************************************************************)
\* The captured model or a configured tool is gone from this process.
ConfigurationFails ==
    /\ At("assistant.ready")
    /\ Settle("failed")
    /\ UNCHANGED <<branch, inbox, pending, minted, asked, taken, runs, abort, crashes>>

GenerationIntent ==
    /\ At("assistant.ready") /\ minted < MaxMinted
    /\ minted' = minted + 1
    /\ op' = [op EXCEPT !.at = "assistant.effect_pending", !.reserved = minted + 1]
    /\ Step("requesting")
    /\ UNCHANGED <<branch, inbox, pending, owned, results, asked, taken, runs, abort, crashes>>

Request == Live("requesting") /\ drive.gate = "open" /\ Step("streaming") /\ Local

\* A frame of the stream, appended while the operation still waits for it.
Frame ==
    /\ Live("streaming")
    /\ owned' = [owned EXCEPT !.frames = @ \cup {Reply(op.reserved)}]
    /\ UNCHANGED <<branch, op, inbox, pending, results, minted, asked, taken, runs, drive, abort, crashes>>

\* publishResponse: reply, usage, tip and frame list go in one commit with
\* the state that follows.  A reply that comes after the cancellation is kept
\* as aborted, and no later context asks for the results of its calls.
Answers == {"stop", "tools", "retryable", "overflow", "error"}

Publish(answer, count) ==
    LET me == Reply(op.reserved)
        again == answer = "retryable" /\ op.attempt < MaxAttempts
        compacts == answer = "overflow" /\ ~op.used
        fails == /\ ~op.cancelled /\ ~again /\ ~compacts
                 /\ answer \in {"error", "retryable", "overflow"}
        next == IF op.cancelled \/ answer = "stop"
                THEN [op EXCEPT !.at = "checkpoint", !.may = TRUE, !.trigger = me]
                ELSE IF answer = "tools"
                THEN [op EXCEPT !.at = "tools", !.ends = {},
                                !.calls = [k \in 1 .. count |-> "planned"]]
                ELSE IF again
                THEN [op EXCEPT !.at = "assistant.retry_wait", !.attempt = @ + 1]
                ELSE [op EXCEPT !.at = "summary.deciding", !.reason = "overflow",
                                !.may = FALSE, !.used = TRUE]
    IN /\ branch' = Append(branch, me)
       /\ asked' = [asked EXCEPT ![op.reserved] = IF answer = "tools" /\ ~op.cancelled
                                                     THEN count ELSE 0]
       /\ \/ fails /\ Settle("failed")
          \/ /\ ~fails /\ op' = next
             /\ owned' = [owned EXCEPT !.frames = @ \ {me}]
             /\ Step("dispatch") /\ UNCHANGED results
       /\ UNCHANGED <<inbox, pending, minted, taken, runs, abort, crashes>>

Respond(answer, count) ==
    /\ Live("streaming")
    /\ Publish(answer, count)

\* An effect_pending leaf nobody is waiting for: the reply is settled from
\* its frames as an interruption, which is tried again like an error.
RecoverGeneration ==
    /\ Live("dispatch") /\ op.at = "assistant.effect_pending"
    /\ Publish("retryable", 0)

(***************************************************************************)
(* Retry waits, of replies and of summaries.                               *)
(***************************************************************************)
Waits == {"assistant.retry_wait", "summary.retry_wait"}

Ready == op' = [op EXCEPT !.at = IF @ = "assistant.retry_wait" THEN "assistant.ready"
                                 ELSE "summary.ready"]

\* notBefore is in the future: a pass claimed without waitForRetry returns,
\* one with it starts a timer.
StartWait ==
    /\ Standing("dispatch") /\ ~op.cancelled /\ op.at \in Waits
    /\ Step("waiting") \/ (drive.gate = "open" /\ Step("timer"))
    /\ Local

\* notBefore has passed, with or without a timer.
WaitEnds ==
    /\ \E step \in {"dispatch", "timer"} : Running(step)
    /\ op.at \in Waits /\ Ready /\ Step("dispatch")
    /\ UNCHANGED <<branch, inbox, pending, owned, results, minted, asked, taken, runs, abort, crashes>>

(***************************************************************************)
(* Compaction inside the run, before a turn or after an overflow.          *)
(***************************************************************************)
\* publishStructuralOutcome at the boundary resume_checkpoint.
SummaryDone(entry) ==
    LET declined == entry = <<>>
        place == Boundary(declined /\ op.may)
    IN \/ /\ declined /\ op.reason = "threshold" /\ op.may /\ ~Triggers(place)
          /\ drive' = [drive EXCEPT !.step = "finishing", !.plan = place]
          /\ UNCHANGED <<branch, op, inbox, pending, owned, results>>
       \/ /\ declined => op.reason = "threshold" /\ (Triggers(place) \/ ~op.may)
          /\ branch' = branch \o entry \o place
          /\ inbox' = Keep(inbox, ToSet(inbox) \ ToSet(place))
          /\ pending' = pending \ ToSet(place)
          /\ IF Triggers(place) THEN AssistantReady(Trigger(place), FALSE)
             ELSE IF ~op.may THEN AssistantReady(op.trigger, op.used)
             ELSE op' = [op EXCEPT !.at = "checkpoint"]
          /\ Step("dispatch") /\ UNCHANGED <<owned, results>>
       \/ /\ declined /\ op.reason = "overflow"
          /\ Settle("failed") /\ UNCHANGED <<branch, inbox, pending>>

\* before_compaction declines, brings a summary of its own, or lets it be made.
DecideSummary(choice) ==
    /\ At("summary.deciding")
    /\ choice # "decline" => minted < MaxMinted
    /\ minted' = IF choice = "decline" THEN minted ELSE minted + 1
    /\ \/ choice = "decline" /\ SummaryDone(<<>>)
       \/ choice = "hook" /\ SummaryDone(<<Summary(minted + 1)>>)
       \/ /\ choice = "make"
          /\ op' = [op EXCEPT !.at = "summary.ready", !.reserved = minted + 1, !.attempt = 1]
          /\ UNCHANGED <<branch, inbox, pending, owned, results, drive>>
    /\ UNCHANGED <<asked, taken, runs, abort, crashes>>

SummaryIntent ==
    /\ At("summary.ready")
    /\ op' = [op EXCEPT !.at = "summary.effect_pending"]
    /\ Step("summarizing")
    /\ UNCHANGED <<branch, inbox, pending, owned, results, minted, asked, taken, runs, abort, crashes>>

\* A slip: the last attempt is not the last.
SummaryFailsAgain(retryable) ==
    IF retryable /\ op.attempt <= MaxAttempts
    THEN /\ op' = [op EXCEPT !.at = "summary.retry_wait", !.attempt = @ + 1]
         /\ Step("dispatch") /\ UNCHANGED <<owned, results>>
    ELSE Settle("failed")

SummaryFails(retryable) ==
    IF retryable /\ op.attempt < MaxAttempts
    THEN /\ op' = [op EXCEPT !.at = "summary.retry_wait", !.attempt = @ + 1]
         /\ Step("dispatch") /\ UNCHANGED <<owned, results>>
    ELSE Settle("failed")

\* The durable intent of one request to the model for the attempt; after the
\* answer to the first a long turn takes a second one.
SummaryRequestIntent ==
    /\ \E step \in {"summarizing", "answered"} : Running(step)
    /\ Step("asking") /\ Local

\* A slip: the summary is asked for without asking the gate.
SummaryRequestPastTheGate == Live("asking") /\ Step("answering") /\ Local

SummaryRequest ==
    Live("asking") /\ drive.gate = "open" /\ Step("answering") /\ Local

\* What the request cost is recorded also after a cancellation.
SummaryAnswer == Live("answering") /\ Step("answered") /\ Local

SummaryResult(outcome) ==
    /\ Running("answered")
    /\ \/ outcome = "made" /\ SummaryDone(<<Summary(op.reserved)>>)
       \/ /\ outcome # "made" /\ SummaryFails(outcome = "retryable")
          /\ UNCHANGED <<branch, inbox, pending>>
    /\ UNCHANGED <<minted, asked, taken, runs, abort, crashes>>

\* An orphaned summary attempt is a failed attempt.
RecoverSummary ==
    /\ At("summary.effect_pending")
    /\ SummaryFails(TRUE)
    /\ UNCHANGED <<branch, inbox, pending, minted, asked, taken, runs, abort, crashes>>

\* The captured model is gone from this process.
SummaryModelGone ==
    /\ At("summary.ready")
    /\ Settle("failed")
    /\ UNCHANGED <<branch, inbox, pending, minted, asked, taken, runs, abort, crashes>>

(***************************************************************************)
(* Tools.  A call is planned, effect_pending, outcome_ready, completed;    *)
(* the pass keeps a job for each call it has taken up: cleared for         *)
(* execution, running until its result is durable, or refused.             *)
(***************************************************************************)
Id(k) == Result(op.reserved, k)
Calls == DOMAIN op.calls
Executing == Live("tools") /\ op.at = "tools"
Job(k, state) == drive' = [drive EXCEPT !.jobs[k] = state]
InFlight == {"cleared", "running", "refused"}
NoTransfer == UNCHANGED <<branch, inbox, results, minted, asked, taken, abort, crashes>>

\* runTools: a cancelled batch is only swept, one call after the other.
BeginTools ==
    /\ Standing("dispatch") /\ op.at = "tools"
    /\ drive' = [drive EXCEPT !.step = "tools", !.jobs = NoJobs, !.place = {},
                              !.parallel = Parallel /\ ~op.cancelled,
                              !.gate = IF op.cancelled THEN "aborting" ELSE @,
                              !.told = @ \/ op.cancelled]
    /\ Local

\* A slip: results are placed as they become ready.
ReadyAnywhere == {k \in Calls : op.calls[k] = "outcome_ready"}

\* The contiguous outcomes after the completed prefix.
ReadyPrefix == {k \in Calls : /\ op.calls[k] = "outcome_ready"
                              /\ \A j \in 1 .. k : op.calls[j] \in {"completed", "outcome_ready"}}

ReadPlacement ==
    /\ Executing /\ drive.place = {} /\ ReadyPrefix # {}
    /\ drive' = [drive EXCEPT !.place = ReadyPrefix]
    /\ Local

\* The results read become entries in source order; the last of the batch
\* goes on to the next checkpoint.
CommitPlacement ==
    /\ Executing /\ drive.place # {}
    /\ LET placed == [k \in 1 .. Cardinality(drive.place) |->
                         Id(k - 1 + CHOOSE j \in drive.place : \A i \in drive.place : j <= i)]
           calls == [k \in Calls |-> IF k \in drive.place THEN "completed" ELSE op.calls[k]]
       IN /\ branch' = branch \o placed
          /\ pending' = pending \ ToSet(placed)
          /\ IF \A k \in Calls : calls[k] = "completed"
             THEN /\ op' = [op EXCEPT !.at = "checkpoint", !.calls = <<>>, !.ends = {},
                                      !.may = op.ends = Calls, !.used = FALSE,
                                      !.trigger = Last(placed)]
                  /\ owned' = [owned EXCEPT !.args = {}]
             ELSE op' = [op EXCEPT !.calls = calls] /\ UNCHANGED owned
    /\ drive' = [drive EXCEPT !.place = {}]
    /\ UNCHANGED <<inbox, results, minted, asked, taken, runs, abort, crashes>>

EndTools ==
    /\ Live("tools") /\ op.at # "tools"
    /\ \A k \in Positions : drive.jobs[k] \notin InFlight
    /\ Step("dispatch") /\ Local

\* The next call this pass takes up: in source order, and in a sequential
\* batch only when everything before it has been placed.
Turn(k) ==
    /\ Executing /\ k \in Calls
    /\ drive.jobs[k] = "idle" /\ op.calls[k] \in {"planned", "effect_pending"}
    /\ \A j \in 1 .. k - 1 : drive.jobs[j] # "idle" \/ op.calls[j] \in {"outcome_ready", "completed"}
    /\ drive.parallel \/ \A j \in 1 .. k - 1 : op.calls[j] = "completed"

\* Blocked, unknown, truncated or cancelled before its intent: a synthetic
\* outcome; an orphan that may not be replayed, or not any more, likewise.
Refuse(k) ==
    /\ Turn(k)
    /\ Job(k, "refused") /\ Local

ToolIntent(k) ==
    /\ Turn(k) /\ op.calls[k] = "planned" /\ ~op.cancelled
    /\ op' = [op EXCEPT !.calls[k] = "effect_pending"]
    /\ owned' = [owned EXCEPT !.args = @ \cup {Id(k)}]
    /\ Job(k, "cleared")
    /\ NoTransfer /\ UNCHANGED <<pending, runs>>

\* A slip: the declaration of the tool is not asked.
ReplayAnyTool(k) ==
    /\ Turn(k) /\ op.calls[k] = "effect_pending" /\ ~op.cancelled
    /\ owned' = [owned EXCEPT !.outputs = @ \ {Id(k)}]
    /\ Job(k, "cleared")
    /\ NoTransfer /\ UNCHANGED <<op, pending, runs>>

\* An orphan whose tool is declared safe to replay runs again.
Replay(k) ==
    /\ Turn(k) /\ op.calls[k] = "effect_pending" /\ k \in Safe
    /\ op.cancelled => drive.gate = "aborting"   \* cancelled since it was asked
    /\ owned' = [owned EXCEPT !.outputs = @ \ {Id(k)}]
    /\ Job(k, "cleared")
    /\ NoTransfer /\ UNCHANGED <<op, pending, runs>>

Execute(k) ==
    /\ Live("tools") /\ drive.jobs[k] = "cleared" /\ drive.gate = "open"
    /\ runs' = [runs EXCEPT ![<<op.reserved, k>>] = @ + 1]
    /\ Job(k, "running")
    /\ UNCHANGED <<durable, abort, crashes>>

\* The gate was closed first: the job waits for the cancellation.
NotExecuted(k) ==
    /\ Live("tools") /\ drive.jobs[k] = "cleared" /\ op.cancelled
    /\ Job(k, "refused") /\ Local

\* A checkpoint of the output, as long as the call still owns its effect.
ToolCheckpoint(k) ==
    /\ Executing /\ drive.jobs[k] = "running"
    /\ owned' = [owned EXCEPT !.outputs = @ \cup {Id(k)}]
    /\ NoTransfer /\ UNCHANGED <<op, pending, runs, drive>>

\* The tool returned, or was never started; both the tool and the before_tool
\* hook that blocks a call may ask for the run to end.
PublishOutcome(k, terminate) ==
    /\ Executing /\ drive.jobs[k] \in {"running", "refused"}
    /\ terminate => /\ ~op.cancelled
                    /\ drive.jobs[k] = "running" \/ op.calls[k] = "planned"
    /\ op' = [op EXCEPT !.calls[k] = "outcome_ready",
                        !.ends = IF terminate THEN @ \cup {k} ELSE @]
    /\ pending' = pending \cup {Id(k)}
    /\ owned' = [owned EXCEPT !.outputs = @ \ {Id(k)}]
    /\ Job(k, "idle")
    /\ NoTransfer /\ UNCHANGED runs

(***************************************************************************)
(* Cancellation.                                                           *)
(***************************************************************************)
Observed == drive # Nothing /\ drive.id = op.id

\* requestAbort looks for a live Drive and closes its gate at once; its
\* command waits for its turn on the mutation line.  (A repeated request with
\* no Drive left to signal changes nothing.)
RequestAbort ==
    /\ op # Nothing /\ abort = Nothing
    /\ op.cancelled => Observed /\ ~drive.told
    /\ abort' = [id |-> op.id, drive |-> Observed]
    /\ drive' = IF Observed /\ drive.gate = "open" THEN [drive EXCEPT !.gate = "aborting"]
                ELSE drive
    /\ UNCHANGED <<durable, runs, crashes>>

Signal == drive' = IF abort.drive THEN [drive EXCEPT !.told = TRUE] ELSE drive

\* A slip: the drained items go back to the caller and their payloads stay.
AbortKeepsPayloads ==
    /\ abort # Nothing /\ op # Nothing /\ op.id = abort.id
    /\ LET drained == ToSet(inbox) \cap (Steers \cup FollowUps)
       IN /\ inbox' = Keep(inbox, ToSet(inbox) \ drained)
          /\ taken' = taken \cup drained
    /\ op' = [op EXCEPT !.cancelled = TRUE]
    /\ Signal /\ abort' = Nothing
    /\ UNCHANGED <<branch, pending, owned, results, minted, asked, runs, crashes>>

AbortCommits ==
    /\ abort # Nothing /\ op # Nothing /\ op.id = abort.id
    /\ LET drained == IF op.cancelled THEN {} ELSE ToSet(inbox) \cap (Steers \cup FollowUps)
       IN /\ inbox' = Keep(inbox, ToSet(inbox) \ drained)
          /\ pending' = pending \ drained
          /\ taken' = taken \cup drained
    /\ op' = [op EXCEPT !.cancelled = TRUE]
    /\ Signal /\ abort' = Nothing
    /\ UNCHANGED <<branch, owned, results, minted, asked, runs, crashes>>

AbortMismatch ==
    /\ abort # Nothing /\ ~(op # Nothing /\ op.id = abort.id)
    /\ abort' = Nothing
    /\ UNCHANGED <<durable, runs, drive, crashes>>

\* reconcileOperation: a leaf with nothing in flight ends the operation.
Reconcile ==
    /\ Live("dispatch") /\ op.cancelled
    /\ op.at \notin {"assistant.effect_pending", "tools"}
    /\ Settle("aborted")
    /\ UNCHANGED <<branch, inbox, pending, minted, asked, taken, runs, abort, crashes>>

(***************************************************************************)
(* The process.                                                            *)
(***************************************************************************)
\* A crash with nothing in the process to lose changes nothing.
Crash ==
    /\ crashes < MaxCrashes /\ (drive # Nothing \/ abort # Nothing)
    /\ crashes' = crashes + 1
    /\ drive' = Nothing /\ abort' = Nothing
    /\ UNCHANGED <<durable, runs>>

ToolStep(k) ==
    \/ Refuse(k) \/ ToolIntent(k) \/ Replay(k) \/ Execute(k) \/ NotExecuted(k)
    \/ ToolCheckpoint(k)
    \/ \E terminate \in BOOLEAN : PublishOutcome(k, terminate)

Next ==
    \/ \E i \in Items : Enqueue(i) \/ AppendIdle(i) \/ CancelQueued(i)
    \/ \E r \in Runs : Accept(r, <<Prompt(r)>>) \/ Accept(r, <<>>)
    \/ \E b \in BOOLEAN : StartRun(b) \/ RunCheckpoint(b) \/ FinishBoundary(b)
    \/ Claim \/ Stale \/ DriveEnds
    \/ ConfigurationFails \/ GenerationIntent \/ Request \/ Frame
    \/ \E answer \in Answers \ {"tools"} : Respond(answer, 0)
    \/ \E count \in Positions : Respond("tools", count)
    \/ RecoverGeneration \/ StartWait \/ WaitEnds
    \/ \E choice \in {"decline", "hook", "make"} : DecideSummary(choice)
    \/ SummaryIntent \/ SummaryRequestIntent \/ SummaryRequest \/ SummaryAnswer
    \/ RecoverSummary \/ SummaryModelGone
    \/ \E outcome \in {"made", "retryable", "error"} : SummaryResult(outcome)
    \/ BeginTools \/ ReadPlacement \/ CommitPlacement \/ EndTools
    \/ \E k \in Positions : ToolStep(k)
    \/ RequestAbort \/ AbortCommits \/ AbortMismatch \/ Reconcile
    \/ Crash

Spec == Init /\ [][Next]_vars

(***************************************************************************)
(* Properties.                                                             *)
(***************************************************************************)
\* The shape of the state, with what each leaf says of itself: only "tools"
\* has calls, an attempt never passes the policy's maximum, no leaf waits for
\* a retry before its second attempt, and what a leaf of a run that has begun
\* was triggered by is in the branch.
LaneTypeOK ==
    /\ branch \in Seq(Entries) /\ inbox \in Seq(Items)
    /\ pending \subseteq Entries /\ taken \subseteq Items
    /\ owned \in [args : SUBSET Entries, outputs : SUBSET Entries, frames : SUBSET Entries]
    /\ results \in [Runs -> {"none", "completed", "failed", "aborted"}]
    /\ minted \in 0 .. MaxMinted /\ crashes \in 0 .. MaxCrashes
    /\ asked \in [1 .. MaxMinted -> 0 .. MaxCalls]
    /\ runs \in [(1 .. MaxMinted) \X Positions -> Nat]
    /\ op \in Operations \cup {Nothing}
    /\ op # Nothing =>
         /\ op.reserved <= minted /\ Len(op.calls) <= MaxCalls
         /\ op.at \in Waits => op.attempt > 1
         /\ (op.calls # <<>>) <=> (op.at = "tools")
         /\ op.at # "starting" => op.trigger \in ToSet(branch)
    /\ drive \in Drives \cup {Nothing} /\ abort \in Aborts \cup {Nothing}

\* A queued item and a tool result each have one place: waiting in the inbox
\* or with its call, an entry of the branch, or handed back; and a payload
\* is stored exactly as long as something still refers to it.  Commits that
\* move them are made by callers, by the Drive and by an abort.
Staged == IF op = Nothing THEN {} ELSE {Id(k) : k \in {j \in Calls : op.calls[j] = "outcome_ready"}}

EveryEntryOnce ==
    /\ IsInjective(branch) /\ IsInjective(inbox)
    /\ pending = ToSet(inbox) \cup Staged
    /\ pending \cap ToSet(branch) = {}
    /\ taken \cap (pending \cup ToSet(branch)) = {}

\* What an operation owns, its preparations of summaries left out, goes with
\* the state that needs it: arguments with
\* a call that has started, checkpoints with a call whose effect is
\* pending, frames with a reply that is pending; after the end, nothing.
OwnedAsNeeded ==
    IF op = Nothing THEN owned = NoValues
    ELSE LET In(states) == {Id(k) : k \in {j \in Calls : op.calls[j] \in states}}
         IN /\ In({"effect_pending"}) \subseteq owned.args
            /\ owned.args \subseteq In({"effect_pending", "outcome_ready", "completed"})
            /\ owned.outputs \subseteq In({"effect_pending"})
            /\ owned.frames # {} => op.at = "assistant.effect_pending"
                                    /\ owned.frames = {Reply(op.reserved)}

\* In the branch every reply with tool calls is followed at once by their
\* results in source order: all of them, or the placed prefix of the batch
\* that is open.  Whatever finished first, was replayed, refused or swept
\* after a cancellation, the next reply never sees a call without a result.
ResultsFollowTheReply ==
    \A j \in DOMAIN branch :
        \A n \in 1 .. minted :
            branch[j] = Reply(n) =>
                LET open == op # Nothing /\ op.at = "tools" /\ op.reserved = n
                    placed == IF open THEN Cardinality({k \in Calls : op.calls[k] = "completed"})
                              ELSE asked[n]
                IN /\ Len(branch) >= j + placed
                   /\ \A k \in 1 .. placed : branch[j + k] = Result(n, k)
                   /\ open => Len(branch) = j + placed

\* The effect of a tool that may not be replayed starts at most once, however
\* often the process dies; one that may starts at most once per process.
EffectsAreNotRepeated ==
    \A n \in 1 .. MaxMinted, k \in Positions :
        runs[<<n, k>>] <= IF k \in Safe THEN 1 + crashes ELSE 1

\* A run ends once: with "aborted" exactly when its cancellation was durable
\* before, whatever the Drive was doing when the cancellation arrived.
CancellationDecidesTheEnd ==
    [][\A r \in Runs : results'[r] # results[r] =>
          /\ results[r] = "none" /\ op # Nothing /\ op.id = r
          /\ (results'[r] = "aborted") <=> op.cancelled]_vars

\* No tool effect and no request to the model, for a reply or for a summary,
\* starts once the cancellation is durable, also when the abort was asked for
\* before there was a Drive or between two requests of one summary.
Starts ==
    \/ runs' # runs
    \/ Standing("requesting") /\ Standing("streaming")'
    \/ Standing("asking") /\ Standing("answering")'

NothingStartsCancelled == [][Starts => ~op.cancelled]_vars

=============================================================================
