# Tools Touch: TLA+ models, model checking and proofs

Tools Touch is a Windows desktop application (C#/WPF) that helps a student find
supervisors, read their work and write to them. It keeps everything in one
SQLite database, runs a language-model agent in a child process (the agent host,
which embeds the `pi` coding agent kept under `pi/`), and sends mail through
Gmail. This directory models the parts of it whose correctness depends on
*order*: the persistent job queue, the execution of a task against the agent
host, the channel between the two processes, the agent's session and its durable
lane, the sending of a letter, and the editing and import of record tables.

What can go expensively wrong in such a program: a long, paid-for task that is
repeated, lost or filled with somebody else's answer after a crash or a timeout;
a cancellation that reaches the wrong run; a tool whose effect happens twice; a
conversation the model provider refuses because a result lost its call; a letter
that reaches a professor twice, or in a version that the user did not review; a
table in which an import overwrites what the user has just typed. The modules
here state what the code promises about these, TLC checks it on small instances,
and TLAPS proves every safety property of every module, action properties and
refinements included, for instances of every size; liveness stays with TLC.

Contents: 1 Inventory; 2 Plan; 3 Modules and how they correspond to the code;
4 Runs, bounds and fairness; 5 Disagreements found; 6 Proofs; 7 What is only
model-checked; 8 What is not modelled; 9 How to run.

Paths are relative to the root of the repository; `Infrastructure/` stands for
`src/ToolsTouch.Infrastructure/`, `Desktop/` for `src/ToolsTouch.Desktop/`,
`session/` for `pi/packages/coding-agent/src/core/` and `runtime/` for
`pi/packages/agent/src/harness/runtime/`.

## 1. Inventory

| Component | State | Operations | Hard because |
|---|---|---|---|
| Job queue: `Infrastructure/Persistence/JobRepository.cs`, `JobScheduler` in `src/ToolsTouch.Application/Jobs.cs` | `AgentRun`, `JobStage`, `JobAttempt`, `JobBudget` | Create, TryAcquireNext, RenewLease, CompleteStage, FailStage, CancelStage, RequeueIncomplete, CompleteRun, RecoverExpiredLeases, RecoverStaleLeases, TryConsumeBudget | leases that expire, lease values kept too long, one fact in three tables, retries and attempts at their limit |
| Task execution: `Infrastructure/Legacy/DiscoveryService.cs` | a gate, the current lease, the in-memory checkpoint, the pending answer | Create, ExecuteAsync | awaits between every two transactions, cancellation, two timers, resumption |
| Agent bridge and host: `Infrastructure/Pi/AgentBridge.cs`, `agent-host/src/index.ts` | pending requests, active run, tool cancellation; `busy`, `activeRun`, pending tool calls | run, cancel_run, login, tool_request/result | two processes on a pipe, late answers, death, one session at a time |
| Mail sending: `Infrastructure/Google/SendCoordinator.cs` | `SendConfirmation`, `SendAttempt` | Prepare, Confirm, SendAsync, RecoverInterruptedSends | a request whose fate is unknown; double clicks; crash between any two steps |
| Outreach drafts: `Infrastructure/Legacy/OutreachService.cs` | `Outreach`, `DeliveryCheck`, `EmailThread` | CreateDraft, Edit, ReconcileAsync, SyncRepliesAsync, RecoverInterruptedSends | two tables that tell one story; an index at Gmail that lags behind |
| Gmail transport and authorization: `Infrastructure/Google/GmailService.cs`, `GmailAuth.cs` | the connected account, a cached token | SendAsync, FindSentCandidatesAsync, ConnectAsync, AccessTokenAsync | the account is compared before the token is awaited |
| Desktop shell: `Desktop/MainViewModel.cs`, `AccountsViewModel.cs`, `AppServices.cs`, `App.xaml.cs` | `Busy`, `mailBusy`, selected run and draft | commands and their guards; the order of start-up | the guards are what keeps some operations apart |
| Agent session: `session/agent-session.ts`, `session-manager.ts`, `compaction/compaction.ts`, `pi/packages/agent/src/agent.ts`, `agent-loop.ts` | the conversation in memory, the session file, steering and follow-up queues, deferred messages, retry and compaction flags | prompt, steer, followUp, sendCustomMessage, recordBashResult, clearQueue, abort, compact; the turn loop | callers that arrive between any two awaits of a run, one conversation kept twice |
| Durable lane: `runtime/lane.ts`, `drive.ts`, `drive/*.ts`, `restore.ts` | the branch, the open operation's leaf, the inbox, payloads and values it owns | enqueue, append, accept, drive, requestAbort, cancelQueued; the Drive's procedures | a crash between any two commits, an abort at any moment, tools that finish in any order |
| Record workspace: `Infrastructure/Tracking/RecordWorkspaceService.cs`, `ImportPreviewService.cs`; `Desktop/RecordGridViewModel.cs` | `RecordRef`, `FieldValue`, `RecordChange`, `ImportBatch`; the page shown | CreateCustomRecord, UpdateCell, BulkEdit, Undo, ApplyImportedRows; Preview, Commit, Cancel | stale pages and plans, repeated commands, a commit of two transactions and a file that changes |
| Idempotent tool writes: `ResearchStore.WriteOnce`, `ToolDispatcher`, `LibraryService` | `ToolWrite` and the tables written | one write per idempotency key | retried tool calls |
| Application cases: `Infrastructure/Tracking/ApplicationCaseService.cs` | revisions, stage history | optimistic updates | two editors with one revision |
| Backup: `Infrastructure/Persistence/BackupService.cs` | a staging directory | Create, Verify | copies beside a live writer |
| Faculty and admission collection, recommendation, search, export, migrations | result tables | import, crawl, rank, query | mostly data; see section 8 |

How they interact. The desktop starts as a single instance (a named mutex in
`App.xaml.cs`). `AppServices` recovers the leases of the dead process,
`MainViewModel` then recovers runs and letters, each in a transaction of its
own, before any command is enabled. Connecting the agent starts a host process
and creates a new `DiscoveryService`, hence a new owner session. A task creates
a run and executes it stage by stage: acquire a lease, spend budget, write a
request to the pipe, wait for `run_finished`, validate, commit output and
checkpoint, next stage; finally close the run. Sending saves the draft, prepares
a preview, asks the user, confirms, claims the attempt, awaits a token, posts,
and stores the outcome; a letter whose fate is unknown is reconciled later by
searching the Sent folder for its Message-ID.

The agent host answers a run by creating a session of the agent, prompting it
and disposing of it; the agent's tools are requests back to the desktop over the
same pipe, served under a cancellation token of the run. The host pins version
0.85.0 of the pi coding agent, the version kept under `pi/`; the durable harness
is the next generation of the same agent, kept beside it. Records are edited from
the grid and by table imports that were previewed before; every change of a cell
goes through `RecordWorkspaceService.ApplyUpdate`.

What makes each component correct, in a sentence:

- queue: at most one live attempt per run, always at the first stage without an
  output; an output is committed once, by the live lease only; what happened is
  never rewritten; run and stages agree;
- execution: the persistent checkpoint is exactly the set of completed stages;
  the stored output answers the attempt credited with it; every execution ends;
- sending: a letter arrives at most once, as reviewed, from the account shown;
  the two tables agree and neither says Sent or Failed unless it is true;
- channel: whoever waits gets an end; a tool runs under its own run's token; a
  call the host waits for is known to one side at least;
- session: no message is lost or delivered twice, a result follows its call, and
  the session file tells the story the model was told;
- lane: every entry, payload and result has one place, an effect is not repeated
  after a restart, and a durable cancellation decides how the run ends;
- records: the history explains the cells, nothing is overwritten unseen, an
  imported row lands once, and a batch is written as a whole or not at all.

The hazards behind these properties are listed with their lines in
`PROJECT.json`.

## 2. Plan

Written so far, in this order: `StagedRun`, `JobQueue`, `JobQueueProofs`,
`Discovery`, `Correspondence`, `MailSend`, `MailSendProofs`; then
`AgentChannel`, `AgentChannelProofs`, `AgentSession`, `DurableLane`,
`DiscoveryProofs`, `RecordCells`, `RecordCellsProofs`; then `SequenceLemmas`,
`DurableLaneProofs`, `AgentSessionProofs`.

To come, most important first:

1. `ToolWrites` (WriteOnce, CreateDraft), `ReplySync`, `ApplicationCases`,
   `Backup`: the hazards of `PROJECT.json` without a property name them.
2. In `DurableLane`: deferred replies, standalone compaction and navigation.
3. Pure algorithms: the admission window evaluation and the ranking order,
   against reference definitions over bounded inputs.

Composition: `Discovery` EXTENDS `JobQueue` and drives its actions, and
`DiscoveryProofs` proves that the composition still implements the abstract
queue. `AgentChannel` looks at the pipe from both ends with two runs and a login,
`Discovery` at the same pipe as one execution sees it. Abstract specifications:
`StagedRun` for the queue and for the execution over it, `Correspondence` for
sending.

## 3. Modules and how they correspond to the code

### `StagedRun` (abstract) and `JobQueue`

`StagedRun` is the promise: done, working, tries, closed; Claim, Commit,
Abandon, Close. No rows, owners, leases or clock.

`JobQueue` is `JobRepository`: one action per method, each one SQLite
transaction, so a method that throws or answers null or false has no step.

- `run[r]`, `stage[r][s]`, `attempt[r][s][n]` are the rows of `AgentRun`,
  `JobStage` and `JobAttempt`; a `JobAttempt` row also stands for the `JobLease`
  value handed to the caller. A caller may use any lease ever issued, however
  old: the actions on leases range over all attempts that exist.
- A timestamp compared with "now" is the time left until it is reached
  (`LeaseExpiresAt` is `left`, `NextAttemptAt` is `wait`); `Tick` lets time pass.
  This makes time relative and the state space finite without capping a clock.
- The payload of outputs and of the checkpoint is abstracted to *which* stages
  it covers. Events, error texts and progress are left out.
- `JobScheduler` only forwards, apart from the fixed retry delay.

### `Discovery`

`DiscoveryService.ExecuteAsync` over `JobQueue`, with the process around it.
`exec.phase` is the await the method is suspended at:

| phase | in the code |
|---|---|
| idle | gate free |
| next | before a stage, or before CompleteRun (lines 62-66, 121) |
| leased | lease in hand, before the request (67-90) |
| writing | in `RequestAsync` (91-97), at the writer semaphore or the write itself (`AgentBridge.cs:83`, 179-189): no timeout yet |
| asked | the request is written, the 30 s wait for its response runs (`AgentBridge.cs:84`) |
| waiting | in `result.Task.WaitAsync` (101) |
| throwing | in the catch block, before its `CancelQuietlyAsync` (123-125) |
| cancelling | the frame of the cancel waits to be written, without timeout or token |
| awaiting | the cancel is written, the wait for its response runs |
| failing | the rest of the catch block (126-134) |

A frame waits in `outbox` until `WriteFrame` finds room in the host's standard
input, `inbox`, which holds `PipeSize` frames; frames waiting for the semaphore are
written in no given order. `activeRun` is the bridge's: what a cancel is sent to.

`Crash`, `Boot`, `RecoverLeasesAtStartup`, `RecoverInterruptedRun` and `Started`
are the process and its start-up in the order of `AppServices` and
`MainViewModel`; `Connect` draws a new owner session. The agent host reads the
pipe in order, refuses while busy, accepts or refuses, finishes a job with one
answer, answers a cancel, or dies. Late answers are in the model because a job survives in the
host when the execution that asked for it has moved on. Tool calls are in
`AgentChannel`; here the effect of `cancel_run` is that the host finishes a job with a
"bad" answer, which it may do at any time. What the token's registration sends
beside the catch block's cancel goes to the same run and is sent once.

`Punctual = FALSE` lets time pass between any two steps (a suspended laptop);
`TRUE` makes code instantaneous and timers exact, which is the kinder
environment, used where a disagreement is to be shown.

### `Correspondence` (abstract) and `MailSend`

`Correspondence` is the promise about letters: revise freely, commit, arrive at
most once with the committed text from the committed account, release only when
it has not arrived.

`MailSend` has the rows of `Outreach` (`draft`), `SendConfirmation` (`conf`) and
`SendAttempt` (`attempt`), the asynchronous calls in progress (`call`), requests
on their way (`wire`) and the Sent folders (`copies`). A confirmation identifies
its MIME artifact, its fixed Message-ID and its only possible attempt
(`ConfirmationId` is UNIQUE in `012_send_confirmation.sql`).

| phase of a call | in the code |
|---|---|
| read | `SendCoordinator.SendAsync` has read the attempt (158-164) |
| claimed | attempt set to Transmitting (165-171) |
| token | `GmailService.SendAsync` awaits a token (42) |
| posted | awaits the response (48) |
| accepted | has a 2xx response, storing it (174-192) |
| rejected / unclear | the exception path (193-208) |
| checking | `ReconcileAsync` awaits the search (255) |

Gmail (`Accept`, `Refuse`, `Vanish`) may act on a request after its caller gave
up or the process died; a search of the Sent folder may miss a message that is
there (`ReconcileInconclusive` is always possible). Checks of the CV file and of
the artifact are refusals caused by the environment: they change nothing and are
no steps. The text of a draft is its revision number. The mail commands of the
desktop are mutually exclusive (`mailBusy`), the model lets sends, edits and
reconciliations interleave freely, as the tests do; of `mailBusy` only the guard
of `Connect` is kept, because the code relies on it (section 5, observations).

### `AgentChannel`

The two FIFO pipes between `AgentBridge` and the host, with their two users in the
desktop (`DiscoveryService` and the account page). An operation is a run or a
login.

| variable | in the code |
|---|---|
| `task[k]` | the application's view: the request is *sent*, accepted (*running*), given up (*stopping*), *over* |
| `canceller[k]` | a `CancelAsync` that awaits the callbacks of the tool token before it reads its target |
| `bridge` | `activeRun`, `activeAuth`, and the run whose `run_started` made `toolCancellation` |
| `tool[c]` | what `HandleToolAsync` does for call c; *unknown* when no task context is left, *lost* when the reply could not be written |
| `host` | `activeRun`, its phase, `controller`, `toolCalls`, `pending`; `Authentication` with its controller |
| `toHost`, `toApp` | the pipes; the one to the host is bounded, so a write may wait |

The pump reads one message per step, the host handles one command per step, and
between the two anything else may happen: a cancellation, a timeout, a tool that
ends, a death. `HandleRefused` is always possible, because a model, a policy or a
login provider may be refused beside a busy host. Two abstractions: that a token
has been cancelled is not kept, because a cancelled tool still answers; and the
host is not restarted, because the application then builds a new bridge.

### `AgentSession`

`AgentSession` around `Agent` and its loop, on one JavaScript thread: a step is
what happens between two awaits that last, so other callers act between steps.

- `context` is `agent.state.messages`, `log` the branch of the session file;
  `Rebuild` is `buildContextEntries`. An entry is its role, its identity and, for
  a reply, its stop reason and number of tool calls.
- `run.phase` walks through `runLoop`: *ready* (polled messages), *streaming*,
  *tools*, *turnEnd*, *preparing*, *compacting* (the check before the next reply);
  and, once the loop has *ended*, through `_handlePostAgentRun`: *retrying* (the wait
  of a retry) and *after* (a compaction).
- `deferred` holds bash results that wait for the run and custom messages that
  wait for the end of a turn; `queue` the agent's two queues, `shown` what the
  session displays as waiting.
- A prompt goes through its *preflight* (the extension hooks and the checks before
  `_runAgentPrompt`) while others may act; the other calls are one step each,
  except `abort` and `compact`, which wait for the session to be idle.

`manual` is the compaction that `compact()` makes. It aborts and waits first, but then
nothing keeps it apart from a run: `prompt` looks at `_compactionAbortController`,
`sendCustomMessage` does not (agent-session.ts:1503-1504), so `TriggerRun` has no such
guard and a run may begin, call tools, retry and compact by itself while
`ManualStarts`, `ManualEnds` and `ManualFails` go their own way. `abort()` and
`compact()` may wait beside each other. Declared simplifications:

- Two prompts in preflight, or a prompt in preflight while a custom message starts
  a run, are excluded by a guard: the caller in this repository, the agent host,
  awaits one prompt per session. Section 5 says what happens without the guard.
- `abort()` and `compact()` are called once each in a behaviour, at any moment.
- A message ends in memory and in the file in one step: between the two only handlers
  of extensions run (agent.ts:554-590), which are taken to answer at once.
- Whether a reply is older than the latest compaction is a comparison of times in
  the code (agent-session.ts:2150-2157) and of places in the file here (`Recent`).
- Branch summaries, and what depends on the size of a conversation, are left out:
  a compaction is possible wherever the code's thresholds might ask for one.

`AgentSession` and `DurableLane` share `Filters`, a filter of sequences (in the lane,
`withoutInboxItems`) written as a recursive function, so that its results can be
proved about.

### `DurableLane`

One lane of the durable harness. Every durable change is one command on the
session's mutation line, so each action that changes `branch`, `op`, `inbox`,
`pending`, `owned` or `results` is one commit, named after the function that
plans it (`FinishBoundary`, `GenerationIntent`, `CommitPlacement`, ...). `op.at` is
the leaf of the operation's state, `drive.step` the place in `driveOperation` or in
one of its procedures; `Live` says that the Drive may run a command now, which one
claimed behind a queued abort may not before the abort's own command. `runs` counts the starts of each tool's effect: it is a history of
the world outside and survives a crash. `Crash` loses the Drive, its jobs and a
requested abort; a new Drive is claimed over the durable leaf and recovers it
(`RecoverGeneration`, `RecoverSummary`, `NotExecuted`, `Replay`). An attempt at a
summary makes one request to the model or several (structural.ts:843), each a durable
intent, an effect behind the gate and a recorded outcome (`SummaryRequestIntent`,
`SummaryRequest`, `SummaryAnswer`) between `SummaryIntent` and `SummaryResult`; after a
cancellation the next of them finds the gate closed. `Accept` asks that the run's id
has no result yet: ids are generated (lane.ts:486 and 574), the code does not look.
What a summary prepares (`operationPreparation`) is not among the values `owned`
stands for. `PublishOutcome` counts a call blocked by a hook that asks to terminate
(harness/execution/tools.ts:105-106) among those that do not, which decides only whether the
model is asked once more. An abort is two
steps: `RequestAbort` captures the Drive of the moment, `AbortCommits` is the
command that makes the cancellation durable and signals what was captured.

### `RecordCells`

`RecordWorkspaceService` and `ImportPreviewService` over the tables of migration
`015_record_workspace.sql`. Every writer opens its transaction with BEGIN
IMMEDIATE, so one at a time holds the write lock (`holder`). It works on a copy of
the tables (`work`) that a commit installs and a rollback, an exception or the end
of the process throws away; readers see `db`. A write transaction is cut into one
step per cell, so that an import may be rejected, or cut off, in the middle.

| action | in the code |
|---|---|
| `UpdateCell`, `BulkEdit`, `Undo` | the call's transaction begins, with the cells it is to write (`left`) |
| `WriteCell` | `ApplyUpdate` for one of them: known command, revision check, value, revision, history |
| `EditCommits`, `EditEndsEarly` | the commit; or an exception or death before it |
| `CommitFinds`, `CommitHashes`, `CommitPrepares` | `Commit` reads the batch, hashes the file, reads it *again* and plans the rows |
| `FileChanges` | the user edits or removes the source file, or puts a version of it back, at any moment |
| `ImportBegins`, `OpenRow`, `ImportCommits` | the transaction of `ApplyImportedRows`, row by row |
| `MarkCommitted`, `MarkFailed` | the second transaction, WHERE State = 'Preview' |
| `CommitEndsEarly` | the process ends, or an exception that Commit does not map, at any of these moments |
| `LoadCollection` | the grid reads revisions and values; edits are made from that page, however old |

A change carries what its author saw (`saw`), which the code does not store; it is
there so that a property can compare it with what was replaced. The type of a
value, choices, relations, field revisions (nothing changes a field once it is
created) and the parsing of files are data. A file is a sequence of rows (`Sheets`),
the changed version of any length, so a plan may have fewer rows than the preview. Each
item of a `BulkEdit` has its own record, field, value and command id. A stable key is
mapped in imports by key only. The command id and the record id of
an imported row are derived from the batch and the row number, as in the code,
and are the pair of both here. `BulkEdit` and `Undo` are called by tests only at
this commit; they are in the model because the service offers them.

### Variants

Beside some definitions a module holds a variant with a plausible mistake
(`ReadyAnyOrder`, `EnsureLeaseNoExpiry`, `MineByStage`, `OutcomeAlwaysFailed`...).
No specification uses them. `PROJECT.json` pairs each property with a variant
that breaks it, so that each property is known to be able to fail.

## 4. Runs, bounds and fairness

| run | instance | distinct states | time |
|---|---|---|---|
| `queue` (`MCJobQueue.cfg`) | 1 run, 2 stages, 3 attempts, 2 sessions, lease 2 ticks, retry 1 tick | 64,644 | 10 s |
| `discovery` (`MCDiscovery.cfg`) | 1 run, 2 stages, 3 attempts, 2 connections, 1 frame in the host's input, late steps allowed | 254,295 | 45 s |
| `mail_send` (`MCMailSend.cfg`) | 2 drafts, 2 confirmations, 2 calls, 2 accounts, 2 revisions | 200,032 | 60 s |
| `agent_channel` (`MCAgentChannel.cfg`) | 2 runs and a login, two of them started, 1 allowed and 2 attempted tool calls each, 2 messages in the pipe | 86,512 | 40 s |
| `agent_session` (`MCAgentSession.cfg`) | 1 prompt, 1 custom message, 1 bash result, 1 retry, 2 failures, 1 tool call, 1 compaction, one `abort()` and one `compact()` | 1,564,560 | 80 s |
| `lane` (`MCDurableLane.cfg`) | 1 run, 2 parallel tool calls (one replayable), 1 follow-up, 1 silent write, 2 attempts, 2 replies or summaries, 1 crash | 2,370,812 | 170 s |
| `records` (`MCRecordCells.cfg`) | 1 record, 1 batch of 2 rows, 2 fields, 1 editor, 1 command, bulk edits of 2 cells, 1 call of Commit at a time | 787,026 | 130 s |
| `discovery_resume`, `discovery_timeout` | 1 run, 2 stages, 2 attempts, punctual | counterexample | 2 s |
| `agent_cancel`, `import_failed` | the instances of `agent_channel` and `records` | counterexample | seconds |
| `session_continue` | that of `agent_session`, 2 tool calls, no `abort()` and no `compact()` | counterexample | seconds |

What they show. `queue`: `LeaseCoherent` (who holds the lease is one fact in
three tables), `AttemptLedger` (numbering without gaps, the Completed attempt is
the newest), `RunMatchesStages`, the action properties `OnlyLiveLeaseConcludes` (no
stage or attempt is completed, failed or cancelled but by a live lease) and
`HistoryIsFinal` (of stages, runs, attempts and their count), and that the queue implements `StagedRun`. `discovery`:
`CheckpointMatchesStages`, `OutputFromOwnAttempt`, `BudgetSuffices`,
`StartupSettles` and `ExecutionTerminates` through a whole process with crashes.
`mail_send`: `RowsAgree`, `RecordsAreTrue`, `AtMostOneCopy`, `SentAsReviewed`,
`CallsReturn` and that sending implements `Correspondence`.

`agent_channel`: `WaitIsAnswered` (what a waiting operation waits for is being
worked on or is in a pipe), `PendingCallIsSomewhere` (no tool call is forgotten by
both sides), `TokenOfOwnRun`, and `EveryOperationEnds`. `agent_session`:
`ResultsFollowTheirCall` in memory and in the file (of what was said: the summary of
a manual compaction may stand between), `EveryMessageOnce`,
`DisplayAgrees`, `ResumeSeesTheConversation` (memory and file agree up to failed
replies), `NobodyIsForgotten`. `lane`: `EveryEntryOnce`, `OwnedAsNeeded`,
`ResultsFollowTheReply`, `EffectsAreNotRepeated`, `CancellationDecidesTheEnd`,
`NothingStartsCancelled`. `records`: `HistoryExplainsCells`,
`NothingOverwrittenUnseen`, `AppendedRowsLandOnce`, `ImportIsWhole`.

`StagesInOrder`, and the type invariants of `MailSend`, `AgentChannel` and
`RecordCells`, are proved for every instance (section 6) and no longer part of a
run; the same holds of `ImplementsStagedRun` for `Discovery`.

Why the bounds are enough. Rows of different runs meet only in RecoverLeases,
which treats each row by itself, so one run shows the interplay and the proofs
cover any number. Two stages is the most the application creates (`Analyze`) and
the least at which order matters. Three attempts is the application's number and
leaves a first, a middle and a last one. Two sessions make every race; more only
repeat it. A lease of two ticks has a fresh, an ageing and an expired state. In
`discovery` the number of sessions bounds the *connections* (`unused`): with two,
an execution meets a run left by another session; crashes are not bounded. A pipe
that holds one frame is full as soon as a frame waits in it, which is when a request
or a cancel waits to be written. In
`mail_send` two confirmations are two concurrent previews of one draft, or one
of each draft; two calls are a double click, or a send and a reconciliation; the
instance with three confirmations of one draft was explored as well (329,860
states) with the same result. `MaxRevision = 2` allows an edit before or after
either preview.

In `agent_channel` `MaxStarted = 2` is an operation and its successor, which is
where targets and tokens get mixed up; the second attempted tool call is the one
over the budget. In `agent_session` one message of each kind meets every phase of
a run, two failures with one retry reach a retry that succeeds, one that is spent
and an overflow after a retry. One tool call leaves room for a bash result, a custom
message or a manual compaction between a reply and its result; the places *between*
results of a longer batch are covered by the proof, which holds for any number of calls
(without `compact()`, an instance with two calls was explored as well: 521,288 states). In `lane` two parallel calls finish, are replayed and are swept in every
order; the silent write and the follow-up are a boundary with something that asks
the assistant and something that does not; the second minted id is the reply after
the tool results or the one after a summary. In `records` both versions of the
file have cells of both fields; the previewed one has two rows with a key each, the
changed one is shorter and its one row has the second row's key and a note, so that a
row planned from one version would land visibly in the wrong record, and a plan of one
row is not the batch that was previewed. The user's
record competes for a key with the imported ones. `Typed` is what editors type,
`MaxEdits` bounds the new changes they ask for (retries of a known command are
free). One editor and one call of Commit at a time is what the desktop allows (a
`UiCommand` is disabled while it runs); a second, concurrent call is covered by
the proofs, which hold for any number of editors, calls, rows and commands.

Deadlock is checked in `queue`, `discovery`, `mail_send` and `records`: no reachable
state is stuck, because a crash, a timer, an operation or a reload is always
possible. It is not checked in `agent_channel`, `agent_session` and `lane`, which
really stop: all operations the bound allows are over, all messages are sent and
handled, or the run has ended and the inbox is empty.

Fairness. Safety runs assume none. `DSpec` adds weak fairness of `Advance`, the
steps `ExecuteAsync` takes by itself once its await is over (a waiting frame is
written once there is room for it), of `TimePasses`, and of `HostReads`: a .NET
continuation is eventually scheduled, the clock runs, and a host that lives keeps
reading its standard input. The last one is an assumption about the host that the
property needs: the writes of a request and of a cancel have no timeout
(`AgentBridge.cs:83`, 179-189, `DiscoveryService.cs:125`), so a host that stopped
reading would hold `ExecuteAsync` for ever. It is what the host's code does: its
stream handler cuts lines and hands them over without awaiting anything
(`agent-host/src/index.ts:184-197`), whatever a session, a tool or the model is doing.
Nothing else is assumed of the host, the user or a restart: `ExecutionTerminates`
holds although the host may never answer, or die.
`MailSend.Spec` assumes weak fairness of the steps of each call: HttpClient times
out (40 s) and continuations are scheduled. Gmail is not assumed to answer.
`AgentChannel.Spec` assumes that both event loops keep reading their pipes (as above), that the
host's own timers fire (`limits.timeout_ms`, the deadline of a login), that a
session that is being created is created or fails, that an *aborted* run or login
settles, and that a task that gave up, or a `CancelAsync` once called, goes on. It
does not
assume that tools answer, that the model answers, that the application's request
timers fire before anything else, or that the user cancels: `EveryOperationEnds`
rests on the host's timers, on the abort rejecting what is pending, and on
`finished` being sent for every end. The other modules state safety only.

## 5. Disagreements found

Five statements of documents, comments and tests do not hold of the code; each has
a run that shows the shortest way there.

- `InterruptedRunResumes`. The documents say an interrupted run is resumed from
  its checkpoint. If the process ends (or the user cancels and then restarts)
  *between* the commit of a stage and the next transaction, the run is Running
  with no stage Running; start-up makes it Partial; and ExecuteAsync requeues
  every Partial run first, which is refused (JOB_NOT_REQUEUEABLE) because no
  stage is Failed or Cancelled. The run, even one with all its outputs committed,
  cannot be resumed or closed.
- `NoOrphanedAttempt`. The wait for the agent is as long as the lease but starts
  later, and nobody renews the lease. On a timeout the lease has expired,
  `Fail` throws STALE_JOB_LEASE, and instead of RetryScheduled the attempt stays
  Running until the application restarts.
- `AbandonedRunIsCancelled`. A cancellation is to be handed to the process
  concerned. When a session cannot be started the host sends a refusal and a
  `run_finished`; the desktop may start the next run between the two, the second
  message then clears the new `activeRun` (run ids are not compared), and a
  cancellation of the new run is sent to nobody.
- `ContinueIsAccepted`. After an overflow compaction the failed reply is removed
  from the rebuilt conversation so that `agent.continue()` accepts it. If the
  compaction keeps two failed replies in a row, one stays, and prompt() throws.
- `FailedWroteNothing`. "A failed import batch writes no partial records." The rows
  are committed in one transaction, the state of the batch in the next. If the call
  ends between the two and the file changes (or is removed) before Commit is
  repeated, the batch is marked Failed with all of its records in place.

Observations that have no run of their own. Queue and mail: an attempt
interrupted by a crash counts, and a stage whose last attempt was interrupted is
Queued with no attempt left, in a run that is Queued for ever. RenewLease
compares owners only, so an old lease of the same session prolongs the current
one; the invariants hold nevertheless. GmailService compares the account before
it awaits the token; that a letter never leaves from another account rests on
`mailBusy` in the desktop and not on the service (remove the guard from `Connect`
and `SentAsReviewed` fails). A refusal before the claim (account changed, artifact
unreadable), or a failed outcome transaction, leaves the attempt Sending or
Transmitting until the next start, where it becomes Unknown.

Channel: a `RequestAsync` cancelled before it writes leaves its run in `activeRun`.
A reply to a tool that cannot be written cancels whatever token is current.
`CancelQuietlyAsync` of a failed task cancels whatever is active, not its own run.

Session: a custom message that triggers a turn while a manual compaction is under way
starts a run beside it (agent-session.ts:1503-1504). The compaction then appends its
entry (line 2031) wherever the run is, also between a reply and its tool results in
the session file, and the file's later rebuilds show it there once another compaction
keeps that range (session-manager.ts:418-455); `ResultsFollowTheirCall` is
therefore stated of what was said, summaries left out, and the order of replies and
results themselves holds. The rebuilt conversation also brings back a failed reply
that a retry has just dropped; when that retry wakes, `agent.continue()` finds a reply at
the end and throws. If two callers did start runs at once (the RPC mode starts prompts
without awaiting them), a prompt in its preflight while a custom message starts a
run is rejected by the agent, and its finally block emits `agent_settled`
(agent-session.ts:1116) while the other run streams, which docs/rpc.md:865 rules
out. A custom message flushed after a failed reply keeps `_prepareRetry` and the
overflow recovery from removing that reply. `clearQueue` called after the loop has
polled returns a message that is delivered all the same. `abort()` during a
prompt's preflight does not stop the prompt.

Lane: `requestAbort` wakes a retry wait (harness.md:993) only of the Drive it
captured; a Drive claimed between the request and its command (lane.ts:1012) sleeps
until the retry is due, although the cancellation is durable. The timer starts
nothing: the gate it comes to is closed (`NothingStartsCancelled`); only the end is late.

Records: `Undo` writes the value before a change whether or not later changes have
followed; it only asks for the current revision. A batch that says Cancelled may
have been written, when Cancel runs beside a Commit. A by-key import that is
committed again after a cut may land a row in a second record, if the key has
moved to another record in between (`AppendedRowsLandOnce` is therefore about
appended batches). The file is
hashed and then read again (ImportPreviewService.cs:79-89), so a change between the two
applies content nobody previewed, of fewer rows perhaps; and if such a commit is cut off
before its mark and the file restored, the repeated commit applies the previewed
version over the other one. `ImportIsWhole` asks that what is written is the whole of
the version, or versions, the commits read. Edits between Preview and Commit are not conflicts: Prepare reads the
revisions anew, and `NothingOverwrittenUnseen` is about what Prepare saw, not about
what the user was shown.

## 6. Proofs

The proofs are about `JobQueue`, `Discovery`, `MailSend`, `AgentChannel`,
`AgentSession`, `DurableLane` and `RecordCells`, which is every model but the two
abstract ones. Each module of proofs shows that a conjunction is kept by every
action and then that the properties follow from it.

### The queue

The theorems hold for every set of runs and sessions and every number of stages,
attempts and ticks, under the assumptions named in the module: `NoSession` is no
session, at least one stage and one attempt, a lease of at least one tick. They
use no property of the number 3.

`JobQueueProofs` proves `InductiveInvariant`, THEOREM Spec => []IInv. IInv is the
conjunction of `TypeOK`, `LeaseCoherent`, `AttemptLedger`, `StagesInOrder` and
`RunMatchesStages`, each stated strongly enough for the others. None is
inductive alone: that a second attempt cannot start needs that no stage is
Running when the first incomplete one is ready, which needs the order of stages
and the agreement of run and stage rows; that the ledger stays without gaps needs
that only the newest attempt can be Running. The step is proved action by action;
row updates are stated once as lemmas about a single run, stage or attempt, and
rows that an action does not touch are dispatched first. From IInv follow
`TypeCorrect`, `LeaseAlwaysCoherent`, `LedgerAlwaysAgrees`, `StagesAlwaysInOrder`
and `VerdictAlwaysAgrees`; `HistoryStep` proves that one step from IInv respects
both action properties, which gives `HistoryAlwaysFinal` and `ConclusionsAlwaysLive`.

The module also proves `QueueImplementsStagedRun`, Spec => ImplementsStagedRun.
Initial states map to initial states; each action maps to one abstract step:
TryAcquireNext to Claim, CompleteStage to Commit, FailStage and CancelStage to
Abandon of one run, the recoveries to Abandon of the runs with a lapsed lease,
CompleteRun to Close, the others to a stutter. The heart is that
`working`, the set of all Running attempts of a run, is empty or the one newest
attempt, which is the coherence of leases.

### Sending

The theorems hold for every set of drafts, confirmations, calls and accounts and
every bound on revisions; the assumptions are that `NoDraft`, `NoConf` and
`NoAccount` are not among them and that there is a first revision.

`MailSendProofs` proves `InductiveInvariant`, THEOREM Spec => []IInv. The properties
of section 3 say what the tables must not say; none is inductive, because none
speaks of the calls in progress. IInv adds, beside the types,

- `DraftOK`: a draft that is not editable points, by its snapshot, to its only
  live attempt, whose state fits the draft's (`Live`); between the two recoveries
  the draft may be Unknown while the attempt is still in flight, and only then;
- `ConfOK`: a confirmation is consumed exactly when it has an attempt, and the text
  of a live attempt is still the text of its draft;
- `Delivery`: copies and requests belong to the confirmation's sender and to an
  attempt that may have been posted, and a request on the wire has no copy yet;
- `CallOK` and `Distinct`: what each phase of a call knows. A call past its claim
  is the only one on an attempt, which is Transmitting; while its phase is
  claimed, token or rejected, nothing of the letter is on the wire or in a folder.

The last two carry the argument that "rejected" may be recorded as Failed, and
with it that an edit and a second confirmation cannot lead to a second copy. The
step is proved by one lemma per action and, under it, one step per conjunct.
From IInv follow `TypeCorrect`, `RowsAlwaysAgree`, `RecordsAlwaysTrue`,
`AlwaysAsReviewed` and `NeverTwoCopies`; in the last, the copies of a draft all
come from the confirmation of its snapshot and from that confirmation's sender,
so there is one at most.

The module also proves `MailImplementsCorrespondence`, Spec =>
ImplementsCorrespondence. Edit is Revise, Confirm is Commit, Accept is Arrive, a
StoreOutcome of a rejected call is Release, every other step is a stutter.

### The execution

`DiscoveryProofs` proves `DiscoveryInductive`, THEOREM DSafeSpec => []DInv, where DInv is
the queue's IInv with

- the types of the process, the pipe and the host (one job at most);
- `Recovered`: after the lease recovery of a start no stage is Running;
- `ExecInv`: an execution belongs to a running process with a session, what it
  believes completed is the checkpoint of its run, and a good answer is the
  answer to the attempt in hand;
- `Budget`: a run never asked more often than it began attempts, and the attempt
  that has its lease but has not asked yet is not counted yet;
- `CheckpointMatchesStages` and `OutputFromOwnAttempt` themselves.

Every step of `Discovery` is a step of the queue on the three tables, or changes a
Running run to Partial (`RecoverInterruptedRun`), or leaves them alone; steps that begin
and commit nothing are treated once (`Quiet`). The budget is a count: the attempts
begun are a set of pairs (stage, number), of at most NStages * MaxAttempts elements,
and `Create` grants 3 * NStages requests; that MaxAttempts is at most 3 is the
assumption `DefaultAttemptsAssumption`. From DInv follow `CheckpointAlwaysMatches`,
`OutputAlwaysOwn`, `BudgetAlwaysSuffices` and `StartupAlwaysSettles`, and, with the
mapping of the queue's refinement, `DiscoveryImplementsStagedRun`.

### The channel

`AgentChannelProofs` proves all five invariants of `AgentChannel`, for any number
of runs, logins and tool calls and pipes of any length: `TypeCorrect`,
`ResearchExcludesLogin`, `TokenAlwaysOwn`, `WaitsAlwaysAnswered` and
`PendingCallsCarried`.

The token needs an argument about the order of a pipe: `run_started`
travels before every `tool_request` of its run, and between a request in the pipe
and the token in force no `run_started` of another run may come. `TokenInv` says so
of every position (`Covers`): the last `run_started` before a request, or the token
if there is none, is of the request's run (`RequestsCovered`), and the last one of
the whole pipe is of the run that is prompting in the host (`RunCovered`). The pump
takes from the front, the host adds at the end; both keep it.

`WaitIsAnswered` is not inductive: a task that has been told its run was accepted
waits for a `finished` that only the host's active run, or the pipe, can hold. So
`AnswerInv` adds that such a task is *served* (it is the host's run or login, or its
`finished` is in the pipe), and that the host never works on an operation the
application has not asked for. Messages are read one at a time and the reading
of one can end at most one wait (`Fate` lists what a step does to each task).
`PendingCallIsSomewhere` is inductive over the types and `OneSlot`.

### The session

`AgentSessionProofs` proves all six invariants of `AgentSession`, for any number of
prompts, custom messages and bash results, any limit of retries and any bounds on
replies, calls and compactions. The assumptions: messages of different kinds are
different, and `abort` and `compact`, which stand for the calls of those names, are no
messages; an assistant reply may hold one tool call at least.

`SessionInvariant` is THEOREM Spec => []IInv. IInv was checked by TLC on the instance of
section 4 before it was proved; its parts are

- `Types`, `PhaseOK`, `CallersOK`: who is where. A prompt in its preflight is alone and has no run
  beside it, an automatic compaction belongs to the run or the prompt that waits
  for it, and polled messages are held only where the loop is about to add them.
  The manual compaction is bound to none of them;
- `Conversation`: results follow their calls in both copies, every summary keeps from an
  earlier entry of the file, and the two copies agree up to failed replies. Only the
  three together are kept: what a rebuild shows depends on where the last summary
  cuts, and a cut in the middle of a batch would leave a result without its call;
- `KeptOK`: a compaction in progress, the automatic as well as the manual one, has
  chosen an entry that is in the file and is no result (`KeptAt`). It is chosen before the
  summary is written, and entries may arrive between the two;
- `ToolsOK`: while tools run, what was said (`Said`: a copy without its summaries) ends in
  both copies with the same entry, the reply or the result before. This is why bash
  results and custom messages have to be deferred, and why a summary that a
  manual compaction puts in between parts no result from its call;
- `EndsOK`: a reply at the end of memory, or of the file, after a turn is the one whose stop
  reason the run remembers (`EndsIn`), so that the reply a retry drops is a failed one,
  which `ResumeSeesTheConversation` does not compare. The file is needed because a
  manual compaction may rebuild memory from it at that moment;
- `QueuedOK`: whatever is queued or displayed has a caller that says *queued*, hence is not
  sent twice; `DisplayAgrees` and `EveryMessageOnce` themselves.

`EveryMessageOnce` counts occurrences, so its lemmas say what the count of a
concatenation and of an extended sequence is (`OccursConcat`, `OccursAppend`); the
steps that move a batch of messages from one place to another are then sums that
agree. The rebuilding of a conversation is handled through three
lemmas: what the file rebuilds to after an entry is added (`RebuildGrows`), after a
summary (`RebuildCompacted`), and what a cut leaves in order (`FollowCut`).

### The lane

`DurableLaneProofs` proves every invariant and both action properties of
`DurableLane`, for any number of runs, tool calls, follow-ups, silent writes and
injected messages, both queue modes, any bounds, and any set of tools that may be
replayed. Its assumptions: the bounds are natural numbers and an operation has one
attempt at least (`BoundsAssumption`), and an id that the lane makes up is no id of
a queued item (`IdsAssumption`: the code draws every id from the session's one
`idGenerator`, lane.ts:572 and lane.ts:1495 for instance). `LaneControl`, THEOREM Spec => []Control, is the base of all of them.
Beside the types it says

- `LeafInv`: the open operation has the id its leaf needs, and no result yet;
- `DriveInv`: what the place of the Drive in the code says of the durable leaf it
  will commit over, and that a job belongs to a call without outcome;
- `GateInv`: what closed the gate of the Drive. An open gate over a cancelled
  operation belongs to a Drive claimed behind the request, which has cleared no call
  and started no request, for a reply or for a summary;
- `BatchInv`: the completed calls of a batch are a prefix, and a planned placement
  follows the prefix directly.

On top of it:

- `CancelledStartsNothing` and `CancelledRunsEndAborted`: by `GateInv`, one step;
- `EffectsStartOnce`: `RunsInv` adds that an id that is still awaited has started no
  tool, that a pending effect of a tool that may be replayed, without a running
  job, has started once per crash at most, and that one of any other tool whose job
  was cleared has not started;
- `OwnedWithItsState`: payloads are those of the open calls in the state that has
  one (`OwnedOpen`), and frames those of the awaited reply;
- `EntriesPlacedOnce`: `IdsInv` adds to `EveryEntryOnce` that an id is in the branch
  only if it is minted and no longer awaited, a result only if its call is
  completed, a prompt only if its run is open or has ended;
- `ResultsBehindTheirReply`: `FollowInv` says of every reply in the branch that as many
  of its results as are completed (all, if the batch is closed) follow it
  immediately. That nothing can come between is the point: no command of the lane
  but the placement of a batch writes to the branch while a batch is open.

Every step has one of a few shapes, one lemma each, which the later proofs
use instead of the two dozen actions (`StepShapes`): it does not touch what a property is
about (`Quiet`), moves the operation on with entries added behind the branch
(`Onward`), ends it (`Ended`), opens a batch (`Enters`), or works on a batch.

`SequenceLemmas` holds what the proofs of session and lane know of sequences, among them what a
filter written as a recursive function keeps (`SelectsFacts`). An induction over the
length of a sequence is carried out in first-order form, from the theorem that
the naturals are well-founded: `Induction` is stated about a *set* of naturals.

### The record tables

`RecordCellsProofs` proves `RecordsInductive`, THEOREM Spec => []RInv, for every set of
records, fields, values, editors, commands, batches and calls of Commit, any
number of rows, any content of the files and any bound on edits. The instance of
section 4 has one editor and one call; the proofs are what covers concurrent ones.
RInv adds to the types

- `Sound(db)`, `Sound(work)`: history and cells explain each other, and every change
  replaced what its author saw;
- `AtHome`: a change of an appended row is in the record named after the row (and
  `Sound` says that a command writes a field of a record once);
- `Grown`, `PageIn`, `PlansOK`, `Informed`: revisions only rise, and what an editor, a
  plan or a write saw at a revision that is still current is still there;
- `Apart`, `EditWrites`, `ImportWrites`, `OthersUntouched`: the writes the open
  transaction has left, that an import in progress has written, or has still to
  write, every cell of the rows up to the one in hand (`Writing`), and that a
  transaction writes cells of its own plan only (`InPlan`); `PlansOK` says that a plan is
  made of one version of the file;
- `PreviewFirst`, `MarksWritten`: a batch that was never previewed has written
  nothing, and a call that is to mark it Committed finds cells of it (`Started`);
- `ImportIsWhole`.

Steps are grouped by what they do to the tables (nothing, begin, write a cell, open
a row, commit, roll back, create), one lemma per group. The point of the argument is
that revisions, not values, are compared in the code: that an unchanged revision
means an unchanged cell is exactly one change per revision in a history that only
grows.

## 7. What is only model-checked

Liveness (`ExecutionTerminates`, `CallsReturn`, `EveryOperationEnds`), on the instances
above: it rests on fairness, and fairness on ENABLED, which the proof system does
not handle. The five disagreements of section 5 are counterexamples TLC found. Every other property of
a run is also a theorem of section 6. Liveness of session and lane is neither proved nor
checked: the session's callers may keep it busy for ever, and the lane's state
space with fairness is out of reach in reasonable time.

## 8. What is not modelled, and why

- Data: prompts, outputs, MIME, HTML and PDF extraction, formatting, localization,
  the types of cells and the parsing of imported files.
- The path of DiscoveryService without a scheduler and the legacy
  `OutreachService.SendAsync(IMailTransport)`: called by tests only.
- The event log `AgentRunEvent`: append-only, nothing reads it back
  to decide anything.
- Of the host: the account catalog, health reports, the dialogue of a login, a
  restart over an old bridge (the desktop builds a new one).
- Of the session: extensions, models and settings, tree navigation, parallel tool
  execution, file I/O of the session file. Of the lane: deferred replies,
  standalone compaction, navigation, tool memos, the usage ledger, events,
  configuration changes, runWhenIdle.
- Of the record workspace: collections, fields and choices (created once, never
  changed), views (`ViewService`: one row, one user), the mirror of the system
  collections (`SystemCollectionAdapter`), record queries (string building for
  SQLite).
- Idempotent tool writes, replies, application cases, backup: planned, section 2.
- SQLite itself: a transaction is atomic and serializable (one writer, WAL).
  Corruption of the database, loss of a committed transaction and a full disk
  are outside the model, except for an outcome that cannot be stored.
- Several desktop processes on one database: excluded by the mutex.
- Recommendation, export, migrations: pure functions of data or I/O. The rest of
  `pi/` (terminal interface, model providers, package manager, chord server,
  telemetry, evaluation) is third-party code the application does not run, mostly
  rendering, parsing and network I/O; the Python collector is a separate program.

## 9. How to run

    tlc -workers 2 -config MCJobQueue.cfg MCJobQueue
    tlc -workers 2 -config MCDiscovery.cfg MCDiscovery
    tlc -workers 2 -config MCDiscoveryResume.cfg MCDiscovery     # violation expected
    tlc -workers 2 -config MCDiscoveryTimeout.cfg MCDiscovery    # violation expected
    tlc -workers 2 -config MCMailSend.cfg MCMailSend
    tlc -workers 2 -config MCAgentChannel.cfg MCAgentChannel
    tlc -workers 2 -config MCAgentChannelCancel.cfg MCAgentChannel        # violation expected
    tlc -workers 2 -config MCAgentSession.cfg MCAgentSession
    tlc -workers 2 -config MCAgentSessionContinue.cfg MCAgentSession      # violation expected
    tlc -workers 2 -config MCDurableLane.cfg MCDurableLane
    tlc -workers 2 -config MCRecordCells.cfg MCRecordCells
    tlc -workers 2 -config MCRecordCellsFailed.cfg MCRecordCells          # violation expected
    tlapm JobQueueProofs.tla
    tlapm DiscoveryProofs.tla
    tlapm MailSendProofs.tla
    tlapm AgentChannelProofs.tla
    tlapm RecordCellsProofs.tla
    tlapm SequenceLemmas.tla
    tlapm DurableLaneProofs.tla        # about ten minutes
    tlapm AgentSessionProofs.tla       # about five minutes
