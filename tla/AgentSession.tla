---------------------------- MODULE AgentSession ----------------------------
(***************************************************************************)
(* One conversation of the agent that agent-host embeds: AgentSession      *)
(* (coding-agent/src/core/agent-session.ts) around Agent (agent/src/       *)
(* agent.ts) and its loop (agent/src/agent-loop.ts): one agent run at a    *)
(* time, messages queued while it works, tool calls, automatic retries,    *)
(* compaction, bash results and custom messages that arrive at any moment, *)
(* abort and manual compaction.  Everything runs on one JavaScript thread; *)
(* a step is what happens between two awaits that last, so whatever other  *)
(* callers do happens between two steps.                                   *)
(*                                                                         *)
(* The conversation is kept twice: context is agent.state.messages, what   *)
(* the model is shown, and log is the branch of the session file, from     *)
(* which a later process resumes.  The loop's own copy of the context, the *)
(* text of messages and branch summaries are left out; a model's reply is  *)
(* its stop reason ("overflow" is an error that says the context is full)  *)
(* and its number of tool calls.  A message ends in both copies in one     *)
(* step: only extensions' handlers run between them, which are taken to    *)
(* answer at once.                                                         *)
(***************************************************************************)
EXTENDS Naturals, Sequences, SequencesExt, FiniteSets, Filters

CONSTANTS Prompts,        \* user messages, sent or queued once each
          Customs,        \* custom messages of extensions
          Bashes,         \* results of the user's own shell commands
          Nobody,         \* the caller of no run
          Interrupts,     \* which of abort() and compact() are called, once each
          MaxRetries,     \* settings.retry.maxRetries
          MaxToolTurns,   \* bound on the replies with tool calls
          MaxFailures,    \* bound on the replies that fail
          MaxCalls,       \* bound on the tool calls of one reply
          MaxCompactions, \* bound on the compactions that find something to do
          MaxAsides       \* bound on the custom messages and bash results

ASSUME MessagesAssumption ==
  /\ Prompts \cap Customs = {} /\ Prompts \cap Bashes = {} /\ Customs \cap Bashes = {}
  /\ Nobody \notin Prompts \cup Customs \cup Bashes
  /\ {"abort", "compact"} \cap (Prompts \cup Customs) = {}
  /\ Interrupts \subseteq {"abort", "compact"}
ASSUME BoundsAssumption ==
  /\ MaxRetries \in Nat /\ MaxToolTurns \in Nat /\ MaxCalls \in Nat \ {0}
  /\ MaxFailures \in Nat /\ MaxCompactions \in Nat /\ MaxAsides \in Nat

VARIABLES
  context,    \* agent.state.messages
  log,        \* the entries of the session file's branch
  queue,      \* the agent's steering and follow-up queues
  shown,      \* _steeringMessages and _followUpMessages, for display
  deferred,   \* _pendingBashMessages and _pendingCustomMessages
  run,        \* the agent run and the post-run handling
  session,    \* _isAgentRunActive, _retryAttempt, _overflowRecoveryAttempted
  compaction, \* the automatic compaction in progress
  manual,     \* the compaction that compact() makes
  caller      \* caller[k]: what became of a prompt, of abort() and of compact()

vars == <<context, log, queue, shown, deferred, run, session, compaction, manual, caller>>

User(p)        == [role |-> "user", of |-> p]
Custom(c)      == [role |-> "custom", of |-> c]
Bash(b)        == [role |-> "bash", of |-> b]
Reply(n, s, k) == [role |-> "assistant", of |-> n, stop |-> s, calls |-> k]
Result(n, i)   == [role |-> "result", of |-> n, call |-> i]
Compacted(k)   == [role |-> "summary", of |-> k]

Stops  == {"stop", "tools", "length", "error", "overflow", "aborted"}
Failed == {"length", "error", "overflow"}

Told     == [role : {"custom"}, of : Customs]
Messages == [role : {"user"}, of : Prompts] \cup Told
Commands == [role : {"bash"}, of : Bashes]
FailedReplies == [role : {"assistant"}, of : Nat, stop : Failed, calls : 0 .. MaxCalls]
Spoken   == Messages \cup Commands
              \cup [role : {"assistant"}, of : Nat, stop : Stops, calls : 0 .. MaxCalls]
              \cup [role : {"result"}, of : Nat, call : 1 .. MaxCalls]
Entries  == Spoken \cup [role : {"summary"}, of : Nat]

Callers == Prompts \cup Customs \cup {"abort", "compact"}
Fates   == {"idle", "queued", "failed", "preflight", "compacting", "checked", "running", "done",
            "threw", "returned", "waiting", "resumed"}
Phases  == {"none", "ready", "streaming", "tools", "turnEnd", "preparing", "compacting", "ended",
            "retrying", "after"}

AgentRuns   == [phase : Phases, by : Prompts \cup Customs \cup {Nobody}, aborted : BOOLEAN,
                pending : Seq(Messages), stop : Stops, left : 0 .. MaxCalls, calls : 0 .. MaxCalls]
Sessions    == [active : BOOLEAN, retry : 0 .. MaxRetries, recovered : BOOLEAN]
Compactions == [for : {"none", "prompt", "turn", "after"}, kept : Nat,
                retry : BOOLEAN, aborted : BOOLEAN]
Manuals     == [kept : Nat, aborted : BOOLEAN]
Queues      == [steer : Seq(Messages), followUp : Seq(Messages)]
Waitlists   == [bash : Seq(Commands), custom : Seq(Told)]

NoRun == [phase |-> "none", by |-> Nobody, aborted |-> FALSE, pending |-> <<>>,
          stop |-> "stop", left |-> 0, calls |-> 0]
NoCompaction == [for |-> "none", kept |-> 0, retry |-> FALSE, aborted |-> FALSE]
NoManual     == [kept |-> 0, aborted |-> FALSE]

Init ==
  /\ context = <<>> /\ log = <<>> /\ shown = {}
  /\ queue = [steer |-> <<>>, followUp |-> <<>>]
  /\ deferred = [bash |-> <<>>, custom |-> <<>>]
  /\ run = NoRun /\ compaction = NoCompaction /\ manual = NoManual
  /\ session = [active |-> FALSE, retry |-> 0, recovered |-> FALSE]
  /\ caller = [k \in Callers |-> "idle"]

-----------------------------------------------------------------------------
(* The conversation *)

IsReply(e)      == e.role = "assistant"
EndsInReply(c)  == c # <<>> /\ IsReply(Last(c))
WithoutReply(c) == IF EndsInReply(c) THEN Front(c) ELSE c
IsSummary(e)    == e.role = "summary"

(* buildContextEntries: the latest summary, what it kept, what followed.   *)
Rebuild(entries) ==
  LET at == SelectLastInSeq(entries, IsSummary) IN
  IF at = 0 THEN entries
  ELSE <<entries[at]>> \o SubSeq(entries, entries[at].of, at - 1)
                       \o SubSeq(entries, at + 1, Len(entries))

Both(c, l, msgs) == context' = c \o msgs /\ log' = l \o msgs
Write(msgs)      == Both(context, log, msgs)

(* message_start of a user message takes its text off the display and      *)
(* allows one more overflow recovery.                                      *)
Texts(msgs)    == {msgs[i].of : i \in {j \in DOMAIN msgs : msgs[j].role = "user"}}
Unshown(msgs)  == shown' = shown \ Texts(msgs)
Heard(s, msgs) == [s EXCEPT !.recovered = @ /\ Texts(msgs) = {}]

(* PendingMessageQueue.drain in its default mode: one message.             *)
Drained(q) == IF q = <<>> THEN <<>> ELSE <<Head(q)>>
Rest(q)    == IF q = <<>> THEN <<>> ELSE Tail(q)
Poll(q)    == queue' = [queue EXCEPT ![q] = Rest(@)]
Queued     == queue.steer # <<>> \/ queue.followUp # <<>>

ManualCompaction == caller["compact"] \in {"resumed", "compacting"}
IsCompacting == compaction.for # "none" \/ ManualCompaction
InAgentRun   == run.phase \in {"ready", "streaming", "tools", "turnEnd", "preparing", "compacting"}
InPreflight  == \E p \in Prompts : caller[p] \in {"preflight", "compacting", "checked"}

(* _resolveIdleWaitIfIdle: abort() and the abort of compact() go on.       *)
Resumed(calls) == [k \in DOMAIN calls |->
                     IF calls[k] # "waiting" THEN calls[k]
                     ELSE IF k = "abort" THEN "done" ELSE "resumed"]

Flushed == deferred.bash \o deferred.custom
Nothing == [bash |-> <<>>, custom |-> <<>>]

-----------------------------------------------------------------------------
(* Calls of the session's clients *)

(* steer, followUp, and prompt while a run is active.                      *)
Enqueue(p, q) ==
  /\ caller[p] = "idle" /\ caller' = [caller EXCEPT ![p] = "queued"]
  /\ shown' = shown \cup {p} /\ queue' = [queue EXCEPT ![q] = Append(@, User(p))]
  /\ UNCHANGED <<context, log, deferred, run, session, compaction, manual>>

(* prompt(): refused during a manual compaction; with no active run it     *)
(* flushes what was deferred and goes on to its awaits.  Callers do not    *)
(* start runs during the preflight of another call: the agent host awaits  *)
(* each prompt before the next.                                            *)
Prompt(p) ==
  /\ caller[p] = "idle"
  /\ \/ /\ ManualCompaction /\ caller' = [caller EXCEPT ![p] = "failed"]
        /\ UNCHANGED <<context, log, deferred>>
     \/ /\ ~ManualCompaction /\ ~session.active /\ ~InPreflight
        /\ caller' = [caller EXCEPT ![p] = "preflight"]
        /\ Write(Flushed) /\ deferred' = Nothing
  /\ UNCHANGED <<queue, shown, run, session, compaction, manual>>

(* No model, or no credentials for it.                                     *)
PreflightFails(p) ==
  /\ caller[p] = "preflight" /\ caller' = [caller EXCEPT ![p] = "failed"]
  /\ UNCHANGED <<context, log, queue, shown, deferred, run, session, compaction, manual>>

(* What is recorded and not lost; each aside is recorded once.             *)
Everywhere == ToSet(log) \cup ToSet(deferred.bash) \cup ToSet(deferred.custom)
                \cup ToSet(queue.steer) \cup ToSet(queue.followUp) \cup ToSet(run.pending)

NewAside(e) ==
  /\ e \notin Everywhere
  /\ Cardinality({o \in Everywhere : o.role \in {"bash", "custom"}}) < MaxAsides

(* Mutant of RecordBash: a result is appended whatever is going on.        *)
RecordBashNow(b) ==
  /\ NewAside(Bash(b)) /\ Write(<<Bash(b)>>)
  /\ UNCHANGED <<queue, shown, deferred, run, session, compaction, manual, caller>>

RecordBash(b) ==
  /\ NewAside(Bash(b))
  /\ IF session.active
       THEN deferred' = [deferred EXCEPT !.bash = Append(@, Bash(b))] /\ UNCHANGED <<context, log>>
       ELSE Write(<<Bash(b)>>) /\ UNCHANGED deferred
  /\ UNCHANGED <<queue, shown, run, session, compaction, manual, caller>>

NewCustom(c) == caller[c] = "idle" /\ NewAside(Custom(c))

(* sendCustomMessage without triggerTurn: appended now, or when the turn   *)
(* has ended.                                                              *)
AppendCustom(c) ==
  /\ NewCustom(c)
  /\ IF session.active
       THEN deferred' = [deferred EXCEPT !.custom = Append(@, Custom(c))] /\ UNCHANGED <<context, log>>
       ELSE Write(<<Custom(c)>>) /\ UNCHANGED deferred
  /\ UNCHANGED <<queue, shown, run, session, compaction, manual, caller>>

(* sendCustomMessage that is to trigger a turn: it waits for the active    *)
(* run in a queue, or starts a run, without any preflight.                 *)
QueueCustom(c, q) ==
  /\ session.active /\ NewCustom(c)
  /\ queue' = [queue EXCEPT ![q] = Append(@, Custom(c))] /\ caller' = [caller EXCEPT ![c] = "queued"]
  /\ UNCHANGED <<context, log, shown, deferred, run, session, compaction, manual>>

(* Mutant of ClearQueue: only the display is cleared.                      *)
ClearDisplay ==
  /\ shown # {} /\ shown' = {}
  /\ caller' = [k \in DOMAIN caller |-> IF k \in shown THEN "returned" ELSE caller[k]]
  /\ UNCHANGED <<context, log, queue, deferred, run, session, compaction, manual>>

(* clearQueue: what is displayed is given back, the queues are emptied.    *)
ClearQueue ==
  /\ Queued \/ shown # {}
  /\ queue' = [steer |-> <<>>, followUp |-> <<>>] /\ shown' = {}
  /\ caller' = [k \in DOMAIN caller |->
                  IF k \in shown \/ (k \in Customs /\ Custom(k) \in ToSet(queue.steer) \cup ToSet(queue.followUp))
                    THEN "returned" ELSE caller[k]]
  /\ UNCHANGED <<context, log, deferred, run, session, compaction, manual>>

(* abortRetry, abortCompaction and agent.abort.                            *)
Signalled ==
  /\ run' = [run EXCEPT !.aborted = @ \/ InAgentRun \/ run.phase = "retrying"]
  /\ compaction' = [compaction EXCEPT !.aborted = compaction.for # "none"]
  /\ manual' = [manual EXCEPT !.aborted = ManualCompaction]

Abort ==
  /\ "abort" \in Interrupts /\ caller["abort"] = "idle" /\ (session.active \/ IsCompacting)
  /\ Signalled /\ caller' = [caller EXCEPT !["abort"] = "waiting"]
  /\ UNCHANGED <<context, log, queue, shown, deferred, session>>

(* compact() aborts and waits before it starts its own compaction.         *)
Compact ==
  /\ "compact" \in Interrupts /\ caller["compact"] = "idle"
  /\ Signalled
  /\ caller' = [caller EXCEPT !["compact"] = IF session.active \/ IsCompacting THEN "waiting" ELSE "resumed"]
  /\ UNCHANGED <<context, log, queue, shown, deferred, session>>

-----------------------------------------------------------------------------
(* Compaction *)

(* prepareCompaction: the last entry is no summary, and an entry from the  *)
(* start of what the summary before kept is left to summarise; a tool      *)
(* result is never the first entry kept.                                   *)
Begun == Cardinality({i \in DOMAIN log : IsSummary(log[i])})
           + (IF compaction.for = "none" THEN 0 ELSE 1)
           + (IF caller["compact"] = "compacting" THEN 1 ELSE 0)

KeptFrom ==
  LET at    == SelectLastInSeq(log, IsSummary)
      start == IF at = 0 THEN 1 ELSE log[at].of
  IN {k \in start + 1 .. Len(log) :
        /\ ~IsSummary(Last(log)) /\ log[k].role \notin {"result", "summary"}
        /\ Begun < MaxCompactions}

StartsCompaction(for, retry) ==
  /\ compaction.for = "none"
  /\ \E k \in KeptFrom : compaction' = [for |-> for, kept |-> k, retry |-> retry, aborted |-> FALSE]

Unchanged == [ok |-> FALSE, context |-> context, log |-> log]

(* Mutant of Outcomes: the conversation in memory stays as it was.         *)
OutcomesInLog(kept, aborted, retry) ==
  {Unchanged} \cup
  IF aborted THEN {} ELSE {[ok |-> TRUE, log |-> Append(log, Compacted(kept)), context |-> context]}

(* What a compaction leaves: nothing changed, or the log with its entry    *)
(* and the conversation rebuilt from it, without the response it retries.  *)
Outcomes(kept, aborted, retry) ==
  {Unchanged} \cup
  IF aborted THEN {}
  ELSE LET entries == Append(log, Compacted(kept))
           rebuilt == Rebuild(entries)
       IN {[ok |-> TRUE, log |-> entries,
            context |-> IF retry /\ EndsInReply(rebuilt) /\ Last(rebuilt).stop \in Failed
                          THEN Front(rebuilt) ELSE rebuilt]}
AutoOutcomes == Outcomes(compaction.kept, compaction.aborted, compaction.retry)

(* compact() has its credentials: it prepares its compaction, or has       *)
(* nothing to compact.  A run that began meanwhile goes on beside it.      *)
ManualStarts ==
  /\ caller["compact"] = "resumed"
  /\ \E k \in KeptFrom : manual' = [manual EXCEPT !.kept = k]
  /\ caller' = [caller EXCEPT !["compact"] = "compacting"]
  /\ UNCHANGED <<context, log, queue, shown, deferred, run, session, compaction>>

(* _clearManualCompactionState.                                            *)
ManualCleared ==
  /\ manual' = NoManual
  /\ LET ended == [caller EXCEPT !["compact"] = "done"] IN
     caller' = IF session.active \/ compaction.for # "none" THEN ended ELSE Resumed(ended)

ManualFails ==
  /\ caller["compact"] = "resumed" /\ ManualCleared
  /\ UNCHANGED <<context, log, queue, shown, deferred, run, session, compaction>>

ManualEnds ==
  /\ caller["compact"] = "compacting" /\ ManualCleared
  /\ \E o \in Outcomes(manual.kept, manual.aborted, FALSE) : context' = o.context /\ log' = o.log
  /\ UNCHANGED <<queue, shown, deferred, run, session, compaction>>

-----------------------------------------------------------------------------
(* Starting, continuing and settling a run *)

Begin(by, c, l, s, msgs, q, pending) ==
  /\ run' = [NoRun EXCEPT !.phase = "ready", !.by = by, !.pending = pending]
  /\ Both(c, l, msgs) /\ Unshown(msgs) /\ session' = [Heard(s, msgs) EXCEPT !.active = TRUE]
  /\ Poll(q)

(* The finally block of _runAgentPrompt.                                   *)
Settle(c, l, s, calls) ==
  /\ Both(c, l, Flushed) /\ deferred' = Nothing
  /\ session' = [s EXCEPT !.active = FALSE]
  /\ caller' = IF compaction' = NoCompaction /\ ~ManualCompaction THEN Resumed(calls) ELSE calls

(* _runAgentPrompt.  (agent.prompt throws while another run is active,     *)
(* which no run is that callers start as they are said to above.)          *)
StartRun(p) ==
  /\ caller[p] \in {"preflight", "checked"} /\ run.phase = "none"
  /\ Begin(p, context, log, session, <<User(p)>>, "steer", Drained(queue.steer))
  /\ caller' = [caller EXCEPT ![p] = "running"] /\ UNCHANGED <<deferred, compaction, manual>>

(* It may begin while a manual compaction is under way.                    *)
TriggerRun(c) ==
  /\ ~session.active /\ run.phase = "none" /\ NewCustom(c) /\ ~InPreflight
  /\ Begin(c, context, log, session, <<Custom(c)>>, "steer", Drained(queue.steer))
  /\ caller' = [caller EXCEPT ![c] = "running"] /\ UNCHANGED <<deferred, compaction, manual>>

(* agent.continue(): after a reply it needs a queued message.              *)
ContinueFrom(c, l, s) ==
  LET q == IF EndsInReply(c) /\ queue.steer = <<>> THEN "followUp" ELSE "steer"
      m == Drained(queue[q])
  IN IF EndsInReply(c) /\ m = <<>>
       THEN /\ Settle(c, l, s, [caller EXCEPT ![run.by] = "threw"])
            /\ run' = NoRun /\ UNCHANGED <<queue, shown>>
       ELSE /\ Begin(run.by, c, l, s, IF EndsInReply(c) THEN m ELSE <<>>, q,
                     IF EndsInReply(c) THEN <<>> ELSE m)
            /\ UNCHANGED <<deferred, caller>>

(* What _handlePostAgentRun returns decides between the two.               *)
GoOn(c, l, s, retry) ==
  IF retry \/ Queued THEN ContinueFrom(c, l, s)
  ELSE /\ Settle(c, l, s, [caller EXCEPT ![run.by] = "done"])
       /\ run' = NoRun /\ UNCHANGED <<queue, shown>>

-----------------------------------------------------------------------------
(* The agent loop *)

(* Pending messages are injected before the next reply.                    *)
StartTurn ==
  /\ run.phase = "ready" /\ run' = [run EXCEPT !.phase = "streaming", !.pending = <<>>]
  /\ Write(run.pending) /\ Unshown(run.pending) /\ session' = Heard(session, run.pending)
  /\ UNCHANGED <<queue, deferred, compaction, manual, caller>>

ReplyCount == Cardinality({i \in DOMAIN log : IsReply(log[i])})
ToolTurns  == Cardinality({i \in DOMAIN log : IsReply(log[i]) /\ log[i].calls > 0})
Failures   == Cardinality({i \in DOMAIN log : IsReply(log[i]) /\ log[i].stop \in Failed})

Replies ==
  {[stop |-> s, calls |-> k] : s \in Stops, k \in 0 .. MaxCalls}

Possible(r) ==
  /\ r.stop = "aborted" => run.aborted
  /\ r.stop \in Failed => Failures < MaxFailures
  /\ r.stop = "tools" => r.calls > 0
  /\ r.calls > 0 => r.stop \in {"tools", "length"} /\ ToolTurns < MaxToolTurns

(* A reply arrives.  The calls of a truncated one all fail.  An error ends *)
(* the run with its turn.                                                  *)
Stream ==
  /\ run.phase = "streaming"
  /\ \E r \in {r \in Replies : Possible(r)} :
       LET n       == ReplyCount + 1
           ends    == r.stop \in {"error", "overflow", "aborted"}
           results == IF r.stop = "length" THEN [i \in 1 .. r.calls |-> Result(n, i)] ELSE <<>>
       IN
       /\ Write(<<Reply(n, r.stop, r.calls)>> \o results \o (IF ends THEN deferred.custom ELSE <<>>))
       /\ deferred' = IF ends THEN [deferred EXCEPT !.custom = <<>>] ELSE deferred
       /\ run' = [run EXCEPT !.stop = r.stop, !.calls = r.calls,
                             !.left = IF r.stop = "tools" THEN r.calls ELSE 0,
                             !.phase = IF ends THEN "ended" ELSE IF r.stop = "tools" THEN "tools" ELSE "turnEnd"]
       /\ session' = [session EXCEPT !.retry = IF r.stop \in {"error", "overflow"} THEN @ ELSE 0,
                                     !.recovered = @ /\ r.stop \in Failed]
  /\ UNCHANGED <<queue, shown, compaction, manual, caller>>

(* The results of a batch are emitted in the order of its calls.           *)
Tool ==
  /\ run.phase = "tools" /\ run.left > 0
  /\ Write(<<Result(ReplyCount, run.calls - run.left + 1)>>) /\ run' = [run EXCEPT !.left = @ - 1]
  /\ UNCHANGED <<queue, shown, deferred, session, compaction, manual, caller>>

(* A batch ends with its calls, or early when the run is aborted; calls is *)
(* zero from here if its tools asked to stop.                              *)
EndTools ==
  /\ run.phase = "tools" /\ run.left < run.calls /\ (run.left = 0 \/ run.aborted)
  /\ \E c \in {0, run.calls} : run' = [run EXCEPT !.phase = "turnEnd", !.left = 0, !.calls = c]
  /\ UNCHANGED <<context, log, queue, shown, deferred, session, compaction, manual, caller>>

(* turn_end flushes the custom messages; steering goes first, follow-ups   *)
(* only when the agent would stop.                                         *)
EndTurn ==
  /\ run.phase = "turnEnd"
  /\ Write(deferred.custom) /\ deferred' = [deferred EXCEPT !.custom = <<>>]
  /\ LET q == IF queue.steer = <<>> /\ run.calls = 0 THEN "followUp" ELSE "steer"
         m == Drained(queue[q])
     IN /\ Poll(q)
        /\ run' = [run EXCEPT !.pending = m, !.calls = 0,
                              !.phase = IF m = <<>> /\ run.calls = 0 THEN "ended" ELSE "preparing"]
  /\ UNCHANGED <<shown, session, compaction, manual, caller>>

(* Mutant of Ready: it polls whatever the first poll returned.             *)
ReadyPolls == run' = [run EXCEPT !.phase = "ready", !.pending = Drained(queue.steer)] /\ Poll("steer")

(* The second poll picks up what was queued during a compaction.           *)
Ready == /\ run' = [run EXCEPT !.phase = "ready",
                               !.pending = IF @ = <<>> THEN Drained(queue.steer) ELSE @]
         /\ IF run.pending = <<>> THEN Poll("steer") ELSE UNCHANGED queue

(* prepareNextTurn: _compactBeforeNextAssistantResponse.                   *)
Prepare ==
  /\ run.phase = "preparing"
  /\ \/ Ready /\ UNCHANGED compaction
     \/ /\ StartsCompaction("turn", FALSE) /\ run' = [run EXCEPT !.phase = "compacting"]
        /\ UNCHANGED queue
  /\ UNCHANGED <<context, log, shown, deferred, session, manual, caller>>

TurnCompacted ==
  /\ compaction.for = "turn" /\ compaction' = NoCompaction /\ Ready
  /\ \E o \in AutoOutcomes : context' = o.context /\ log' = o.log
  /\ UNCHANGED <<shown, deferred, session, manual, caller>>

-----------------------------------------------------------------------------
(* _handlePostAgentRun *)

(* Mutant of Retry: there is always one more.                              *)
RetryAgain ==
  /\ run.phase = "ended" /\ run.stop = "error"
  /\ session' = [session EXCEPT !.retry = @ + 1] /\ context' = WithoutReply(context)
  /\ run' = [run EXCEPT !.phase = "retrying", !.aborted = FALSE]
  /\ UNCHANGED <<log, queue, shown, deferred, compaction, manual, caller>>

Retry ==
  /\ run.phase = "ended" /\ run.stop = "error" /\ session.retry < MaxRetries
  /\ session' = [session EXCEPT !.retry = @ + 1] /\ context' = WithoutReply(context)
  /\ run' = [run EXCEPT !.phase = "retrying", !.aborted = FALSE]
  /\ UNCHANGED <<log, queue, shown, deferred, compaction, manual, caller>>

RetryWakes ==
  /\ run.phase = "retrying" /\ ~run.aborted
  /\ UNCHANGED <<compaction, manual>> /\ ContinueFrom(context, log, session)

(* No retry, no budget left, or a retry aborted in its sleep; what follows *)
(* is _checkCompaction.                                                    *)
NotRetried == run.phase = "ended" \/ (run.phase = "retrying" /\ run.aborted)
GivenUp    == [session EXCEPT !.retry = IF run.stop \in {"error", "overflow"} THEN 0 ELSE @]

NoCompactionNeeded ==
  /\ NotRetried /\ UNCHANGED <<compaction, manual>> /\ GoOn(context, log, GivenUp, FALSE)

(* A reply older than the latest compaction asks for no other.  (The code  *)
(* compares their times.)                                                  *)
Recent == SelectLastInSeq(log, IsReply) > SelectLastInSeq(log, IsSummary)

(* Overflow, or a reply cut off early: once, the reply is dropped, the     *)
(* conversation compacted and the turn retried.                            *)
Recoverable(stop) == stop \in {"overflow", "length"} /\ ~session.recovered

Recover ==
  /\ NotRetried /\ Recent /\ Recoverable(run.stop)
  /\ LET s == [GivenUp EXCEPT !.recovered = TRUE] IN
     \/ /\ StartsCompaction("after", TRUE) /\ context' = WithoutReply(context) /\ session' = s
        /\ run' = [run EXCEPT !.phase = "after"] /\ UNCHANGED <<log, queue, shown, deferred, manual, caller>>
     \/ UNCHANGED <<compaction, manual>> /\ GoOn(WithoutReply(context), log, s, FALSE)

(* The threshold, or a reply that overflowed silently.                     *)
Tidy ==
  /\ NotRetried /\ Recent /\ run.stop \notin {"overflow", "aborted"} /\ StartsCompaction("after", FALSE)
  /\ run' = [run EXCEPT !.phase = "after"] /\ session' = GivenUp
  /\ UNCHANGED <<context, log, queue, shown, deferred, manual, caller>>

RunCompacted ==
  /\ compaction.for = "after" /\ compaction' = NoCompaction /\ UNCHANGED manual
  /\ \E o \in AutoOutcomes : GoOn(o.context, o.log, session, o.ok /\ compaction.retry)

(* The same check before a prompt, on the last reply of the conversation,  *)
(* aborted or not, unless a compaction followed it.                        *)
PreflightCompacts(p) ==
  /\ caller[p] = "preflight"
  /\ LET at == SelectLastInSeq(context, IsReply) IN
     /\ at > 0 /\ context[at] \in ToSet(SubSeq(log, 1 + SelectLastInSeq(log, IsSummary), Len(log)))
     /\ \/ /\ context[at].stop # "overflow" /\ StartsCompaction("prompt", FALSE)
           /\ UNCHANGED <<context, session>> /\ caller' = [caller EXCEPT ![p] = "compacting"]
        \/ /\ Recoverable(context[at].stop) /\ context' = WithoutReply(context)
           /\ session' = [session EXCEPT !.recovered = TRUE]
           /\ \/ StartsCompaction("prompt", TRUE) /\ caller' = [caller EXCEPT ![p] = "compacting"]
              \/ UNCHANGED compaction /\ caller' = [caller EXCEPT ![p] = "checked"]
  /\ UNCHANGED <<log, queue, shown, deferred, run, manual>>

(* Mutant of PreflightCompacted: the idle wait is not resolved.            *)
PreflightCompactedQuietly(p) ==
  /\ caller[p] = "compacting" /\ compaction.for = "prompt" /\ compaction' = NoCompaction
  /\ \E o \in AutoOutcomes : context' = o.context /\ log' = o.log
  /\ caller' = [caller EXCEPT ![p] = "checked"]
  /\ UNCHANGED <<queue, shown, deferred, run, session, manual>>

PreflightCompacted(p) ==
  /\ caller[p] = "compacting" /\ compaction.for = "prompt" /\ compaction' = NoCompaction
  /\ \E o \in AutoOutcomes : context' = o.context /\ log' = o.log
  /\ LET checked == [caller EXCEPT ![p] = "checked"] IN
     caller' = IF session.active \/ ManualCompaction THEN checked ELSE Resumed(checked)
  /\ UNCHANGED <<queue, shown, deferred, run, session, manual>>

-----------------------------------------------------------------------------
Loop == StartTurn \/ Stream \/ Tool \/ EndTools \/ EndTurn \/ Prepare \/ TurnCompacted
PostRun == Retry \/ RetryWakes \/ NoCompactionNeeded \/ Recover \/ Tidy \/ RunCompacted
Preflight(p) == PreflightFails(p) \/ PreflightCompacts(p) \/ PreflightCompacted(p) \/ StartRun(p)

Next ==
  \/ \E p \in Prompts : Prompt(p) \/ Preflight(p) \/ \E q \in {"steer", "followUp"} : Enqueue(p, q)
  \/ \E c \in Customs : AppendCustom(c) \/ TriggerRun(c) \/ \E q \in {"steer", "followUp"} : QueueCustom(c, q)
  \/ \E b \in Bashes : RecordBash(b)
  \/ ClearQueue \/ Abort \/ Compact \/ ManualStarts \/ ManualFails \/ ManualEnds
  \/ Loop \/ PostRun

Spec == Init /\ [][Next]_vars

-----------------------------------------------------------------------------
(* Properties *)

(* The shape of the state, and which phase goes with which compaction.     *)
SessionTypeOK ==
  /\ context \in Seq(Entries) /\ log \in Seq(Entries)
  /\ \A i \in DOMAIN log : IsSummary(log[i]) => log[i].of \in 1 .. i - 1
  /\ queue \in Queues /\ shown \subseteq Prompts /\ deferred \in Waitlists
  /\ run \in AgentRuns /\ session \in Sessions
  /\ compaction \in Compactions /\ manual \in Manuals
  /\ caller \in [Callers -> Fates]
  /\ run.phase = "none" <=> run.by = Nobody
  /\ run.phase = "compacting" <=> compaction.for = "turn"
  /\ run.phase = "after" <=> compaction.for = "after"

(* agent-session.ts:3034 and :717: bash results and custom messages never  *)
(* come between a call and its result, whenever they arrive, and no call   *)
(* has two results: but for the summary of a compaction that compact()     *)
(* made beside the run, a result follows its reply or the result before it.*)
ResultsFollow(c) ==
  LET said == Keep(c, Spoken) IN
  \A i \in DOMAIN said : said[i].role = "result" =>
    i > 1 /\ IF said[i].call = 1 THEN said[i - 1].role = "assistant" /\ said[i - 1].of = said[i].of
             ELSE said[i - 1] = Result(said[i].of, said[i].call - 1)

ResultsFollowTheirCall == ResultsFollow(context) /\ ResultsFollow(log)

Occurrences(e, s) == Cardinality({i \in DOMAIN s : s[i] = e})

(* A message is never lost and never delivered twice, however it is        *)
(* queued, polled, deferred or drained around aborts, errors, retries and  *)
(* compactions: it is in exactly one place until it is in the log for      *)
(* good.  (One that clearQueue gave back after the loop had polled it is   *)
(* delivered all the same.)                                                *)
Places(e) ==
  LET Of(s) == Occurrences(e, s) IN
  Of(log) + Of(queue.steer) + Of(queue.followUp) + Of(run.pending) + Of(deferred.bash) + Of(deferred.custom)

Sent == {"queued", "running", "done", "threw"}
EveryMessageOnce ==
  /\ \A p \in Prompts :
       /\ Places(User(p)) <= 1
       /\ caller[p] \in Sent => Places(User(p)) = 1
       /\ caller[p] \notin Sent \cup {"returned"} => Places(User(p)) = 0
  /\ \A c \in Customs : caller[c] \in Sent => Places(Custom(c)) = 1
  /\ \A c \in Customs : Places(Custom(c)) <= 1
  /\ \A b \in Bashes  : Places(Bash(b)) <= 1

(* What the user sees waiting is what waits: a displayed message is in a   *)
(* queue or was just polled, and every queued user message is displayed.   *)
DisplayAgrees ==
  LET waiting == Texts(queue.steer) \cup Texts(queue.followUp) IN
  waiting \subseteq shown /\ shown \subseteq waiting \cup Texts(run.pending)

(* A process that resumes from the log shows the model the conversation    *)
(* this one shows it, except for replies that failed, which retries drop.  *)
Kept(c) == Keep(c, Entries \ FailedReplies)
ResumeSeesTheConversation == Kept(context) = Kept(Rebuild(log))

(* agent-session.ts:2392: agent.continue() rejects a conversation that     *)
(* ends in a reply, so the post-run handling never leaves one.             *)
ContinueIsAccepted == \A k \in Prompts \cup Customs : caller[k] # "threw"

(* Nobody waits for ever: who waits for the session to be idle waits while *)
(* it is not, so that the step that makes it idle wakes him, and a prompt  *)
(* that waits has its run.                                                 *)
NobodyIsForgotten ==
  /\ \A k \in {"abort", "compact"} : caller[k] = "waiting" => session.active \/ IsCompacting
  /\ \A k \in Prompts \cup Customs : caller[k] = "running" <=> run.by = k
  /\ \A p \in Prompts : caller[p] = "compacting" => compaction.for = "prompt"
=============================================================================
