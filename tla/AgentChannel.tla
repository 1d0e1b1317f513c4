---------------------------- MODULE AgentChannel ----------------------------
(***************************************************************************)
(* The JSONL channel between the desktop application (AgentBridge.cs and   *)
(* its two users, DiscoveryService and the account page) and the Node      *)
(* host (agent-host/src/index.ts, authentication.ts).  Both pipes are      *)
(* FIFO; a request waits for its answer at most 30 s, which here is at any *)
(* time; a cancellation is two steps, since AgentBridge.CancelAsync awaits *)
(* the callbacks of the tool token before it reads its target.             *)
(*                                                                         *)
(* An operation is a run (run_id, stage_key, attempt_id) or a login        *)
(* (auth_request_id).  A tool call is a pair <<run, number>>, its          *)
(* tool_call_id; toolCancellation is named after the run whose run_started *)
(* created it, the first one after NoOp.  A cancelled tool still answers,  *)
(* so that a token is cancelled is not kept.  The host is not restarted:   *)
(* the application then builds a new bridge.                               *)
(***************************************************************************)
EXTENDS Naturals, Sequences, FiniteSets

CONSTANTS Runs, Logins, NoOp,
          MaxToolCalls,  \* limits.max_tool_calls of every run
          MaxStarted,    \* bound on the operations started in a behaviour
  PipeBound,     \* messages the pipe to the host holds before a write waits
  Attempts       \* bound on the tool calls the model attempts in a run

ASSUME OpsAssumption == Runs \cap Logins = {} /\ NoOp \notin Runs \cup Logins
ASSUME CallsAssumption == MaxToolCalls \in Nat \ {0} /\ Attempts \in Nat
ASSUME PipeAssumption == PipeBound \in Nat \ {0}

VARIABLES
  task,       \* task[k]: the application's view of operation k
  canceller,  \* canceller[k]: the CancelAsync call made on behalf of k
  bridge,     \* activeRun, activeAuth and the current toolCancellation
  tool,       \* tool[c]: what the bridge does for tool call c
  host,       \* the host's busy/activeRun/controller/pending and Authentication
  toHost, toApp  \* the pipes

vars == <<task, canceller, bridge, tool, host, toHost, toApp>>

Ops   == Runs \cup Logins
Calls == Runs \X (1 .. Attempts)
Message(t, k) == [type |-> t, of |-> k]

IdleHost == [alive |-> TRUE, run |-> NoOp, phase |-> "idle", aborted |-> FALSE,
             calls |-> 0, pending |-> {}, auth |-> NoOp, authAborted |-> FALSE]

Init ==
  /\ task = [k \in Ops |-> "idle"] /\ canceller = [k \in Ops |-> "none"]
  /\ bridge = [run |-> NoOp, auth |-> NoOp, token |-> NoOp]
  /\ tool = [c \in Calls |-> "none"]
  /\ host = IdleHost
  /\ toHost = <<>> /\ toApp = <<>>

-----------------------------------------------------------------------------
(* The application *)

(* WriteAsync waits for room in the pipe.                                  *)
Room     == Len(toHost) < PipeBound
Write(m) == Room /\ toHost' = Append(toHost, m)

Waiting == {"sent", "running"}
Busy    == \E k \in Ops : task[k] \in Waiting \cup {"stopping"}

(* Run commands pass the gate of DiscoveryService, logins are enabled while *)
(* nothing runs (AccountControlsEnabled).  RequestAsync records the target *)
(* before it writes.                                                       *)
Ask(k) ==
  /\ host.alive /\ ~Busy /\ task[k] = "idle"
  /\ Cardinality({j \in Ops : task[j] # "idle"}) < MaxStarted
  /\ task' = [task EXCEPT ![k] = "sent"]
  /\ bridge' = IF k \in Runs THEN [bridge EXCEPT !.run = k] ELSE [bridge EXCEPT !.auth = k]
  /\ Write(Message("start", k))
  /\ UNCHANGED <<canceller, tool, host, toApp>>

(* The user cancels: the tool token is cancelled and the target will be    *)
(* read when its callbacks have run.  The task's own token is cancelled    *)
(* too, so its wait throws; a login keeps waiting for auth_finished.       *)
UserCancels(k) ==
  /\ host.alive /\ task[k] \in Waiting /\ canceller[k] = "none"
  /\ canceller' = [canceller EXCEPT ![k] = "tokens"]
  /\ task' = IF k \in Runs THEN [task EXCEPT ![k] = "stopping"] ELSE task
  /\ UNCHANGED <<bridge, tool, host, toHost, toApp>>

(* CancelAsync reads its target when it sends, whoever asked.              *)
Target == IF bridge.run # NoOp THEN bridge.run ELSE bridge.auth
SendCancel == IF Target = NoOp THEN UNCHANGED toHost ELSE Write(Message("cancel", Target))

CancelReadsTarget(k) ==
  /\ host.alive /\ canceller[k] = "tokens"
  /\ canceller' = [canceller EXCEPT ![k] = "done"]
  /\ SendCancel
  /\ UNCHANGED <<task, bridge, tool, host, toApp>>

(* A wait ends without its answer: 30 s for the response, the budget plus  *)
(* 15 s for run_finished.  A task still owns its run and cancels it before *)
(* it ends; the page of a login only shows the error.                      *)
TimesOut(k) ==
  /\ host.alive
  /\ \/ k \in Runs /\ task[k] \in Waiting /\ task' = [task EXCEPT ![k] = "stopping"]
     \/ k \in Logins /\ task[k] = "sent" /\ task' = [task EXCEPT ![k] = "over"]
  /\ UNCHANGED <<canceller, bridge, tool, host, toHost, toApp>>

StopRun(r) ==
  /\ host.alive /\ task[r] = "stopping" /\ task' = [task EXCEPT ![r] = "over"]
  /\ SendCancel
  /\ UNCHANGED <<canceller, bridge, tool, host, toApp>>

(* A tool ends with a result, whatever happened to it, and the result is   *)
(* written; or the frame is too large and nothing is written.              *)
ToolReplies(c) ==
  /\ host.alive /\ tool[c] \in {"executing", "unknown"} /\ tool' = [tool EXCEPT ![c] = "none"]
  /\ Write(Message("result", c))
  /\ UNCHANGED <<task, canceller, bridge, host, toApp>>

ToolReplyFails(c) ==
  /\ host.alive /\ tool[c] = "executing" /\ tool' = [tool EXCEPT ![c] = "lost"]
  /\ UNCHANGED <<task, canceller, bridge, host, toHost, toApp>>

-----------------------------------------------------------------------------
(* PumpAsync: one message of the host *)

Received(t, k) == host.alive /\ toApp # <<>> /\ Head(toApp) = Message(t, k) /\ toApp' = Tail(toApp)
Answered(k, s) == task' = IF task[k] = "sent" THEN [task EXCEPT ![k] = s] ELSE task

PumpAccepted(k) ==
  /\ Received("accepted", k) /\ Answered(k, "running")
  /\ UNCHANGED <<canceller, bridge, tool, host, toHost>>

(* A refused request clears the target it had recorded.                    *)
PumpRefused(k) ==
  /\ Received("refused", k) /\ Answered(k, "over")
  /\ bridge' = IF task[k] # "sent" THEN bridge
               ELSE IF k \in Runs THEN [bridge EXCEPT !.run = NoOp] ELSE [bridge EXCEPT !.auth = NoOp]
  /\ UNCHANGED <<canceller, tool, host, toHost>>

(* Mutant of PumpRunStarted: the token of the run before stays.            *)
PumpRunStartedKeepsToken(r) ==
  /\ Received("run_started", r)
  /\ UNCHANGED <<task, canceller, bridge, tool, host, toHost>>

PumpRunStarted(r) ==
  /\ Received("run_started", r) /\ bridge' = [bridge EXCEPT !.token = r]
  /\ UNCHANGED <<task, canceller, tool, host, toHost>>

(* Mutant of PumpToolRequest: a request without a context is ignored.      *)
PumpKnownToolRequest(c) ==
  /\ Received("tool_request", c)
  /\ tool' = IF task[c[1]] \in Waiting THEN [tool EXCEPT ![c] = "executing"] ELSE tool
  /\ UNCHANGED <<task, canceller, bridge, host, toHost>>

(* The context of a task is removed when its wait ends; a request without  *)
(* one is answered UNKNOWN_TASK_CONTEXT.                                   *)
PumpToolRequest(c) ==
  /\ Received("tool_request", c)
  /\ tool' = [tool EXCEPT ![c] = IF task[c[1]] \in Waiting THEN "executing" ELSE "unknown"]
  /\ UNCHANGED <<task, canceller, bridge, host, toHost>>

(* The end of any operation clears activeRun or activeAuth.                *)
PumpFinished(k) ==
  /\ Received("finished", k)
  /\ task' = IF task[k] \in Waiting THEN [task EXCEPT ![k] = "over"] ELSE task
  /\ bridge' = IF k \in Runs THEN [bridge EXCEPT !.run = NoOp] ELSE [bridge EXCEPT !.auth = NoOp]
  /\ UNCHANGED <<canceller, tool, host, toHost>>

-----------------------------------------------------------------------------
(* The host: handle() takes the commands in order *)

Command(t, k) == host.alive /\ toHost # <<>> /\ Head(toHost) = Message(t, k) /\ toHost' = Tail(toHost)
Emit(msgs)    == toApp' = toApp \o msgs
HostOnly      == UNCHANGED <<task, canceller, bridge, tool>>

Free == host.run = NoOp /\ host.auth = NoOp

(* busy or authentication.busy refuse; so do an unknown model, a policy    *)
(* that does not match and an unsupported login.                           *)
HandleRefused(k) ==
  /\ Command("start", k) /\ Emit(<<Message("refused", k)>>)
  /\ UNCHANGED host /\ HostOnly

HandleStart(k) ==
  /\ Command("start", k) /\ Free
  /\ \/ /\ k \in Runs
        /\ host' = [host EXCEPT !.run = k, !.phase = "starting", !.aborted = FALSE, !.calls = 0]
        /\ UNCHANGED toApp
     \/ /\ k \in Logins
        /\ host' = [host EXCEPT !.auth = k, !.authAborted = FALSE]
        /\ Emit(<<Message("accepted", k)>>)
  /\ HostOnly

(* Mutant of Aborted: pending calls are not told.                          *)
AbortedSilently(h) == [h EXCEPT !.aborted = TRUE]

(* controller.abort rejects every pending call through its listener.       *)
Aborted(h) == [h EXCEPT !.aborted = TRUE, !.pending = {}]

HandleCancel(k) ==
  /\ Command("cancel", k)
  /\ host' = IF k = host.run THEN Aborted(host)
             ELSE IF k = host.auth THEN [host EXCEPT !.authAborted = TRUE] ELSE host
  /\ UNCHANGED toApp /\ HostOnly

HandleToolResult(c) ==
  /\ Command("result", c)
  /\ host' = IF c[1] = host.run THEN [host EXCEPT !.pending = @ \ {c}] ELSE host
  /\ UNCHANGED toApp /\ HostOnly

(* createBusinessSession succeeds or throws.                               *)
SessionStarts(r) ==
  /\ host.alive /\ host.run = r /\ host.phase = "starting"
  /\ host' = [host EXCEPT !.phase = "prompting"]
  /\ Emit(<<Message("accepted", r), Message("run_started", r)>>)
  /\ UNCHANGED toHost /\ HostOnly

EndRun == [host EXCEPT !.run = NoOp, !.phase = "idle", !.aborted = FALSE, !.calls = 0, !.pending = {}]

SessionFails(r) ==
  /\ host.alive /\ host.run = r /\ host.phase = "starting"
  /\ host' = EndRun /\ Emit(<<Message("refused", r), Message("finished", r)>>)
  /\ UNCHANGED toHost /\ HostOnly

(* The dispatch of createTools: a call over the budget aborts the run.     *)
Dispatch(c) ==
  /\ host.alive /\ host.run = c[1] /\ host.phase = "prompting" /\ ~host.aborted
  /\ c[2] = host.calls + 1
  /\ LET counted == [host EXCEPT !.calls = c[2]] IN
     \/ c[2] > MaxToolCalls /\ host' = Aborted(counted) /\ UNCHANGED toApp
     \/ /\ c[2] <= MaxToolCalls /\ host' = [counted EXCEPT !.pending = @ \cup {c}]
        /\ Emit(<<Message("tool_request", c)>>)
  /\ UNCHANGED toHost /\ HostOnly

(* setTimeout(limits.timeout_ms) and the deadline of a login.              *)
RunTimer(r) ==
  /\ host.alive /\ host.run = r /\ ~host.aborted /\ host' = Aborted(host)
  /\ UNCHANGED <<toHost, toApp>> /\ HostOnly

LoginTimer(l) ==
  /\ host.alive /\ host.auth = l /\ ~host.authAborted /\ host' = [host EXCEPT !.authAborted = TRUE]
  /\ UNCHANGED <<toHost, toApp>> /\ HostOnly

(* Mutant of FinishRun: a cancelled run says nothing when it ends.         *)
FinishRunQuietly(r) ==
  /\ host.alive /\ host.run = r /\ host.phase = "prompting" /\ host.pending = {}
  /\ host' = EndRun /\ Emit(IF host.aborted THEN <<>> ELSE <<Message("finished", r)>>)
  /\ UNCHANGED toHost /\ HostOnly

(* The agent loop awaits its tools, so the prompt settles with none        *)
(* pending; the finally block ends the run in the same turn.               *)
FinishRun(r) ==
  /\ host.alive /\ host.run = r /\ host.phase = "prompting" /\ host.pending = {}
  /\ host' = EndRun /\ Emit(<<Message("finished", r)>>)
  /\ UNCHANGED toHost /\ HostOnly

(* Authentication clears active before it emits auth_finished.             *)
FinishLogin(l) ==
  /\ host.alive /\ host.auth = l
  /\ host' = [host EXCEPT !.auth = NoOp, !.authAborted = FALSE] /\ Emit(<<Message("finished", l)>>)
  /\ UNCHANGED toHost /\ HostOnly

(* The host dies, or writes what the protocol does not allow and is        *)
(* killed: the pump fails every wait and raises host_disconnected.         *)
HostDies ==
  /\ host.alive /\ host' = [IdleHost EXCEPT !.alive = FALSE]
  /\ task' = [k \in Ops |-> IF task[k] = "idle" THEN "idle" ELSE "over"]
  /\ toHost' = <<>> /\ toApp' = <<>>
  /\ UNCHANGED <<canceller, bridge, tool>>

-----------------------------------------------------------------------------
Application(k) ==
  \/ Ask(k) \/ UserCancels(k) \/ CancelReadsTarget(k) \/ TimesOut(k)
  \/ k \in Runs /\ StopRun(k)

Pump(k) ==
  \/ PumpAccepted(k) \/ PumpRefused(k) \/ PumpFinished(k)
  \/ k \in Runs /\ PumpRunStarted(k)

Handle(k) == HandleRefused(k) \/ HandleStart(k) \/ HandleCancel(k)

Session(r) == SessionStarts(r) \/ SessionFails(r) \/ RunTimer(r) \/ FinishRun(r)
Login(l)   == LoginTimer(l) \/ FinishLogin(l)

Tool(c) == ToolReplies(c) \/ ToolReplyFails(c) \/ PumpToolRequest(c) \/ HandleToolResult(c)

Next ==
  \/ \E k \in Ops : Application(k) \/ Pump(k) \/ Handle(k)
  \/ \E r \in Runs : Session(r)
  \/ \E l \in Logins : Login(l)
  \/ \E c \in Calls : Tool(c) \/ Dispatch(c)
  \/ HostDies

(* Both event loops keep reading, the timers fire, an aborted session      *)
(* settles (session.abort awaits it), and a started CancelAsync continues. *)
Fairness ==
  /\ \A k \in Ops : WF_vars(Pump(k)) /\ WF_vars(Handle(k)) /\ WF_vars(CancelReadsTarget(k))
  /\ \A r \in Runs :
       /\ WF_vars(SessionStarts(r) \/ SessionFails(r)) /\ WF_vars(RunTimer(r))
       /\ WF_vars(host.aborted /\ FinishRun(r)) /\ WF_vars(StopRun(r))
  /\ \A l \in Logins : WF_vars(LoginTimer(l)) /\ WF_vars(host.authAborted /\ FinishLogin(l))
  /\ \A c \in Calls : WF_vars(PumpToolRequest(c)) /\ WF_vars(HandleToolResult(c))

Spec == Init /\ [][Next]_vars /\ Fairness

-----------------------------------------------------------------------------
(* Properties *)

Kinds == {"start", "cancel", "result"}                                        \* commands
         \cup {"accepted", "refused", "run_started", "tool_request", "finished"} \* answers, events
Msgs  == [type: Kinds, of: Ops \cup Calls]

In(pipe, m) == \E i \in DOMAIN pipe : pipe[i] = m

Bridges == [run: Runs \cup {NoOp}, auth: Logins \cup {NoOp}, token: Runs \cup {NoOp}]
Hosts   == [alive: BOOLEAN, run: Runs \cup {NoOp}, phase: {"idle", "starting", "prompting"},
            aborted: BOOLEAN, calls: 0 .. Attempts, pending: SUBSET Calls,
            auth: Logins \cup {NoOp}, authAborted: BOOLEAN]

(* The shape of every variable.                                            *)
ChannelTypeOK ==
  /\ task \in [Ops -> Waiting \cup {"idle", "stopping", "over"}]
  /\ canceller \in [Ops -> {"none", "tokens", "done"}]
  /\ bridge \in Bridges /\ host \in Hosts
  /\ tool \in [Calls -> {"none", "executing", "unknown", "lost"}]
  /\ toHost \in Seq(Msgs) /\ toApp \in Seq(Msgs)

(* Research and login exclude each other in the host, whatever the two     *)
(* pages of the application ask for and in which order the pipe brings it. *)
OneSlot == host.run = NoOp \/ host.auth = NoOp

(* Nobody waits for an answer that will not come: what a waiting operation *)
(* waits for is being worked on or is in a pipe.                           *)
WaitIsAnswered ==
  \A k \in Ops : task[k] \in Waiting =>
    \/ k \in {host.run, host.auth} \/ In(toApp, Message("finished", k))
    \/ task[k] = "sent" /\ (In(toHost, Message("start", k)) \/ In(toApp, Message("refused", k)))

(* A call the host waits for belongs to its active run, and is asked for,  *)
(* being executed, or answered, unless the answer could not be written.    *)
PendingCallIsSomewhere ==
  \A c \in host.pending :
    /\ c[1] = host.run /\ ~host.aborted
    /\ \/ In(toApp, Message("tool_request", c)) \/ tool[c] \in {"executing", "unknown", "lost"}
       \/ In(toHost, Message("result", c))

(* A tool is executed under the token of its own run, although the host    *)
(* sends its request without waiting and the pump replaces the token: the  *)
(* tools of a run can be cancelled with it, and with no other run.         *)
TokenOfOwnRun ==
  toApp # <<>> /\ Head(toApp).type = "tool_request" => bridge.token = Head(toApp).of[1]

(* Every operation ends for the user who started it, with the host alive   *)
(* and silent tools, cancelled at any moment or not.                       *)
EveryOperationEnds == \A k \in Ops : task[k] # "idle" ~> task[k] = "over"

(* docs/design/details/02-integrations-jobs.md:137: a cancel request is    *)
(* handed to the process it concerns.  A task that gave up its run has     *)
(* seen it end, or the cancellation is on its way or done.                 *)
AbandonedRunIsCancelled ==
  \A r \in Runs :
    (task[r] = "over" /\ host.run = r /\ ~host.aborted) => In(toHost, Message("cancel", r))
=============================================================================
