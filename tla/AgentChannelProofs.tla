------------------------- MODULE AgentChannelProofs -------------------------
(* Proofs about AgentChannel: its types, the exclusion of research and     *)
(* login in the host, the token every tool is executed under, what every wait     *)
(* and every pending call of the channel still has to come.              *)
EXTENDS AgentChannel, SequenceTheorems, TLAPS

(* What is put into a pipe is a message.                                   *)
LEMMA MessageType ==
  ASSUME NEW t \in Kinds, NEW k \in Ops \cup Calls
  PROVE  Message(t, k) \in Msgs
BY DEF Message, Msgs

(* Taking and adding messages keeps a pipe a pipe.                         *)
LEMMA PipeTypes ==
  ASSUME NEW p \in Seq(Msgs)
  PROVE  /\ p # <<>> => Tail(p) \in Seq(Msgs) /\ Head(p) \in Msgs
         /\ \A x \in Msgs : Append(p, x) \in Seq(Msgs)
         /\ \A x \in Msgs : p \o <<x>> \in Seq(Msgs)
         /\ \A x, y \in Msgs : p \o <<x, y>> \in Seq(Msgs)
OBVIOUS

(* The host starts from, and returns to, no call.                          *)
LEMMA NoCalls == 0 \in 0 .. Attempts
BY CallsAssumption

(* What the cancellation writes is a message.                              *)
LEMMA SendCancelType ==
  ASSUME ChannelTypeOK, SendCancel
  PROVE  toHost' \in Seq(Msgs)
<1>1. toHost \in Seq(Msgs)
  BY DEF ChannelTypeOK
<1>2. Target \in Ops \cup {NoOp}
  BY DEF ChannelTypeOK, Bridges, Target, Ops
<1>3. CASE Target = NoOp
  BY <1>1, <1>3 DEF SendCancel
<1>4. CASE Target # NoOp
  <2>0. Target \in Ops \cup Calls
    BY <1>2, <1>4
  <2>1. Message("cancel", Target) \in Msgs
    BY <2>0 DEF Message, Msgs, Kinds
  <2>2. toHost' = Append(toHost, Message("cancel", Target))
    BY <1>4 DEF SendCancel, Write
  <2> QED BY <1>1, <2>1, <2>2, PipeTypes
<1> QED BY <1>3, <1>4

Typed == ChannelTypeOK /\ OneSlot

LEMMA InitTyped == Init => Typed
<1> SUFFICES ASSUME Init PROVE Typed OBVIOUS
<1>1. NoOp \notin Runs \cup Logins BY OpsAssumption
<1>2. host \in Hosts
  BY NoCalls DEF Init, IdleHost, Hosts
<1> QED BY <1>1, <1>2 DEF Init, Typed, ChannelTypeOK, OneSlot, Bridges, IdleHost, Ops, Waiting

(* The steps of the application.                                           *)
LEMMA ApplicationTyped ==
  ASSUME Typed, NEW k \in Ops, Application(k)
  PROVE  Typed'
<1> USE DEF Typed, ChannelTypeOK
<1>1. CASE Ask(k)
  <2>1. Message("start", k) \in Msgs BY DEF Message, Msgs, Kinds
  <2>2. toHost' \in Seq(Msgs) BY <1>1, <2>1, PipeTypes DEF Ask, Write
  <2>3. bridge' \in Bridges BY <1>1 DEF Ask, Bridges, Ops
  <2> QED BY <1>1, <2>2, <2>3 DEF Ask, OneSlot, Waiting
<1>2. CASE UserCancels(k)
  BY <1>2 DEF UserCancels, OneSlot, Waiting
<1>3. CASE CancelReadsTarget(k)
  <2>1. toHost' \in Seq(Msgs) BY <1>3, SendCancelType DEF CancelReadsTarget
  <2> QED BY <1>3, <2>1 DEF CancelReadsTarget, OneSlot
<1>4. CASE TimesOut(k)
  BY <1>4 DEF TimesOut, OneSlot, Waiting
<1>5. CASE k \in Runs /\ StopRun(k)
  <2>1. toHost' \in Seq(Msgs) BY <1>5, SendCancelType DEF StopRun
  <2> QED BY <1>5, <2>1 DEF StopRun, OneSlot, Waiting
<1> QED BY <1>1, <1>2, <1>3, <1>4, <1>5 DEF Application

(* The steps of PumpAsync.                                                 *)
LEMMA PumpTyped ==
  ASSUME Typed, NEW k \in Ops, Pump(k)
  PROVE  Typed'
<1> USE DEF Typed, ChannelTypeOK
<1>0. /\ toApp \in Seq(Msgs) /\ toApp # <<>> /\ toApp' = Tail(toApp)
  BY DEF Pump, PumpAccepted, PumpRefused, PumpFinished, PumpRunStarted, Received
<1>1. toApp' \in Seq(Msgs) BY <1>0, PipeTypes
<1>2. CASE PumpAccepted(k)
  BY <1>1, <1>2 DEF PumpAccepted, Answered, OneSlot, Waiting
<1>3. CASE PumpRefused(k)
  <2>1. bridge' \in Bridges BY <1>3 DEF PumpRefused, Bridges
  <2> QED BY <1>1, <1>3, <2>1 DEF PumpRefused, Answered, OneSlot, Waiting
<1>4. CASE PumpFinished(k)
  <2>1. bridge' \in Bridges BY <1>4 DEF PumpFinished, Bridges
  <2> QED BY <1>1, <1>4, <2>1 DEF PumpFinished, OneSlot, Waiting
<1>5. CASE k \in Runs /\ PumpRunStarted(k)
  <2>1. bridge' \in Bridges BY <1>5 DEF PumpRunStarted, Bridges
  <2> QED BY <1>1, <1>5, <2>1 DEF PumpRunStarted, OneSlot
<1> QED BY <1>2, <1>3, <1>4, <1>5 DEF Pump

(* The commands the host takes for an operation.                           *)
LEMMA HandleTyped ==
  ASSUME Typed, NEW k \in Ops, Handle(k)
  PROVE  Typed'
<1> USE DEF Typed, ChannelTypeOK
<1>0. /\ toHost \in Seq(Msgs) /\ toHost # <<>> /\ toHost' = Tail(toHost) /\ toApp \in Seq(Msgs)
  BY DEF Handle, HandleRefused, HandleStart, HandleCancel, Command
<1>1. toHost' \in Seq(Msgs) BY <1>0, PipeTypes
<1>m. \A t \in Kinds : toApp \o <<Message(t, k)>> \in Seq(Msgs)
  BY <1>0, MessageType, PipeTypes
<1>2. CASE HandleRefused(k)
  BY <1>1, <1>2, <1>m DEF HandleRefused, Emit, Kinds, HostOnly, OneSlot
<1>3. CASE HandleStart(k)
  <2>0. toApp' = toApp \/ toApp' = toApp \o <<Message("accepted", k)>>
    BY <1>3 DEF HandleStart, Emit
  <2>1. toApp' \in Seq(Msgs) BY <1>0, <2>0, <1>m DEF Kinds
  <2>2. host' \in Hosts
    <3>1. CASE k \in Runs /\ host' = [host EXCEPT !.run = k, !.phase = "starting", !.aborted = FALSE, !.calls = 0]
      BY <3>1, NoCalls DEF Hosts
    <3>2. CASE k \in Logins /\ host' = [host EXCEPT !.auth = k, !.authAborted = FALSE]
      BY <3>2 DEF Hosts
    <3> QED BY <1>3, <3>1, <3>2 DEF HandleStart
  <2>3. OneSlot' BY <1>3 DEF HandleStart, Free, OneSlot, Hosts
  <2> QED BY <1>1, <1>3, <2>1, <2>2, <2>3 DEF HandleStart, HostOnly
<1>4. CASE HandleCancel(k)
  <2>1. host' \in Hosts /\ host'.run = host.run /\ host'.auth = host.auth
    BY <1>4 DEF HandleCancel, Aborted, Hosts
  <2> QED BY <1>1, <1>4, <2>1 DEF HandleCancel, HostOnly, OneSlot
<1> QED BY <1>2, <1>3, <1>4 DEF Handle

(* The steps of a run in the host.                                         *)
LEMMA SessionTyped ==
  ASSUME Typed, NEW r \in Runs, Session(r)
  PROVE  Typed'
<1> USE DEF Typed, ChannelTypeOK
<1>0. r \in Ops BY DEF Ops
<1>m. \A t \in Kinds : Message(t, r) \in Msgs BY <1>0, MessageType
<1>1. CASE SessionStarts(r)
  <2>1. host' \in Hosts /\ host'.run = host.run /\ host'.auth = host.auth
    BY <1>1 DEF SessionStarts, Hosts
  <2>2. toApp' \in Seq(Msgs) BY <1>0, <1>1, <1>m, PipeTypes DEF SessionStarts, Emit, Kinds
  <2> QED BY <1>1, <2>1, <2>2 DEF SessionStarts, HostOnly, OneSlot
<1>e. EndRun \in Hosts /\ EndRun.run = NoOp BY NoCalls DEF EndRun, Hosts
<1>2. CASE SessionFails(r)
  <2>2. toApp' \in Seq(Msgs) BY <1>0, <1>2, <1>m, PipeTypes DEF SessionFails, Emit, Kinds
  <2> QED BY <1>2, <1>e, <2>2 DEF SessionFails, HostOnly, OneSlot
<1>3. CASE RunTimer(r)
  <2>1. host' \in Hosts /\ host'.run = host.run /\ host'.auth = host.auth
    BY <1>3 DEF RunTimer, Aborted, Hosts
  <2> QED BY <1>3, <2>1 DEF RunTimer, HostOnly, OneSlot
<1>4. CASE FinishRun(r)
  <2>2. toApp' \in Seq(Msgs) BY <1>0, <1>4, <1>m, PipeTypes DEF FinishRun, Emit, Kinds
  <2> QED BY <1>4, <1>e, <2>2 DEF FinishRun, HostOnly, OneSlot
<1> QED BY <1>1, <1>2, <1>3, <1>4 DEF Session

(* The steps of a login in the host.                                       *)
LEMMA LoginTyped ==
  ASSUME Typed, NEW l \in Logins, Login(l)
  PROVE  Typed'
<1> USE DEF Typed, ChannelTypeOK
<1>1. CASE LoginTimer(l)
  <2>1. host' \in Hosts /\ host'.run = host.run /\ host'.auth = host.auth
    BY <1>1 DEF LoginTimer, Hosts
  <2> QED BY <1>1, <2>1 DEF LoginTimer, HostOnly, OneSlot
<1>2. CASE FinishLogin(l)
  <2>1. l \in Ops BY DEF Ops
  <2>2. toApp' \in Seq(Msgs) BY <1>2, <2>1, MessageType, PipeTypes DEF FinishLogin, Emit, Kinds
  <2>3. host' \in Hosts /\ host'.auth = NoOp BY <1>2 DEF FinishLogin, Hosts
  <2> QED BY <1>2, <2>2, <2>3 DEF FinishLogin, HostOnly, OneSlot
<1> QED BY <1>1, <1>2 DEF Login

(* The steps of a tool call, on both sides.                                *)
LEMMA ToolTyped ==
  ASSUME Typed, NEW c \in Calls, Tool(c) \/ Dispatch(c)
  PROVE  Typed'
<1> USE DEF Typed, ChannelTypeOK
<1>m. \A t \in Kinds : Message(t, c) \in Msgs BY MessageType
<1>1. CASE ToolReplies(c)
  <2>1. toHost' \in Seq(Msgs) BY <1>1, <1>m, PipeTypes DEF ToolReplies, Write, Kinds
  <2> QED BY <1>1, <2>1 DEF ToolReplies, OneSlot
<1>2. CASE ToolReplyFails(c)
  BY <1>2 DEF ToolReplyFails, OneSlot
<1>3. CASE PumpToolRequest(c)
  <2>1. toApp' \in Seq(Msgs) BY <1>3, PipeTypes DEF PumpToolRequest, Received
  <2>2. tool' \in [Calls -> {"none", "executing", "unknown", "lost"}]
    BY <1>3 DEF PumpToolRequest
  <2> QED BY <1>3, <2>1, <2>2 DEF PumpToolRequest, OneSlot
<1>4. CASE HandleToolResult(c)
  <2>1. toHost' \in Seq(Msgs) BY <1>4, PipeTypes DEF HandleToolResult, Command
  <2>2. host' \in Hosts /\ host'.run = host.run /\ host'.auth = host.auth
    BY <1>4 DEF HandleToolResult, Hosts
  <2> QED BY <1>4, <2>1, <2>2 DEF HandleToolResult, HostOnly, OneSlot
<1>5. CASE Dispatch(c)
  <2>1. c[2] \in 0 .. Attempts BY CallsAssumption DEF Calls
  <2> DEFINE counted == [host EXCEPT !.calls = c[2]]
  <2>c. counted \in Hosts /\ counted.run = host.run /\ counted.auth = host.auth
    BY <2>1 DEF Hosts
  <2>d. \/ host' = Aborted(counted) /\ toApp' = toApp
        \/ /\ host' = [counted EXCEPT !.pending = @ \cup {c}]
           /\ toApp' = toApp \o <<Message("tool_request", c)>>
    BY <1>5 DEF Dispatch, Emit
  <2> HIDE DEF counted
  <2>2. host' \in Hosts /\ host'.run = host.run /\ host'.auth = host.auth
    <3>1. CASE host' = Aborted(counted)
      BY <2>c, <3>1 DEF Aborted, Hosts
    <3>2. CASE host' = [counted EXCEPT !.pending = @ \cup {c}]
      BY <2>c, <3>2 DEF Hosts
    <3> QED BY <2>d, <3>1, <3>2
  <2>e. Message("tool_request", c) \in Msgs BY <1>m DEF Kinds
  <2>3. toApp' \in Seq(Msgs) BY <2>d, <2>e, PipeTypes
  <2> QED BY <1>5, <2>2, <2>3 DEF Dispatch, HostOnly, OneSlot
<1> QED BY <1>1, <1>2, <1>3, <1>4, <1>5 DEF Tool

LEMMA NextTyped == Typed /\ [Next]_vars => Typed'
<1> SUFFICES ASSUME Typed, [Next]_vars PROVE Typed' OBVIOUS
<1>1. CASE HostDies
  <2>1. host' \in Hosts /\ host'.run = NoOp BY <1>1, NoCalls DEF HostDies, IdleHost, Hosts
  <2>2. task' \in [Ops -> Waiting \cup {"idle", "stopping", "over"}] BY <1>1 DEF HostDies
  <2> QED BY <1>1, <2>1, <2>2 DEF HostDies, Typed, ChannelTypeOK, OneSlot
<1>2. CASE UNCHANGED vars
  BY <1>2 DEF vars, Typed, ChannelTypeOK, OneSlot
<1> QED BY <1>1, <1>2, ApplicationTyped, PumpTyped, HandleTyped, SessionTyped, LoginTyped, ToolTyped DEF Next

LEMMA AlwaysTyped == Spec => []Typed
<1>1. Init => Typed BY InitTyped
<1>2. Typed /\ [Next]_vars => Typed' BY NextTyped
<1> QED BY <1>1, <1>2, PTL DEF Spec

(* The bridge, the host, the tools and the pipes keep their types, for any *)
(* number of operations, tool calls and messages in the pipes.             *)
THEOREM TypeCorrect == Spec => []ChannelTypeOK
<1>1. Typed => ChannelTypeOK BY DEF Typed
<1> QED BY <1>1, AlwaysTyped, PTL

(* busy and Authentication.busy never hold together: the host never serves *)
(* a research run and a login at once.                                     *)
THEOREM ResearchExcludesLogin == Spec => []OneSlot
<1>1. Typed => OneSlot BY DEF Typed
<1> QED BY <1>1, AlwaysTyped, PTL

-----------------------------------------------------------------------------
(* The token.  Covers(p, t, i, r): when the messages of p before place i   *)
(* have been read, starting with token t, the token is that of run r.      *)

Starts(x) == x.type = "run_started"

Covers(p, t, i, r) ==
  \/ t = r /\ \A j \in 1 .. (i - 1) : ~Starts(p[j])
  \/ \E j \in 1 .. (i - 1) :
       p[j] = Message("run_started", r) /\ \A m \in (j + 1) .. (i - 1) : ~Starts(p[m])

(* Every request on its way will find the token of its run, and so will    *)
(* the next request of a run that is prompting.                            *)
RequestsCovered ==
  \A i \in 1 .. Len(toApp) :
    toApp[i].type = "tool_request" => Covers(toApp, bridge.token, i, toApp[i].of[1])
RunCovered ==
  host.phase = "prompting" => Covers(toApp, bridge.token, Len(toApp) + 1, host.run)
TokenInv == RequestsCovered /\ RunCovered

(* The places of a longer and of a shorter pipe.                           *)
LEMMA AppendedPlaces ==
  ASSUME NEW p \in Seq(Msgs), NEW x \in Msgs
  PROVE  /\ Len(p \o <<x>>) = Len(p) + 1 /\ (p \o <<x>>)[Len(p) + 1] = x
         /\ \A i \in 1 .. Len(p) : (p \o <<x>>)[i] = p[i]
OBVIOUS

LEMMA TailPlaces ==
  ASSUME NEW p \in Seq(Msgs), p # <<>>
  PROVE  /\ Len(p) \in Nat /\ Len(p) > 0 /\ Head(p) = p[1]
         /\ Len(Tail(p)) = Len(p) - 1 /\ \A i \in 1 .. (Len(p) - 1) : Tail(p)[i] = p[i + 1]
OBVIOUS

(* A message added at the end disturbs no place before it, and the place   *)
(* after it only when it is run_started.                                   *)
LEMMA CoversAppended ==
  ASSUME NEW p \in Seq(Msgs), NEW x \in Msgs, NEW t, NEW r
  PROVE  /\ \A i \in 1 .. (Len(p) + 1) : Covers(p, t, i, r) => Covers(p \o <<x>>, t, i, r)
         /\ Covers(p, t, Len(p) + 1, r) /\ ~Starts(x) => Covers(p \o <<x>>, t, Len(p) + 2, r)
         /\ x = Message("run_started", r) => Covers(p \o <<x>>, t, Len(p) + 2, r)
<1> DEFINE q == p \o <<x>>
<1>1. /\ Len(p) \in Nat /\ Len(q) = Len(p) + 1 /\ q[Len(p) + 1] = x
      /\ \A i \in 1 .. Len(p) : q[i] = p[i]
  BY AppendedPlaces
<1> HIDE DEF q
<1>2. ASSUME NEW i \in 1 .. (Len(p) + 1), Covers(p, t, i, r)
      PROVE  Covers(q, t, i, r)
  <2>1. \A j \in 1 .. (i - 1) : q[j] = p[j]
    BY <1>1
  <2> QED BY <1>2, <2>1 DEF Covers
<1>3. ASSUME Covers(p, t, Len(p) + 1, r), ~Starts(x)
      PROVE  Covers(q, t, Len(p) + 2, r)
  <2>1. Covers(q, t, Len(p) + 1, r)
    BY <1>1, <1>2, <1>3
  <2>2. ~Starts(q[Len(p) + 1])
    BY <1>1, <1>3
  <2> QED BY <1>1, <2>1, <2>2 DEF Covers
<1>4. x = Message("run_started", r) => Covers(q, t, Len(p) + 2, r)
  BY <1>1 DEF Covers
<1> QED BY <1>2, <1>3, <1>4 DEF q

(* Reading the first message moves every place one step nearer.            *)
LEMMA CoversTail ==
  ASSUME NEW p \in Seq(Msgs), p # <<>>, NEW t, NEW u, NEW r, NEW i \in 2 .. (Len(p) + 1),
         IF Starts(Head(p)) THEN Head(p) = Message("run_started", u) ELSE u = t,
         Covers(p, t, i, r)
  PROVE  Covers(Tail(p), u, i - 1, r)
<1> DEFINE q == Tail(p)
<1>1. /\ Len(p) \in Nat /\ Len(p) > 0 /\ Head(p) = p[1]
      /\ \A j \in 1 .. (Len(p) - 1) : q[j] = p[j + 1]
  BY TailPlaces
<1> HIDE DEF q
<1>2. CASE t = r /\ \A j \in 1 .. (i - 1) : ~Starts(p[j])
  <2>1. ~Starts(p[1]) BY <1>2
  <2>2. u = r BY <1>1, <1>2, <2>1
  <2>3. \A j \in 1 .. (i - 2) : ~Starts(q[j]) BY <1>1, <1>2
  <2> QED BY <2>2, <2>3 DEF Covers, q
<1>3. ASSUME NEW j \in 1 .. (i - 1), p[j] = Message("run_started", r),
             \A m \in (j + 1) .. (i - 1) : ~Starts(p[m])
      PROVE  Covers(q, u, i - 1, r)
  <2>1. CASE j = 1
    <3>1. Message("run_started", u) = Message("run_started", r)
      BY <1>1, <1>3, <2>1 DEF Starts, Message
    <3>2. u = r BY <3>1 DEF Message
    <3>3. \A m \in 1 .. (i - 2) : ~Starts(q[m]) BY <1>1, <1>3, <2>1
    <3> QED BY <3>2, <3>3 DEF Covers
  <2>2. CASE j # 1
    <3>1. j - 1 \in 1 .. (i - 2) /\ q[j - 1] = Message("run_started", r) BY <1>1, <1>3, <2>2
    <3>2. \A m \in j .. (i - 2) : ~Starts(q[m]) BY <1>1, <1>3, <2>2
    <3> QED BY <3>1, <3>2 DEF Covers
  <2> QED BY <2>1, <2>2
<1> QED BY <1>2, <1>3 DEF Covers, q

(* What a step may do to the run that is prompting.                        *)
KeepsRun == host'.phase = "prompting" => host.phase = "prompting" /\ host'.run = host.run

LEMMA TokenKept ==
  ASSUME TokenInv, toApp' = toApp, bridge'.token = bridge.token, KeepsRun
  PROVE  TokenInv'
BY DEF TokenInv, RequestsCovered, RunCovered, KeepsRun

LEMMA TokenAppended ==
  ASSUME toApp \in Seq(Msgs), TokenInv, KeepsRun, bridge'.token = bridge.token,
         NEW x \in Msgs, ~Starts(x), toApp' = toApp \o <<x>>,
         x.type = "tool_request" => host.phase = "prompting" /\ x.of[1] = host.run
  PROVE  TokenInv'
<1>1. /\ Len(toApp) \in Nat /\ Len(toApp') = Len(toApp) + 1 /\ toApp'[Len(toApp) + 1] = x
      /\ \A i \in 1 .. Len(toApp) : toApp'[i] = toApp[i]
  BY AppendedPlaces
<1>2. ASSUME NEW i \in 1 .. Len(toApp'), toApp'[i].type = "tool_request"
      PROVE  Covers(toApp', bridge'.token, i, toApp'[i].of[1])
  <2>1. CASE i = Len(toApp) + 1
    <3>1. Covers(toApp, bridge.token, Len(toApp) + 1, x.of[1])
      BY <1>1, <1>2, <2>1 DEF TokenInv, RunCovered
    <3>2. Len(toApp) + 1 \in 1 .. (Len(toApp) + 1) BY <1>1
    <3> QED BY <1>1, <2>1, <3>1, <3>2, CoversAppended
  <2>2. CASE i # Len(toApp) + 1
    <3>1. i \in 1 .. Len(toApp) /\ i \in 1 .. (Len(toApp) + 1) BY <1>1, <2>2
    <3>2. Covers(toApp, bridge.token, i, toApp[i].of[1])
      BY <1>1, <1>2, <3>1 DEF TokenInv, RequestsCovered
    <3> QED BY <1>1, <3>1, <3>2, CoversAppended
  <2> QED BY <2>1, <2>2
<1>3. ASSUME host'.phase = "prompting"
      PROVE  Covers(toApp', bridge'.token, Len(toApp') + 1, host'.run)
  <2>1. Covers(toApp, bridge.token, Len(toApp) + 1, host.run) /\ host'.run = host.run
    BY <1>3 DEF TokenInv, RunCovered, KeepsRun
  <2>2. Len(toApp') + 1 = Len(toApp) + 2 BY <1>1
  <2> QED BY <2>1, <2>2, CoversAppended
<1> QED BY <1>2, <1>3 DEF TokenInv, RequestsCovered, RunCovered

LEMMA TokenRead ==
  ASSUME toApp \in Seq(Msgs), toApp # <<>>, TokenInv, toApp' = Tail(toApp), host' = host,
         IF Starts(Head(toApp)) THEN Head(toApp) = Message("run_started", bridge'.token)
                                ELSE bridge'.token = bridge.token
  PROVE  TokenInv'
<1>1. /\ Len(toApp) \in Nat /\ Len(toApp) > 0 /\ Len(toApp') = Len(toApp) - 1
      /\ \A i \in 1 .. (Len(toApp) - 1) : toApp'[i] = toApp[i + 1]
  BY TailPlaces
<1>2. ASSUME NEW i \in 2 .. (Len(toApp) + 1), NEW r, Covers(toApp, bridge.token, i, r)
      PROVE  Covers(toApp', bridge'.token, i - 1, r)
  BY <1>2, CoversTail
<1>3. ASSUME NEW i \in 1 .. Len(toApp'), toApp'[i].type = "tool_request"
      PROVE  Covers(toApp', bridge'.token, i, toApp'[i].of[1])
  <2>1. /\ i + 1 \in 2 .. (Len(toApp) + 1) /\ i + 1 \in 1 .. Len(toApp) /\ (i + 1) - 1 = i
        /\ toApp'[i] = toApp[i + 1]
    BY <1>1
  <2>2. Covers(toApp, bridge.token, i + 1, toApp'[i].of[1])
    BY <1>3, <2>1 DEF TokenInv, RequestsCovered
  <2>3. Covers(toApp', bridge'.token, (i + 1) - 1, toApp'[i].of[1])
    BY <1>2, <2>1, <2>2
  <2> QED BY <2>1, <2>3
<1>4. ASSUME host'.phase = "prompting"
      PROVE  Covers(toApp', bridge'.token, Len(toApp') + 1, host'.run)
  <2>1. Covers(toApp, bridge.token, Len(toApp) + 1, host.run)
    BY <1>4 DEF TokenInv, RunCovered
  <2>2. Len(toApp) + 1 \in 2 .. (Len(toApp) + 1) /\ (Len(toApp) + 1) - 1 = Len(toApp') + 1
    BY <1>1
  <2>3. Covers(toApp', bridge'.token, (Len(toApp) + 1) - 1, host.run)
    BY <1>2, <2>1, <2>2
  <2> QED BY <2>2, <2>3
<1> QED BY <1>3, <1>4 DEF TokenInv, RequestsCovered, RunCovered

(* SessionStarts emits accepted and run_started together.                  *)
LEMMA TokenAnnounced ==
  ASSUME ChannelTypeOK, TokenInv, NEW r \in Runs, SessionStarts(r)
  PROVE  TokenInv'
<1> DEFINE a == Message("accepted", r)
           b == Message("run_started", r)
           mid == toApp \o <<a>>
<1>0. toApp \in Seq(Msgs) /\ host.run = r BY DEF ChannelTypeOK, SessionStarts
<1>1. a \in Msgs /\ b \in Msgs BY DEF Message, Msgs, Kinds, Ops
<1>2. ~Starts(a) /\ a.type # "tool_request" /\ b.type # "tool_request"
  BY DEF Message, Starts
<1>3. mid \in Seq(Msgs) BY <1>0, <1>1, PipeTypes
<1>4. toApp' = mid \o <<b>> BY <1>0 DEF SessionStarts, Emit
<1>5. bridge' = bridge /\ host'.run = r BY <1>0 DEF SessionStarts, HostOnly, ChannelTypeOK, Hosts
<1>6. /\ Len(toApp) \in Nat /\ Len(mid) = Len(toApp) + 1 /\ mid[Len(toApp) + 1] = a
      /\ \A i \in 1 .. Len(toApp) : mid[i] = toApp[i]
  BY <1>0, <1>1, AppendedPlaces
<1>7. /\ Len(toApp') = Len(mid) + 1 /\ toApp'[Len(mid) + 1] = b
      /\ \A i \in 1 .. Len(mid) : toApp'[i] = mid[i]
  BY <1>1, <1>3, <1>4, AppendedPlaces
<1>8. ASSUME NEW i \in 1 .. Len(toApp'), toApp'[i].type = "tool_request"
      PROVE  Covers(toApp', bridge'.token, i, toApp'[i].of[1])
  <2> HIDE DEF mid, a, b
  <2>1. i \in 1 .. Len(toApp) /\ toApp'[i] = toApp[i]
    BY <1>2, <1>6, <1>7, <1>8
  <2>2. Covers(toApp, bridge.token, i, toApp[i].of[1])
    BY <1>8, <2>1 DEF TokenInv, RequestsCovered
  <2>3. i \in 1 .. (Len(toApp) + 1) /\ i \in 1 .. (Len(mid) + 1) BY <1>6, <2>1
  <2>4. Covers(mid, bridge.token, i, toApp[i].of[1])
    BY <1>0, <1>1, <2>2, <2>3, CoversAppended DEF mid
  <2>5. Covers(mid \o <<b>>, bridge.token, i, toApp[i].of[1])
    BY <1>1, <1>3, <2>3, <2>4, CoversAppended
  <2> QED BY <1>4, <1>5, <2>1, <2>5
<1>9. Covers(toApp', bridge'.token, Len(toApp') + 1, host'.run)
  <2>1. Covers(mid \o <<b>>, bridge.token, Len(mid) + 2, r)
    BY <1>1, <1>3, CoversAppended
  <2>2. Len(toApp') + 1 = Len(mid) + 2 BY <1>6, <1>7
  <2> QED BY <1>4, <1>5, <2>1, <2>2
<1> QED BY <1>8, <1>9 DEF TokenInv, RequestsCovered, RunCovered

LEMMA InitToken == Init => TokenInv
BY DEF Init, IdleHost, TokenInv, RequestsCovered, RunCovered

(* One lemma per group of actions, as for the types.                       *)
LEMMA ApplicationToken ==
  ASSUME ChannelTypeOK, TokenInv, NEW k \in Ops, Application(k)
  PROVE  TokenInv'
<1>1. toApp' = toApp /\ host' = host
  BY DEF Application, Ask, UserCancels, CancelReadsTarget, TimesOut, StopRun
<1>2. bridge'.token = bridge.token
  BY DEF Application, Ask, UserCancels, CancelReadsTarget, TimesOut, StopRun, ChannelTypeOK, Bridges
<1> QED BY <1>1, <1>2, TokenKept DEF KeepsRun

LEMMA PumpToken ==
  ASSUME ChannelTypeOK, TokenInv, NEW k \in Ops, Pump(k)
  PROVE  TokenInv'
<1>0. /\ toApp \in Seq(Msgs) /\ toApp # <<>> /\ toApp' = Tail(toApp) /\ host' = host
  BY DEF Pump, PumpAccepted, PumpRefused, PumpFinished, PumpRunStarted, Received, ChannelTypeOK
<1>1. CASE PumpAccepted(k) \/ PumpRefused(k) \/ PumpFinished(k)
  <2>1. ~Starts(Head(toApp))
    BY <1>1 DEF PumpAccepted, PumpRefused, PumpFinished, Received, Message, Starts
  <2>2. bridge'.token = bridge.token
    BY <1>1 DEF PumpAccepted, PumpRefused, PumpFinished, ChannelTypeOK, Bridges
  <2> QED BY <1>0, <2>1, <2>2, TokenRead
<1>2. CASE k \in Runs /\ PumpRunStarted(k)
  <2>1. Head(toApp) = Message("run_started", k) /\ bridge'.token = k
    BY <1>2 DEF PumpRunStarted, Received, ChannelTypeOK, Bridges
  <2>2. Starts(Head(toApp)) BY <2>1 DEF Message, Starts
  <2> QED BY <1>0, <2>1, <2>2, TokenRead
<1> QED BY <1>1, <1>2 DEF Pump

LEMMA HandleToken ==
  ASSUME ChannelTypeOK, TokenInv, NEW k \in Ops, Handle(k)
  PROVE  TokenInv'
<1>0. toApp \in Seq(Msgs) /\ bridge'.token = bridge.token
  BY DEF Handle, HandleRefused, HandleStart, HandleCancel, HostOnly, ChannelTypeOK
<1>1. KeepsRun
  BY DEF Handle, HandleRefused, HandleStart, HandleCancel, Aborted, KeepsRun, ChannelTypeOK, Hosts
<1>2. /\ Message("refused", k) \in Msgs /\ Message("accepted", k) \in Msgs
      /\ ~Starts(Message("refused", k)) /\ ~Starts(Message("accepted", k))
      /\ Message("refused", k).type # "tool_request" /\ Message("accepted", k).type # "tool_request"
  BY DEF Message, Msgs, Kinds, Starts
<1>3. \/ toApp' = toApp \/ toApp' = toApp \o <<Message("refused", k)>>
      \/ toApp' = toApp \o <<Message("accepted", k)>>
  BY DEF Handle, HandleRefused, HandleStart, HandleCancel, Emit
<1> QED BY <1>0, <1>1, <1>2, <1>3, TokenKept, TokenAppended

LEMMA SessionToken ==
  ASSUME ChannelTypeOK, TokenInv, NEW r \in Runs, Session(r)
  PROVE  TokenInv'
<1> DEFINE a == Message("refused", r)
           b == Message("finished", r)
<1>0. toApp \in Seq(Msgs) BY DEF ChannelTypeOK
<1>1. CASE SessionStarts(r)
  BY <1>1, TokenAnnounced
<1>2. /\ a \in Msgs /\ b \in Msgs /\ ~Starts(a) /\ ~Starts(b)
      /\ a.type # "tool_request" /\ b.type # "tool_request"
  BY DEF Message, Msgs, Kinds, Starts, Ops
<1>3. CASE SessionFails(r)
  <2> DEFINE mid == toApp \o <<a>>
  <2>1. mid \in Seq(Msgs) /\ toApp' = mid \o <<b>>
    BY <1>0, <1>2, <1>3, PipeTypes DEF SessionFails, Emit
  <2>2. bridge' = bridge /\ host'.phase = "idle"
    BY <1>3 DEF SessionFails, HostOnly, EndRun, ChannelTypeOK, Hosts
  <2>3. /\ Len(toApp) \in Nat /\ Len(mid) = Len(toApp) + 1 /\ mid[Len(toApp) + 1] = a
        /\ \A i \in 1 .. Len(toApp) : mid[i] = toApp[i]
    BY <1>0, <1>2, AppendedPlaces
  <2>4. /\ Len(toApp') = Len(mid) + 1 /\ toApp'[Len(mid) + 1] = b
        /\ \A i \in 1 .. Len(mid) : toApp'[i] = mid[i]
    BY <1>2, <2>1, AppendedPlaces
  <2> HIDE DEF mid, a, b
  <2>5. ASSUME NEW i \in 1 .. Len(toApp'), toApp'[i].type = "tool_request"
        PROVE  Covers(toApp', bridge'.token, i, toApp'[i].of[1])
    <3>1. i \in 1 .. Len(toApp) /\ toApp'[i] = toApp[i]
      BY <1>2, <2>3, <2>4, <2>5
    <3>2. Covers(toApp, bridge.token, i, toApp[i].of[1])
      BY <2>5, <3>1 DEF TokenInv, RequestsCovered
    <3>3. i \in 1 .. (Len(toApp) + 1) /\ i \in 1 .. (Len(mid) + 1) BY <2>3, <3>1
    <3>4. Covers(mid, bridge.token, i, toApp[i].of[1])
      BY <1>0, <1>2, <3>2, <3>3, CoversAppended DEF mid
    <3>5. Covers(mid \o <<b>>, bridge.token, i, toApp[i].of[1])
      BY <1>2, <2>1, <3>3, <3>4, CoversAppended
    <3> QED BY <2>1, <2>2, <3>1, <3>5
  <2> QED BY <2>2, <2>5 DEF TokenInv, RequestsCovered, RunCovered
<1>4. CASE RunTimer(r)
  <2>1. KeepsRun BY <1>4 DEF RunTimer, Aborted, KeepsRun, ChannelTypeOK, Hosts
  <2> QED BY <1>4, <2>1, TokenKept DEF RunTimer, HostOnly
<1>5. CASE FinishRun(r)
  <2>1. KeepsRun BY <1>5 DEF FinishRun, EndRun, KeepsRun, ChannelTypeOK, Hosts
  <2> QED BY <1>0, <1>2, <1>5, <2>1, TokenAppended DEF FinishRun, HostOnly, Emit
<1> QED BY <1>1, <1>3, <1>4, <1>5 DEF Session

LEMMA LoginToken ==
  ASSUME ChannelTypeOK, TokenInv, NEW l \in Logins, Login(l)
  PROVE  TokenInv'
<1>1. KeepsRun /\ bridge'.token = bridge.token
  BY DEF Login, LoginTimer, FinishLogin, HostOnly, KeepsRun, ChannelTypeOK, Hosts
<1>2. CASE LoginTimer(l)
  BY <1>1, <1>2, TokenKept DEF LoginTimer
<1>3. CASE FinishLogin(l)
  <2> DEFINE b == Message("finished", l)
  <2>1. b \in Msgs /\ ~Starts(b) /\ b.type # "tool_request"
    BY DEF Message, Msgs, Kinds, Starts, Ops
  <2>2. toApp \in Seq(Msgs) /\ toApp' = toApp \o <<b>>
    BY <1>3 DEF FinishLogin, Emit, ChannelTypeOK
  <2> QED BY <1>1, <2>1, <2>2, TokenAppended
<1> QED BY <1>2, <1>3 DEF Login

LEMMA ToolToken ==
  ASSUME ChannelTypeOK, TokenInv, NEW c \in Calls, Tool(c) \/ Dispatch(c)
  PROVE  TokenInv'
<1>0. toApp \in Seq(Msgs) BY DEF ChannelTypeOK
<1>1. CASE ToolReplies(c) \/ ToolReplyFails(c)
  BY <1>1, TokenKept DEF ToolReplies, ToolReplyFails, KeepsRun
<1>2. CASE PumpToolRequest(c)
  <2>1. ~Starts(Head(toApp)) BY <1>2 DEF PumpToolRequest, Received, Message, Starts
  <2> QED BY <1>0, <1>2, <2>1, TokenRead DEF PumpToolRequest, Received
<1>3. CASE HandleToolResult(c)
  <2>1. KeepsRun BY <1>3 DEF HandleToolResult, KeepsRun, ChannelTypeOK, Hosts
  <2> QED BY <1>3, <2>1, TokenKept DEF HandleToolResult, HostOnly
<1>4. CASE Dispatch(c)
  <2> DEFINE b == Message("tool_request", c)
  <2>1. b \in Msgs /\ ~Starts(b) /\ b.of = c
    BY DEF Message, Msgs, Kinds, Starts
  <2>2. host.phase = "prompting" /\ host.run = c[1] /\ bridge' = bridge
    BY <1>4 DEF Dispatch, HostOnly
  <2>3. KeepsRun BY <1>4 DEF Dispatch, Aborted, KeepsRun, ChannelTypeOK, Hosts
  <2>4. toApp' = toApp \/ toApp' = toApp \o <<b>> BY <1>4 DEF Dispatch, Emit
  <2> QED BY <1>0, <2>1, <2>2, <2>3, <2>4, TokenKept, TokenAppended
<1> QED BY <1>1, <1>2, <1>3, <1>4 DEF Tool

LEMMA NextToken == Typed /\ TokenInv /\ [Next]_vars => TokenInv'
<1> SUFFICES ASSUME Typed, TokenInv, [Next]_vars PROVE TokenInv' OBVIOUS
<1>0. ChannelTypeOK BY DEF Typed
<1>1. CASE HostDies
  BY <1>1 DEF HostDies, IdleHost, TokenInv, RequestsCovered, RunCovered
<1>2. CASE UNCHANGED vars
  BY <1>2, TokenKept DEF vars, KeepsRun
<1> QED BY <1>0, <1>1, <1>2, ApplicationToken, PumpToken, HandleToken, SessionToken, LoginToken,
           ToolToken DEF Next

(* A tool is always executed under the token of its own run, however many  *)
(* run_started and tool requests are in the pipe when the pump reads it,   *)
(* after any refusals, cancellations, timeouts and late tool results.      *)
THEOREM TokenAlwaysOwn == Spec => []TokenOfOwnRun
<1>1. Init => TokenInv BY InitToken
<1>2. Typed /\ TokenInv /\ [Next]_vars => TokenInv' BY NextToken
<1>3. Typed /\ TokenInv => TokenOfOwnRun
  <2> SUFFICES ASSUME Typed, TokenInv, toApp # <<>>, Head(toApp).type = "tool_request"
               PROVE  bridge.token = Head(toApp).of[1]
    BY DEF TokenOfOwnRun
  <2>1. toApp \in Seq(Msgs) BY DEF Typed, ChannelTypeOK
  <2>2. Len(toApp) \in Nat /\ Len(toApp) > 0 /\ Head(toApp) = toApp[1] BY <2>1, TailPlaces
  <2>3. Covers(toApp, bridge.token, 1, toApp[1].of[1])
    BY <2>2 DEF TokenInv, RequestsCovered
  <2> QED BY <2>2, <2>3 DEF Covers
<1> QED BY <1>1, <1>2, <1>3, AlwaysTyped, PTL DEF Spec

-----------------------------------------------------------------------------
(* What is in a pipe: a message added is there, the messages before it     *)
(* stay, and reading takes away no other message than the first.           *)
LEMMA InAppended ==
  ASSUME NEW p \in Seq(Msgs), NEW x \in Msgs, NEW m
  PROVE  /\ In(p \o <<x>>, m) <=> In(p, m) \/ m = x
         /\ In(Append(p, x), m) <=> In(p, m) \/ m = x
<1> DEFINE q == p \o <<x>>
<1>1. /\ Len(p) \in Nat /\ Len(q) = Len(p) + 1 /\ q[Len(p) + 1] = x
      /\ \A i \in 1 .. Len(p) : q[i] = p[i]
  BY AppendedPlaces
<1>2. Append(p, x) = q OBVIOUS
<1>3. DOMAIN p = 1 .. Len(p) /\ DOMAIN q = 1 .. Len(q) OBVIOUS
<1> HIDE DEF q
<1>4. In(p, m) => In(q, m)
  <2> SUFFICES ASSUME NEW i \in 1 .. Len(p), p[i] = m PROVE In(q, m)
    BY <1>3 DEF In
  <2>1. i \in DOMAIN q /\ q[i] = m BY <1>1, <1>3
  <2> QED BY <2>1 DEF In
<1>5. m = x => In(q, m)
  <2>1. Len(p) + 1 \in DOMAIN q BY <1>1, <1>3
  <2> QED BY <1>1, <2>1 DEF In
<1>6. In(q, m) => In(p, m) \/ m = x
  <2> SUFFICES ASSUME NEW i \in 1 .. Len(q), q[i] = m, m # x PROVE In(p, m)
    BY <1>3 DEF In
  <2>1. i \in DOMAIN p /\ p[i] = m BY <1>1, <1>3
  <2> QED BY <2>1 DEF In
<1> QED BY <1>2, <1>4, <1>5, <1>6 DEF q

LEMMA InAppendedTwo ==
  ASSUME NEW p \in Seq(Msgs), NEW x \in Msgs, NEW y \in Msgs, NEW m
  PROVE  In(p \o <<x, y>>, m) <=> In(p, m) \/ m = x \/ m = y
<1>1. p \o <<x>> \in Seq(Msgs) BY PipeTypes
<1>2. p \o <<x, y>> = (p \o <<x>>) \o <<y>>
  <2>1. <<x>> \in Seq(Msgs) /\ <<y>> \in Seq(Msgs) OBVIOUS
  <2> DEFINE u == <<x>> \o <<y>>
             v == <<x, y>>
  <2>2. u \in Seq(Msgs) /\ Len(u) = 2 /\ u[1] = x /\ u[2] = y
    BY <2>1, ConcatProperties
  <2>3. v \in Seq(Msgs) /\ Len(v) = 2 /\ v[1] = x /\ v[2] = y OBVIOUS
  <2>4. u = v
    <3> HIDE DEF u, v
    <3>1. \A i \in 1 .. Len(u) : u[i] = v[i] BY <2>2, <2>3
    <3> QED BY <2>2, <2>3, <3>1, SeqEqual
  <2>5. (p \o <<x>>) \o <<y>> = p \o u BY <2>1, ConcatAssociative
  <2> HIDE DEF u
  <2> QED BY <2>4, <2>5
<1> QED BY <1>1, <1>2, InAppended

LEMMA InTail ==
  ASSUME NEW p \in Seq(Msgs), p # <<>>, NEW m
  PROVE  /\ In(Tail(p), m) => In(p, m)
         /\ In(p, m) => In(Tail(p), m) \/ m = Head(p)
<1> DEFINE q == Tail(p)
<1>1. /\ Len(p) \in Nat /\ Len(p) > 0 /\ Head(p) = p[1]
      /\ Len(q) = Len(p) - 1 /\ \A i \in 1 .. (Len(p) - 1) : q[i] = p[i + 1]
  BY TailPlaces
<1>2. DOMAIN p = 1 .. Len(p) /\ DOMAIN q = 1 .. Len(q) OBVIOUS
<1> HIDE DEF q
<1>3. In(q, m) => In(p, m)
  <2> SUFFICES ASSUME NEW i \in 1 .. Len(q), q[i] = m PROVE In(p, m)
    BY <1>2 DEF In
  <2>1. i + 1 \in DOMAIN p /\ p[i + 1] = m BY <1>1, <1>2
  <2> QED BY <2>1 DEF In
<1>4. In(p, m) => In(q, m) \/ m = Head(p)
  <2> SUFFICES ASSUME NEW i \in 1 .. Len(p), p[i] = m, m # Head(p) PROVE In(q, m)
    BY <1>2 DEF In
  <2>1. i - 1 \in DOMAIN q /\ q[i - 1] = p[i] BY <1>1, <1>2
  <2> QED BY <2>1 DEF In
<1> QED BY <1>3, <1>4 DEF q

(* Two messages are one only if kind and operation agree.                  *)
LEMMA SameMessage ==
  ASSUME NEW t, NEW k, NEW u, NEW j
  PROVE  Message(t, k) = Message(u, j) <=> t = u /\ k = j
BY DEF Message

(* How a step changes a pipe: by messages at the end, by the first one     *)
(* read.                                                                   *)
Adds(pipe, now, S) == /\ \A m : In(pipe, m) => In(now, m)
                      /\ \A m : In(now, m) => In(pipe, m) \/ m \in S
                      /\ \A m \in S : In(now, m)
Reads(pipe, now, x) == /\ \A m : In(now, m) => In(pipe, m)
                       /\ \A m : In(pipe, m) => In(now, m) \/ m = x

LEMMA PipeAdds ==
  ASSUME NEW p \in Seq(Msgs), NEW x \in Msgs, NEW y \in Msgs
  PROVE  /\ Adds(p, Append(p, x), {x}) /\ Adds(p, p \o <<x>>, {x})
         /\ Adds(p, p \o <<x, y>>, {x, y})
BY InAppended, InAppendedTwo DEF Adds

LEMMA PipeReads ==
  ASSUME NEW p \in Seq(Msgs), p # <<>>
  PROVE  Reads(p, Tail(p), Head(p))
BY InTail DEF Reads

-----------------------------------------------------------------------------
(* Nobody waits in vain.  Beside the property itself: what was accepted is *)
(* still being worked on or has ended, and nothing is known of an          *)
(* operation nobody asked for.                                             *)
Served(k) == k \in {host.run, host.auth} \/ In(toApp, Message("finished", k))
AcceptedIsServed ==
  \A k \in Ops : task[k] \in Waiting /\ In(toApp, Message("accepted", k)) => Served(k)
IdleIsUnknown ==
  \A k \in Ops : task[k] = "idle" =>
    /\ k \notin {host.run, host.auth}
    /\ ~In(toHost, Message("start", k)) /\ ~In(toApp, Message("accepted", k))
AnswerInv == WaitIsAnswered /\ AcceptedIsServed /\ IdleIsUnknown

(* What a step may make of one operation.                                  *)
Fate(j) ==
  \/ task'[j] = task[j] \/ task'[j] \in {"stopping", "over"}
  \/ task[j] = "sent" /\ task'[j] = "running" /\ Served(j)'
  \/ task[j] = "idle" /\ task'[j] = "sent" /\ In(toHost', Message("start", j))

LEMMA AnswerKept ==
  ASSUME AnswerInv, IdleIsUnknown', \A j \in Ops : Fate(j),
         \A j \in Ops : task'[j] \in Waiting /\ Served(j) => Served(j)',
         \A j \in Ops : In(toHost, Message("start", j)) =>
            In(toHost', Message("start", j)) \/ In(toApp', Message("refused", j)) \/ Served(j)',
         \A j \in Ops : task'[j] = "sent" /\ In(toApp, Message("refused", j)) =>
            In(toApp', Message("refused", j)),
         \A j \in Ops : In(toApp', Message("accepted", j)) =>
            In(toApp, Message("accepted", j)) \/ Served(j)'
  PROVE  AnswerInv'
<1>1. ASSUME NEW j \in Ops, task'[j] \in Waiting
      PROVE  \/ Served(j)'
             \/ /\ task'[j] = "sent"
                /\ In(toHost', Message("start", j)) \/ In(toApp', Message("refused", j))
  <2>1. CASE task'[j] = task[j]
    <3>1. \/ Served(j)
          \/ /\ task[j] = "sent"
             /\ In(toHost, Message("start", j)) \/ In(toApp, Message("refused", j))
      BY <1>1, <2>1 DEF AnswerInv, WaitIsAnswered, Served
    <3> QED BY <1>1, <2>1, <3>1
  <2>2. CASE task'[j] # task[j]
    BY <1>1, <2>2 DEF Fate, Waiting
  <2> QED BY <2>1, <2>2
<1>2. WaitIsAnswered'
  BY <1>1 DEF WaitIsAnswered, Served
<1>3. ASSUME NEW j \in Ops, task'[j] \in Waiting, In(toApp', Message("accepted", j))
      PROVE  Served(j)'
  <2>1. CASE In(toApp, Message("accepted", j))
    <3>1. task[j] # "idle"
      BY <2>1 DEF AnswerInv, IdleIsUnknown
    <3>2. task[j] \in Waiting \/ Served(j)'
      BY <1>3, <3>1 DEF Fate, Waiting
    <3>3. task[j] \in Waiting => Served(j)
      BY <2>1 DEF AnswerInv, AcceptedIsServed
    <3> QED BY <1>3, <3>2, <3>3
  <2> QED BY <1>3, <2>1
<1>4. AcceptedIsServed'
  BY <1>3 DEF AcceptedIsServed, Served
<1> QED BY <1>2, <1>4 DEF AnswerInv

(* One lemma per group of actions.                                         *)
LEMMA InitAnswer == Init => AnswerInv
<1> SUFFICES ASSUME Init PROVE AnswerInv OBVIOUS
<1>1. \A m : ~In(toHost, m) /\ ~In(toApp, m) BY DEF Init, In
<1>2. \A k \in Ops : task[k] = "idle" /\ k \notin {host.run, host.auth}
  BY OpsAssumption DEF Init, IdleHost, Ops
<1> QED BY <1>1, <1>2 DEF AnswerInv, WaitIsAnswered, AcceptedIsServed, IdleIsUnknown, Waiting

LEMMA ApplicationAnswer ==
  ASSUME ChannelTypeOK, AnswerInv, NEW k \in Ops, Application(k)
  PROVE  AnswerInv'
<1>0. toHost \in Seq(Msgs) /\ toApp' = toApp /\ host' = host
  BY DEF ChannelTypeOK, Application, Ask, UserCancels, CancelReadsTarget, TimesOut, StopRun
<1>1. \A j \in Ops : Served(j) => Served(j)'
  BY <1>0 DEF Served
<1>2. CASE Ask(k)
  <2>1. Message("start", k) \in Msgs BY DEF Message, Msgs, Kinds
  <2>2. Adds(toHost, toHost', {Message("start", k)})
    BY <1>0, <1>2, <2>1, PipeAdds DEF Ask, Write
  <2>3. task[k] = "idle" /\ task'[k] = "sent" /\ \A j \in Ops \ {k} : task'[j] = task[j]
    BY <1>2 DEF Ask, ChannelTypeOK
  <2>4. \A j \in Ops \ {k} : In(toHost', Message("start", j)) => In(toHost, Message("start", j))
    BY <2>2, SameMessage DEF Adds
  <2>5. IdleIsUnknown'
    BY <1>0, <2>3, <2>4 DEF AnswerInv, IdleIsUnknown
  <2>6. \A j \in Ops : Fate(j)
    BY <2>2, <2>3 DEF Fate, Adds
  <2> QED BY <1>0, <1>1, <2>2, <2>5, <2>6, AnswerKept DEF Adds
<1>3. CASE UserCancels(k) \/ CancelReadsTarget(k) \/ TimesOut(k) \/ (k \in Runs /\ StopRun(k))
  <2>1. \A j \in Ops : task'[j] = task[j] \/ task'[j] \in {"stopping", "over"}
    BY <1>3 DEF UserCancels, CancelReadsTarget, TimesOut, StopRun, ChannelTypeOK
  <2>2. \/ toHost' = toHost
        \/ Target \in Ops /\ toHost' = Append(toHost, Message("cancel", Target))
    <3>1. Target \in Ops \cup {NoOp} BY DEF ChannelTypeOK, Bridges, Target, Ops
    <3> QED BY <1>3, <3>1 DEF UserCancels, CancelReadsTarget, TimesOut, StopRun, SendCancel, Write
  <2>3. \A j : In(toHost', Message("start", j)) <=> In(toHost, Message("start", j))
    <3>1. CASE toHost' = toHost BY <3>1
    <3>2. CASE Target \in Ops /\ toHost' = Append(toHost, Message("cancel", Target))
      <4>1. Message("cancel", Target) \in Msgs BY <3>2 DEF Message, Msgs, Kinds
      <4>2. \A j : Message("start", j) # Message("cancel", Target) BY SameMessage
      <4> QED BY <1>0, <3>2, <4>1, <4>2, InAppended
    <3> QED BY <2>2, <3>1, <3>2
  <2>4. IdleIsUnknown'
    BY <1>0, <2>1, <2>3 DEF AnswerInv, IdleIsUnknown
  <2> QED BY <1>0, <1>1, <2>1, <2>3, <2>4, AnswerKept DEF Fate
<1> QED BY <1>2, <1>3 DEF Application

LEMMA PumpAnswer ==
  ASSUME ChannelTypeOK, AnswerInv, NEW k \in Ops, Pump(k)
  PROVE  AnswerInv'
<1>0. /\ toApp \in Seq(Msgs) /\ toApp # <<>> /\ toApp' = Tail(toApp)
      /\ host' = host /\ toHost' = toHost
  BY DEF Pump, PumpAccepted, PumpRefused, PumpFinished, PumpRunStarted, Received, ChannelTypeOK
<1>1. Reads(toApp, toApp', Head(toApp)) BY <1>0, PipeReads
<1>2. \A m : m # Head(toApp) => (In(toApp', m) <=> In(toApp, m))
  BY <1>1 DEF Reads
<1>3. CASE PumpAccepted(k)
  <2>1. Head(toApp) = Message("accepted", k) BY <1>3 DEF PumpAccepted, Received
  <2>2. \A j \in Ops : Served(j) => Served(j)'
    BY <1>0, <1>2, <2>1, SameMessage DEF Served
  <2>3. In(toApp, Message("accepted", k)) BY <1>0, <2>1 DEF In
  <2>4. task[k] = "sent" => Served(k)'
    BY <2>2, <2>3 DEF AnswerInv, AcceptedIsServed, Waiting
  <2>5. \A j \in Ops : task'[j] = task[j] \/ (j = k /\ task[j] = "sent" /\ task'[j] = "running")
    BY <1>3 DEF PumpAccepted, Answered, ChannelTypeOK
  <2>6. \A j \in Ops : Fate(j) BY <2>4, <2>5 DEF Fate
  <2>7. IdleIsUnknown'
    BY <1>0, <1>1, <2>5 DEF AnswerInv, IdleIsUnknown, Reads
  <2>8. \A j : In(toApp, Message("refused", j)) => In(toApp', Message("refused", j))
    BY <1>2, <2>1, SameMessage
  <2> QED BY <1>0, <1>1, <2>2, <2>6, <2>7, <2>8, AnswerKept DEF Reads
<1>4. CASE PumpRefused(k)
  <2>1. Head(toApp) = Message("refused", k) BY <1>4 DEF PumpRefused, Received
  <2>2. \A j \in Ops : Served(j) => Served(j)'
    BY <1>0, <1>2, <2>1, SameMessage DEF Served
  <2>3. /\ \A j \in Ops : task'[j] = task[j] \/ task'[j] = "over"
        /\ task'[k] # "sent"
    BY <1>4 DEF PumpRefused, Answered, ChannelTypeOK
  <2>4. IdleIsUnknown'
    BY <1>0, <1>1, <2>3 DEF AnswerInv, IdleIsUnknown, Reads
  <2>5. \A j \in Ops : j # k /\ In(toApp, Message("refused", j)) => In(toApp', Message("refused", j))
    BY <1>2, <2>1, SameMessage
  <2> QED BY <1>0, <1>1, <2>2, <2>3, <2>4, <2>5, AnswerKept DEF Reads, Fate
<1>5. CASE PumpFinished(k)
  <2>1. Head(toApp) = Message("finished", k) BY <1>5 DEF PumpFinished, Received
  <2>2. \A j \in Ops : j # k /\ Served(j) => Served(j)'
    BY <1>0, <1>2, <2>1, SameMessage DEF Served
  <2>3. /\ \A j \in Ops : task'[j] = task[j] \/ task'[j] = "over"
        /\ task'[k] \notin Waiting
    BY <1>5 DEF PumpFinished, ChannelTypeOK, Waiting
  <2>4. IdleIsUnknown'
    BY <1>0, <1>1, <2>3 DEF AnswerInv, IdleIsUnknown, Reads
  <2>5. \A j : In(toApp, Message("refused", j)) => In(toApp', Message("refused", j))
    BY <1>2, <2>1, SameMessage
  <2> QED BY <1>0, <1>1, <2>2, <2>3, <2>4, <2>5, AnswerKept DEF Reads, Fate
<1>6. CASE k \in Runs /\ PumpRunStarted(k)
  <2>1. Head(toApp) = Message("run_started", k) /\ task' = task
    BY <1>6 DEF PumpRunStarted, Received
  <2>2. \A j \in Ops : Served(j) => Served(j)'
    BY <1>0, <1>2, <2>1, SameMessage DEF Served
  <2>3. IdleIsUnknown'
    BY <1>0, <1>1, <2>1 DEF AnswerInv, IdleIsUnknown, Reads
  <2>4. \A j : In(toApp, Message("refused", j)) => In(toApp', Message("refused", j))
    BY <1>2, <2>1, SameMessage
  <2> QED BY <1>0, <1>1, <2>1, <2>2, <2>3, <2>4, AnswerKept DEF Reads, Fate
<1> QED BY <1>3, <1>4, <1>5, <1>6 DEF Pump

LEMMA HandleAnswer ==
  ASSUME Typed, AnswerInv, NEW k \in Ops, Handle(k)
  PROVE  AnswerInv'
<1>0. /\ toHost \in Seq(Msgs) /\ toHost # <<>> /\ toHost' = Tail(toHost) /\ toApp \in Seq(Msgs)
      /\ task' = task
  BY DEF Handle, HandleRefused, HandleStart, HandleCancel, Command, HostOnly, Typed, ChannelTypeOK
<1>1. Reads(toHost, toHost', Head(toHost)) BY <1>0, PipeReads
<1>2. \A t \in Kinds : Adds(toApp, toApp \o <<Message(t, k)>>, {Message(t, k)})
  BY <1>0, MessageType, PipeAdds
<1>3. CASE HandleRefused(k)
  <2>1. Head(toHost) = Message("start", k) /\ host' = host
    BY <1>3 DEF HandleRefused, Command
  <2>2. Adds(toApp, toApp', {Message("refused", k)})
    BY <1>2, <1>3 DEF HandleRefused, Emit, Kinds
  <2>3. \A j \in Ops : Served(j) => Served(j)'
    BY <2>1, <2>2 DEF Served, Adds
  <2>4. \A j : In(toApp', Message("accepted", j)) => In(toApp, Message("accepted", j))
    BY <2>2, SameMessage DEF Adds
  <2>5. IdleIsUnknown'
    BY <1>0, <1>1, <2>1, <2>4 DEF AnswerInv, IdleIsUnknown, Reads
  <2>6. \A j \in Ops : In(toHost, Message("start", j)) =>
           In(toHost', Message("start", j)) \/ In(toApp', Message("refused", j))
    BY <1>1, <2>1, <2>2, SameMessage DEF Reads, Adds
  <2> QED BY <1>0, <2>2, <2>3, <2>4, <2>5, <2>6, AnswerKept DEF Adds, Fate
<1>4. CASE HandleStart(k)
  <2>1. Head(toHost) = Message("start", k) BY <1>4 DEF HandleStart, Command
  <2>2. In(toHost, Message("start", k)) BY <1>0, <2>1 DEF In
  <2>3. task[k] # "idle" BY <2>2 DEF AnswerInv, IdleIsUnknown
  <2>4. /\ host.run = NoOp /\ host.auth = NoOp /\ k \in {host'.run, host'.auth}
        /\ {host'.run, host'.auth} \subseteq {NoOp, k}
    BY <1>4 DEF HandleStart, Free, Typed, ChannelTypeOK, Hosts
  <2>5. NoOp \notin Ops BY OpsAssumption DEF Ops
  <2>6. toApp' = toApp \/ Adds(toApp, toApp', {Message("accepted", k)})
    BY <1>2, <1>4 DEF HandleStart, Emit, Kinds
  <2>7. \A j \in Ops : Served(j) => Served(j)'
    BY <2>4, <2>5, <2>6 DEF Served, Adds
  <2>8. \A j : j # k /\ In(toApp', Message("accepted", j)) => In(toApp, Message("accepted", j))
    BY <2>6, SameMessage DEF Adds
  <2>9. IdleIsUnknown'
    BY <1>0, <1>1, <2>3, <2>4, <2>5, <2>8 DEF AnswerInv, IdleIsUnknown, Reads
  <2>10. \A j \in Ops : j # k /\ In(toHost, Message("start", j)) => In(toHost', Message("start", j))
    BY <1>1, <2>1, SameMessage DEF Reads
  <2>11. Served(k)' BY <2>4 DEF Served
  <2> QED BY <1>0, <2>6, <2>7, <2>8, <2>9, <2>10, <2>11, AnswerKept DEF Adds, Fate
<1>5. CASE HandleCancel(k)
  <2>1. Head(toHost) = Message("cancel", k) /\ toApp' = toApp
    BY <1>5 DEF HandleCancel, Command
  <2>2. host'.run = host.run /\ host'.auth = host.auth
    BY <1>5 DEF HandleCancel, Aborted, Typed, ChannelTypeOK, Hosts
  <2>3. \A j \in Ops : Served(j) => Served(j)'
    BY <2>1, <2>2 DEF Served
  <2>4. IdleIsUnknown'
    BY <1>0, <1>1, <2>1, <2>2 DEF AnswerInv, IdleIsUnknown, Reads
  <2>5. \A j : In(toHost, Message("start", j)) => In(toHost', Message("start", j))
    BY <1>1, <2>1, SameMessage DEF Reads
  <2> QED BY <1>0, <2>1, <2>3, <2>4, <2>5, AnswerKept DEF Fate
<1> QED BY <1>3, <1>4, <1>5 DEF Handle

(* A step of the host that takes no command and ends an operation only     *)
(* with finished.                                                          *)
LEMMA HostStepAnswer ==
  ASSUME AnswerInv, task' = task, toHost' = toHost,
         \A m : In(toApp, m) => In(toApp', m),
         \A j \in Ops : j \in {host'.run, host'.auth} => j \in {host.run, host.auth},
         \A j \in Ops : j \in {host.run, host.auth} =>
            j \in {host'.run, host'.auth} \/ In(toApp', Message("finished", j)),
         \A j \in Ops : In(toApp', Message("accepted", j)) =>
            In(toApp, Message("accepted", j)) \/ j \in {host.run, host.auth}
  PROVE  AnswerInv'
<1>1. \A j \in Ops : Served(j) => Served(j)' BY DEF Served
<1>2. IdleIsUnknown' BY DEF AnswerInv, IdleIsUnknown
<1>3. \A j \in Ops : Fate(j) BY DEF Fate
<1>4. \A j \in Ops : In(toApp', Message("accepted", j)) =>
         In(toApp, Message("accepted", j)) \/ Served(j)'
  BY DEF Served
<1> QED BY <1>1, <1>2, <1>3, <1>4, AnswerKept

LEMMA SessionAnswer ==
  ASSUME Typed, AnswerInv, NEW r \in Runs, Session(r)
  PROVE  AnswerInv'
<1>0. /\ toApp \in Seq(Msgs) /\ host \in Hosts /\ r \in Ops /\ NoOp \notin Ops
      /\ host.run = r /\ task' = task /\ toHost' = toHost
  BY OpsAssumption DEF Session, SessionStarts, SessionFails, RunTimer, FinishRun, HostOnly,
                       Typed, ChannelTypeOK, Ops
<1>1. \A t, u \in Kinds :
         /\ Adds(toApp, toApp \o <<Message(t, r)>>, {Message(t, r)})
         /\ Adds(toApp, toApp \o <<Message(t, r), Message(u, r)>>, {Message(t, r), Message(u, r)})
  BY <1>0, MessageType, PipeAdds
<1>2. CASE SessionStarts(r)
  <2>1. host'.run = host.run /\ host'.auth = host.auth
    BY <1>0, <1>2 DEF SessionStarts, Hosts
  <2>2. Adds(toApp, toApp', {Message("accepted", r), Message("run_started", r)})
    BY <1>1, <1>2 DEF SessionStarts, Emit, Kinds
  <2>3. \A j : In(toApp', Message("accepted", j)) => In(toApp, Message("accepted", j)) \/ j = r
    BY <2>2, SameMessage DEF Adds
  <2> QED BY <1>0, <2>1, <2>2, <2>3, HostStepAnswer DEF Adds
<1>3. CASE SessionFails(r) \/ FinishRun(r)
  <2>1. host'.run = NoOp /\ host'.auth = host.auth
    BY <1>0, <1>3 DEF SessionFails, FinishRun, EndRun, Hosts
  <2>2. \/ Adds(toApp, toApp', {Message("refused", r), Message("finished", r)})
        \/ Adds(toApp, toApp', {Message("finished", r)})
    BY <1>1, <1>3 DEF SessionFails, FinishRun, Emit, Kinds
  <2>3. \A j : In(toApp', Message("accepted", j)) => In(toApp, Message("accepted", j))
    BY <2>2, SameMessage DEF Adds
  <2>4. In(toApp', Message("finished", r)) /\ \A m : In(toApp, m) => In(toApp', m)
    BY <2>2 DEF Adds
  <2> QED BY <1>0, <2>1, <2>3, <2>4, HostStepAnswer
<1>4. CASE RunTimer(r)
  <2>1. host'.run = host.run /\ host'.auth = host.auth /\ toApp' = toApp
    BY <1>0, <1>4 DEF RunTimer, Aborted, Hosts
  <2> QED BY <1>0, <2>1, HostStepAnswer
<1> QED BY <1>2, <1>3, <1>4 DEF Session

LEMMA LoginAnswer ==
  ASSUME Typed, AnswerInv, NEW l \in Logins, Login(l)
  PROVE  AnswerInv'
<1>0. /\ toApp \in Seq(Msgs) /\ host \in Hosts /\ l \in Ops /\ NoOp \notin Ops
      /\ host.auth = l /\ task' = task /\ toHost' = toHost
  BY OpsAssumption DEF Login, LoginTimer, FinishLogin, HostOnly, Typed, ChannelTypeOK, Ops
<1>1. CASE LoginTimer(l)
  <2>1. host'.run = host.run /\ host'.auth = host.auth /\ toApp' = toApp
    BY <1>0, <1>1 DEF LoginTimer, Hosts
  <2> QED BY <1>0, <2>1, HostStepAnswer
<1>2. CASE FinishLogin(l)
  <2>1. host'.run = host.run /\ host'.auth = NoOp
    BY <1>0, <1>2 DEF FinishLogin, Hosts
  <2>2. Message("finished", l) \in Msgs BY <1>0, MessageType DEF Kinds
  <2>3. Adds(toApp, toApp', {Message("finished", l)})
    BY <1>0, <1>2, <2>2, PipeAdds DEF FinishLogin, Emit
  <2>4. \A j : In(toApp', Message("accepted", j)) => In(toApp, Message("accepted", j))
    BY <2>3, SameMessage DEF Adds
  <2> QED BY <1>0, <2>1, <2>3, <2>4, HostStepAnswer DEF Adds
<1> QED BY <1>1, <1>2 DEF Login

(* Tool calls touch no message an operation waits for.                     *)
LEMMA ToolAnswer ==
  ASSUME Typed, AnswerInv, NEW c \in Calls, Tool(c) \/ Dispatch(c)
  PROVE  AnswerInv'
<1>0. /\ toApp \in Seq(Msgs) /\ toHost \in Seq(Msgs) /\ host \in Hosts
      /\ host'.run = host.run /\ host'.auth = host.auth /\ task' = task
  BY DEF Tool, ToolReplies, ToolReplyFails, PumpToolRequest, HandleToolResult, Dispatch, Aborted,
         HostOnly, Typed, ChannelTypeOK, Hosts
<1>1. /\ Message("result", c) \in Msgs /\ Message("tool_request", c) \in Msgs
  BY MessageType DEF Kinds
<1>2. \/ toHost' = toHost \/ Adds(toHost, toHost', {Message("result", c)})
      \/ Reads(toHost, toHost', Message("result", c))
  BY <1>0, <1>1, PipeAdds, PipeReads
     DEF Tool, ToolReplies, ToolReplyFails, PumpToolRequest, HandleToolResult, Dispatch, Write, Command
<1>3. \/ toApp' = toApp \/ Adds(toApp, toApp', {Message("tool_request", c)})
      \/ Reads(toApp, toApp', Message("tool_request", c))
  BY <1>0, <1>1, PipeAdds, PipeReads
     DEF Tool, ToolReplies, ToolReplyFails, PumpToolRequest, HandleToolResult, Dispatch, Emit, Received
<1>4. \A j : In(toHost', Message("start", j)) <=> In(toHost, Message("start", j))
  BY <1>2, SameMessage DEF Adds, Reads
<1>5. \A t \in {"accepted", "refused", "finished"} : \A j :
         In(toApp', Message(t, j)) <=> In(toApp, Message(t, j))
  BY <1>3, SameMessage DEF Adds, Reads
<1>6. \A j \in Ops : Served(j) => Served(j)' BY <1>0, <1>5 DEF Served
<1>7. IdleIsUnknown' BY <1>0, <1>4, <1>5 DEF AnswerInv, IdleIsUnknown
<1>8. \A j \in Ops : Fate(j) BY <1>0 DEF Fate
<1> QED BY <1>4, <1>5, <1>6, <1>7, <1>8, AnswerKept

LEMMA NextAnswer == Typed /\ AnswerInv /\ [Next]_vars => AnswerInv'
<1> SUFFICES ASSUME Typed, AnswerInv, [Next]_vars PROVE AnswerInv' OBVIOUS
<1>0. ChannelTypeOK BY DEF Typed
<1>1. CASE HostDies
  <2>1. \A m : ~In(toHost', m) /\ ~In(toApp', m) BY <1>1 DEF HostDies, In
  <2>2. /\ host'.run = NoOp /\ host'.auth = NoOp /\ NoOp \notin Ops
        /\ \A k \in Ops : task'[k] \notin Waiting
    BY <1>1, OpsAssumption DEF HostDies, IdleHost, Waiting, Ops
  <2> QED BY <2>1, <2>2 DEF AnswerInv, WaitIsAnswered, AcceptedIsServed, IdleIsUnknown
<1>2. CASE UNCHANGED vars
  BY <1>2 DEF vars, AnswerInv, WaitIsAnswered, AcceptedIsServed, IdleIsUnknown, Served
<1> QED BY <1>0, <1>1, <1>2, ApplicationAnswer, PumpAnswer, HandleAnswer, SessionAnswer, LoginAnswer,
           ToolAnswer DEF Next

(* Every wait of the application has an answer on its way, for any number  *)
(* of runs and logins, any pipe and any order of cancellations, timeouts   *)
(* and refusals: what RequestAsync and DiscoveryService wait for is being  *)
(* worked on by the host, or has been said and not yet read.               *)
THEOREM WaitsAlwaysAnswered == Spec => []WaitIsAnswered
<1>1. Init => AnswerInv BY InitAnswer
<1>2. Typed /\ AnswerInv /\ [Next]_vars => AnswerInv' BY NextAnswer
<1>3. AnswerInv => WaitIsAnswered BY DEF AnswerInv
<1> QED BY <1>1, <1>2, <1>3, AlwaysTyped, PTL DEF Spec

-----------------------------------------------------------------------------
(* Pending calls.  The property is inductive with the types: whoever takes *)
(* the message that carries a call leaves it with the tool, the tool       *)
(* writes the result, and the result takes it out of the pending calls.    *)
Carried(c) ==
  \/ In(toApp, Message("tool_request", c)) \/ tool[c] \in {"executing", "unknown", "lost"}
  \/ In(toHost, Message("result", c))

LEMMA PendingKept ==
  ASSUME PendingCallIsSomewhere, host'.pending \subseteq host.pending,
         host'.pending # {} => host'.run = host.run /\ host'.aborted = host.aborted,
         \A c \in host'.pending : Carried(c) => Carried(c)'
  PROVE  PendingCallIsSomewhere'
BY DEF PendingCallIsSomewhere, Carried

(* Steps that leave the tools alone and take no message about them.        *)
LEMMA CarriedKept ==
  ASSUME tool' = tool, NEW c,
         In(toApp, Message("tool_request", c)) => In(toApp', Message("tool_request", c)),
         In(toHost, Message("result", c)) => In(toHost', Message("result", c)),
         Carried(c)
  PROVE  Carried(c)'
BY DEF Carried

LEMMA OperationPending ==
  ASSUME Typed, PendingCallIsSomewhere, NEW k \in Ops, Application(k) \/ Pump(k) \/ Handle(k)
  PROVE  PendingCallIsSomewhere'
<1>0. /\ toApp \in Seq(Msgs) /\ toHost \in Seq(Msgs) /\ host \in Hosts /\ tool' = tool
  BY DEF Application, Ask, UserCancels, CancelReadsTarget, TimesOut, StopRun,
         Pump, PumpAccepted, PumpRefused, PumpFinished, PumpRunStarted,
         Handle, HandleRefused, HandleStart, HandleCancel, HostOnly, Typed, ChannelTypeOK
<1>1. \A t \in Kinds : \A c : t # "tool_request" /\ Head(toApp) = Message(t, k)
         => Head(toApp) # Message("tool_request", c)
  BY SameMessage
<1>2. \A t \in Kinds : \A c : t # "result" /\ Head(toHost) = Message(t, k)
         => Head(toHost) # Message("result", c)
  BY SameMessage
<1>3. CASE Application(k)
  <2>1. toApp' = toApp /\ host' = host
    BY <1>3 DEF Application, Ask, UserCancels, CancelReadsTarget, TimesOut, StopRun
  <2>2. Target \in Ops \cup {NoOp} BY DEF Typed, ChannelTypeOK, Bridges, Target, Ops
  <2>3. toHost' = toHost \/ \E S : Adds(toHost, toHost', S)
    <3>1. \A j \in Ops : Message("start", j) \in Msgs /\ Message("cancel", j) \in Msgs
      BY MessageType DEF Kinds
    <3>2. toHost' = toHost \/ \E x \in Msgs : toHost' = Append(toHost, x)
      BY <1>3, <2>2, <3>1 DEF Application, Ask, UserCancels, CancelReadsTarget, TimesOut,
                              StopRun, SendCancel, Write
    <3>3. ASSUME NEW x \in Msgs, toHost' = Append(toHost, x)
          PROVE  Adds(toHost, toHost', {x})
      BY <1>0, <3>3, PipeAdds
    <3> QED BY <3>2, <3>3
  <2>4. \A m : In(toHost, m) => In(toHost', m) BY <2>3 DEF Adds
  <2> QED BY <1>0, <2>1, <2>4, CarriedKept, PendingKept
<1>4. CASE Pump(k)
  <2>1. /\ toApp # <<>> /\ toApp' = Tail(toApp) /\ host' = host /\ toHost' = toHost
        /\ \E t \in {"accepted", "refused", "finished", "run_started"} : Head(toApp) = Message(t, k)
    BY <1>4 DEF Pump, PumpAccepted, PumpRefused, PumpFinished, PumpRunStarted, Received
  <2>2. \A c : Message("tool_request", c) # Head(toApp) BY <1>1, <2>1 DEF Kinds
  <2>3. \A c : In(toApp, Message("tool_request", c)) => In(toApp', Message("tool_request", c))
    BY <1>0, <2>1, <2>2, InTail
  <2> QED BY <1>0, <2>1, <2>3, CarriedKept, PendingKept
<1>5. CASE Handle(k)
  <2>1. /\ toHost # <<>> /\ toHost' = Tail(toHost)
        /\ \E t \in {"start", "cancel"} : Head(toHost) = Message(t, k)
    BY <1>5 DEF Handle, HandleRefused, HandleStart, HandleCancel, Command
  <2>2. \A c : Message("result", c) # Head(toHost) BY <1>2, <2>1 DEF Kinds
  <2>3. \A c : In(toHost, Message("result", c)) => In(toHost', Message("result", c))
    BY <1>0, <2>1, <2>2, InTail
  <2>4. toApp' = toApp \/ \E S : Adds(toApp, toApp', S)
    <3>1. \A t \in Kinds : Adds(toApp, toApp \o <<Message(t, k)>>, {Message(t, k)})
      BY <1>0, MessageType, PipeAdds
    <3> QED BY <1>5, <3>1 DEF Handle, HandleRefused, HandleStart, HandleCancel, Emit, Kinds
  <2>5. \A m : In(toApp, m) => In(toApp', m) BY <2>4 DEF Adds
  <2>6. /\ host'.pending \subseteq host.pending
        /\ host'.pending # {} => host'.run = host.run /\ host'.aborted = host.aborted
    <3>1. CASE HandleRefused(k) BY <3>1 DEF HandleRefused
    <3>2. CASE HandleStart(k)
      <4>1. host.run = NoOp /\ host'.pending = host.pending
        BY <1>0, <3>2 DEF HandleStart, Free, Hosts
      <4>2. host.pending = {}
        <5> SUFFICES ASSUME NEW c \in host.pending PROVE FALSE OBVIOUS
        <5>1. c \in Calls /\ c[1] = NoOp BY <1>0, <4>1 DEF PendingCallIsSomewhere, Hosts
        <5> QED BY <5>1, OpsAssumption DEF Calls
      <4> QED BY <4>1, <4>2
    <3>3. CASE HandleCancel(k) BY <1>0, <3>3 DEF HandleCancel, Aborted, Hosts
    <3> QED BY <1>5, <3>1, <3>2, <3>3 DEF Handle
  <2> QED BY <1>0, <2>3, <2>5, <2>6, CarriedKept, PendingKept
<1> QED BY <1>3, <1>4, <1>5

LEMMA HostPending ==
  ASSUME Typed, PendingCallIsSomewhere,
         (\E r \in Runs : Session(r)) \/ (\E l \in Logins : Login(l))
  PROVE  PendingCallIsSomewhere'
<1>0. /\ toApp \in Seq(Msgs) /\ host \in Hosts /\ tool' = tool /\ toHost' = toHost
  BY DEF Session, SessionStarts, SessionFails, RunTimer, FinishRun, Login, LoginTimer, FinishLogin,
         HostOnly, Typed, ChannelTypeOK
<1>1. toApp' = toApp \/ \E S : Adds(toApp, toApp', S)
  <2>1. \A t, u \in Kinds, k \in Ops :
           /\ Adds(toApp, toApp \o <<Message(t, k)>>, {Message(t, k)})
           /\ Adds(toApp, toApp \o <<Message(t, k), Message(u, k)>>, {Message(t, k), Message(u, k)})
    BY <1>0, MessageType, PipeAdds
  <2>2. ASSUME NEW r \in Runs, SessionStarts(r) PROVE \E S : Adds(toApp, toApp', S)
    <3>1. Adds(toApp, toApp', {Message("accepted", r), Message("run_started", r)})
      BY <2>1, <2>2 DEF SessionStarts, Emit, Kinds, Ops
    <3> QED BY <3>1
  <2>3. ASSUME NEW r \in Runs, SessionFails(r) PROVE \E S : Adds(toApp, toApp', S)
    <3>1. Adds(toApp, toApp', {Message("refused", r), Message("finished", r)})
      BY <2>1, <2>3 DEF SessionFails, Emit, Kinds, Ops
    <3> QED BY <3>1
  <2>4. ASSUME NEW r \in Runs, FinishRun(r) PROVE \E S : Adds(toApp, toApp', S)
    BY <2>1, <2>4 DEF FinishRun, Emit, Kinds, Ops
  <2>5. ASSUME NEW l \in Logins, FinishLogin(l) PROVE \E S : Adds(toApp, toApp', S)
    BY <2>1, <2>5 DEF FinishLogin, Emit, Kinds, Ops
  <2> QED BY <2>2, <2>3, <2>4, <2>5 DEF Session, RunTimer, Login, LoginTimer
<1>2. \A m : In(toApp, m) => In(toApp', m) BY <1>1 DEF Adds
<1>3. /\ host'.pending \subseteq host.pending
      /\ host'.pending # {} => host'.run = host.run /\ host'.aborted = host.aborted
  BY <1>0 DEF Session, SessionStarts, SessionFails, RunTimer, FinishRun, Login, LoginTimer,
              FinishLogin, EndRun, Aborted, Hosts
<1> QED BY <1>0, <1>2, <1>3, CarriedKept, PendingKept

LEMMA ToolPending ==
  ASSUME Typed, PendingCallIsSomewhere, NEW c \in Calls, Tool(c) \/ Dispatch(c)
  PROVE  PendingCallIsSomewhere'
<1>0. /\ toApp \in Seq(Msgs) /\ toHost \in Seq(Msgs) /\ host \in Hosts
      /\ tool \in [Calls -> {"none", "executing", "unknown", "lost"}]
      /\ host.pending \subseteq Calls
  BY DEF Typed, ChannelTypeOK, Hosts
<1>1. Message("result", c) \in Msgs /\ Message("tool_request", c) \in Msgs
  BY MessageType DEF Kinds
<1>2. CASE ToolReplies(c)
  <2>1. \A m : In(toHost', m) <=> In(toHost, m) \/ m = Message("result", c)
    BY <1>0, <1>1, <1>2, InAppended DEF ToolReplies, Write
  <2>2. toApp' = toApp /\ host' = host /\ \A d \in Calls \ {c} : tool'[d] = tool[d]
    BY <1>0, <1>2 DEF ToolReplies
  <2>3. \A d \in host'.pending : Carried(d) => Carried(d)'
    BY <1>0, <2>1, <2>2 DEF Carried
  <2> QED BY <2>2, <2>3, PendingKept
<1>3. CASE ToolReplyFails(c)
  <2>1. /\ toApp' = toApp /\ host' = host /\ toHost' = toHost
        /\ tool'[c] = "lost" /\ \A d \in Calls \ {c} : tool'[d] = tool[d]
    BY <1>0, <1>3 DEF ToolReplyFails
  <2>2. \A d \in host'.pending : Carried(d) => Carried(d)'
    BY <1>0, <2>1 DEF Carried
  <2> QED BY <2>1, <2>2, PendingKept
<1>4. CASE PumpToolRequest(c)
  <2>1. /\ toApp # <<>> /\ toApp' = Tail(toApp) /\ Head(toApp) = Message("tool_request", c)
        /\ host' = host /\ toHost' = toHost
    BY <1>4 DEF PumpToolRequest, Received
  <2>2. tool'[c] \in {"executing", "unknown"} /\ \A d \in Calls \ {c} : tool'[d] = tool[d]
    BY <1>0, <1>4 DEF PumpToolRequest
  <2>3. \A d : d # c /\ In(toApp, Message("tool_request", d)) => In(toApp', Message("tool_request", d))
    BY <1>0, <2>1, InTail, SameMessage
  <2>4. \A d \in host'.pending : Carried(d) => Carried(d)'
    BY <1>0, <2>1, <2>2, <2>3 DEF Carried
  <2> QED BY <2>1, <2>4, PendingKept
<1>5. CASE HandleToolResult(c)
  <2>1. /\ toHost # <<>> /\ toHost' = Tail(toHost) /\ Head(toHost) = Message("result", c)
        /\ toApp' = toApp /\ tool' = tool
    BY <1>5 DEF HandleToolResult, Command, HostOnly
  <2>2. /\ host'.run = host.run /\ host'.aborted = host.aborted
        /\ host'.pending = IF c[1] = host.run THEN host.pending \ {c} ELSE host.pending
    BY <1>0, <1>5 DEF HandleToolResult, Hosts
  <2>3. host'.pending \subseteq host.pending /\ c \notin host'.pending
    BY <2>2 DEF PendingCallIsSomewhere
  <2>4. \A d : d # c /\ In(toHost, Message("result", d)) => In(toHost', Message("result", d))
    BY <1>0, <2>1, InTail, SameMessage
  <2>5. \A d \in host'.pending : Carried(d) => Carried(d)'
    BY <2>1, <2>3, <2>4 DEF Carried
  <2> QED BY <2>2, <2>3, <2>5, PendingKept
<1>6. CASE Dispatch(c)
  <2>0. /\ host.run = c[1] /\ ~host.aborted /\ toHost' = toHost /\ tool' = tool
    BY <1>6 DEF Dispatch, HostOnly
  <2>1. \/ host'.pending = {}
        \/ /\ host'.pending = host.pending \cup {c}
           /\ host'.run = host.run /\ host'.aborted = host.aborted
           /\ toApp' = toApp \o <<Message("tool_request", c)>>
    BY <1>0, <1>6 DEF Dispatch, Aborted, Emit, Hosts
  <2>2. CASE host'.pending = {}
    BY <2>2 DEF PendingCallIsSomewhere
  <2>3. CASE host'.pending # {}
    <3>0. Adds(toApp, toApp \o <<Message("tool_request", c)>>, {Message("tool_request", c)})
      BY <1>0, <1>1, PipeAdds
    <3>1. \A m : In(toApp', m) <=> In(toApp, m) \/ m = Message("tool_request", c)
      BY <2>1, <2>3, <3>0 DEF Adds
    <3>2. ASSUME NEW d \in host'.pending
          PROVE  d[1] = host'.run /\ ~host'.aborted /\ Carried(d)'
      <4>1. CASE d = c BY <2>0, <2>1, <2>3, <3>1, <4>1 DEF Carried
      <4>2. CASE d # c
        <5>1. d \in host.pending /\ d[1] = host.run /\ Carried(d)
          BY <2>1, <2>3, <4>2 DEF PendingCallIsSomewhere, Carried
        <5> QED BY <2>0, <2>1, <2>3, <3>1, <5>1 DEF Carried
      <4> QED BY <4>1, <4>2
    <3> QED BY <3>2 DEF PendingCallIsSomewhere, Carried
  <2> QED BY <2>2, <2>3
<1> QED BY <1>2, <1>3, <1>4, <1>5, <1>6 DEF Tool

LEMMA NextPending == Typed /\ PendingCallIsSomewhere /\ [Next]_vars => PendingCallIsSomewhere'
<1> SUFFICES ASSUME Typed, PendingCallIsSomewhere, [Next]_vars PROVE PendingCallIsSomewhere'
  OBVIOUS
<1>1. CASE HostDies
  BY <1>1 DEF HostDies, IdleHost, PendingCallIsSomewhere
<1>2. CASE UNCHANGED vars
  BY <1>2 DEF vars, PendingCallIsSomewhere
<1> QED BY <1>1, <1>2, OperationPending, HostPending, ToolPending DEF Next

(* No tool call gets lost: one the host waits for is of its active run,    *)
(* which is not aborted, and it is in a pipe or with the tool, for any     *)
(* number of calls and however the results of earlier runs arrive late.    *)
THEOREM PendingCallsCarried == Spec => []PendingCallIsSomewhere
<1>1. Init => PendingCallIsSomewhere BY DEF Init, IdleHost, PendingCallIsSomewhere
<1>2. Typed /\ PendingCallIsSomewhere /\ [Next]_vars => PendingCallIsSomewhere' BY NextPending
<1> QED BY <1>1, <1>2, AlwaysTyped, PTL DEF Spec
=============================================================================
