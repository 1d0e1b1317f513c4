------------------------- MODULE DurableLaneProofs -------------------------
(***************************************************************************)
(* Proofs about the durable lane, for any operations, inbox items, bounds  *)
(* and queue modes.  Everything rests on one inductive invariant: what the *)
(* Drive of this process believes of the durable state it steps over, what *)
(* a closed gate has already stopped, how far a batch of tool calls is,    *)
(* and which ids cannot be in the branch yet.                              *)
(***************************************************************************)
EXTENDS DurableLane, SequenceLemmas

(***************************************************************************)
(* The inductive invariant.                                                *)
(***************************************************************************)
(* Leaves whose reserved id is still to become an entry.                   *)
Awaits == {"assistant.effect_pending", "summary.ready", "summary.effect_pending",
           "summary.retry_wait"}

(* The open operation has an id where it needs one, a branch to start      *)
(* from, and no result.                                                    *)
LeafInv ==
  op # Nothing =>
    /\ op.at \in Awaits \cup {"tools"} => op.reserved >= 1
    /\ op.at = "starting" => branch # <<>>
    /\ results[op.id] = "none"

(* The steps of one attempt at a summary.                                  *)
Summarizing == {"summarizing", "asking", "answering", "answered"}

(* What the Drive's position says of the durable leaf.  Only an effect's   *)
(* own procedure leaves that leaf.                                         *)
Position(d, o) ==
  /\ d.step # "settled" => o # Nothing /\ o.id = d.id
  /\ d.step \in {"requesting", "streaming"} => o.at = "assistant.effect_pending"
  /\ d.step \in Summarizing => o.at = "summary.effect_pending"
  /\ d.step = "timer" => o.at \in Waits
  /\ d.step = "finishing" => o.at \in {"checkpoint", "summary.deciding"}
  /\ d.step = "tools" => o.at \in {"tools", "checkpoint"}

(* A job belongs to a call of the open batch that has no outcome.          *)
JobsAt(d, o) ==
  /\ d.step # "tools" => d.jobs = NoJobs
  /\ \A k \in Positions : d.jobs[k] # "idle" =>
       /\ o.at = "tools" /\ k \in DOMAIN o.calls
       /\ \/ o.calls[k] = "effect_pending"
          \/ o.calls[k] = "planned" /\ d.jobs[k] = "refused"

DriveInv == drive # Nothing => Position(drive, op) /\ JobsAt(drive, op)

(* A request for an abort that found the Drive closed its gate.  A gate    *)
(* that is open although the operation is, or will be, cancelled was       *)
(* opened by a Drive that came later: it has cleared nothing.              *)
GateInv ==
  /\ abort # Nothing /\ abort.drive =>
       drive # Nothing /\ drive.id = abort.id /\ drive.gate = "aborting"
  /\ drive # Nothing /\ drive.gate = "open" =>
       \/ /\ abort # Nothing => abort.drive
          /\ op # Nothing /\ op.id = drive.id => ~op.cancelled
       \/ /\ drive.step \notin {"requesting", "asking"}
          /\ \A k \in Positions : drive.jobs[k] # "cleared"

(* The completed calls of a batch are a prefix.                            *)
Completed(c) == \A k \in Calls : op.calls[k] = "completed" <=> k <= c

BatchInv ==
  /\ op # Nothing /\ op.at = "tools" => \E c \in 0 .. Len(op.calls) : Completed(c)
  /\ drive # Nothing /\ drive.place # {} =>
       /\ drive.step = "tools" /\ op.at = "tools"
       /\ \E c, b \in 0 .. Len(op.calls) :
            /\ c < b /\ Completed(c) /\ drive.place = c + 1 .. b
            /\ \A k \in drive.place : op.calls[k] = "outcome_ready"

(* How often an effect can have been started.                              *)
JobOf(k) == IF drive = Nothing THEN "idle" ELSE drive.jobs[k]

RunsInv ==
  /\ EffectsAreNotRepeated
  /\ \A n \in 1 .. MaxMinted, k \in Positions : runs[<<n, k>>] > 0 =>
       n <= minted /\ (op # Nothing /\ op.reserved = n => op.at \notin Awaits)
  /\ op # Nothing /\ op.at = "tools" =>
       \A k \in Calls :
         /\ op.calls[k] = "planned" => runs[<<op.reserved, k>>] = 0
         /\ op.calls[k] = "effect_pending" =>
              IF k \in Safe
              THEN JobOf(k) # "running" => runs[<<op.reserved, k>>] <= crashes
              ELSE JobOf(k) = "cleared" => runs[<<op.reserved, k>>] = 0

(* Ids that are in the branch: minted, not awaited, and a result only of a *)
(* completed call.                                                         *)
Uses(n) == {Reply(n), Summary(n), HookMessage(n)} \cup {Result(n, k) : k \in Positions}

IdsInv ==
  /\ \A n \in 1 .. MaxMinted : ToSet(branch) \cap Uses(n) # {} =>
       n <= minted /\ (op # Nothing /\ op.reserved = n => op.at \notin Awaits)
  /\ op # Nothing /\ op.at = "tools" =>
       \A k \in Calls : Id(k) \in ToSet(branch) => op.calls[k] = "completed"
  /\ \A r \in Runs : Prompt(r) \in ToSet(branch) =>
       results[r] # "none" \/ (op # Nothing /\ op.id = r)

AskedInv == op # Nothing /\ op.at = "tools" => asked[op.reserved] = Len(op.calls)

Control == LaneTypeOK /\ LeafInv /\ DriveInv /\ GateInv /\ BatchInv

-----------------------------------------------------------------------------
(* Ids, records and filters.                                               *)
LEMMA MadeIds ==
  /\ \A r \in Runs : Prompt(r) \in Made
  /\ \A n \in 1 .. MaxMinted : Reply(n) \in Made /\ Summary(n) \in Made /\ HookMessage(n) \in Made
  /\ \A n \in 1 .. MaxMinted, k \in Positions : Result(n, k) \in Made
  /\ Made \subseteq Entries /\ Items \subseteq Entries
  /\ \A x \in Made : x \notin Items
BY IdsAssumption DEF Made, Entries

LEMMA IdsDiffer ==
  /\ \A n, m : Reply(n) # Summary(m) /\ Reply(n) # HookMessage(m) /\ Summary(n) # HookMessage(m)
  /\ \A n, m : Reply(n) # Prompt(m) /\ Summary(n) # Prompt(m) /\ HookMessage(n) # Prompt(m)
  /\ \A n, m, k : /\ Result(n, k) # Reply(m) /\ Result(n, k) # Summary(m)
                  /\ Result(n, k) # HookMessage(m) /\ Result(n, k) # Prompt(m)
  /\ \A n, m : Reply(n) = Reply(m) => n = m
  /\ \A n, m : Summary(n) = Summary(m) => n = m
  /\ \A n, m : HookMessage(n) = HookMessage(m) => n = m
  /\ \A n, m : Prompt(n) = Prompt(m) => n = m
  /\ \A n, m, k, l : Result(n, k) = Result(m, l) => n = m /\ k = l
BY DEF Reply, Result, Summary, HookMessage, Prompt

LEMMA UsesDiffer ==
  /\ \A n \in 1 .. MaxMinted : Uses(n) \subseteq Made
  /\ \A n, m \in 1 .. MaxMinted : n # m => Uses(n) \cap Uses(m) = {}
  /\ \A n \in 1 .. MaxMinted : \A r : Prompt(r) \notin Uses(n)
  /\ \A n \in 1 .. MaxMinted : Uses(n) \cap Items = {}
<1>1. \A n \in 1 .. MaxMinted : Uses(n) \subseteq Made BY MadeIds DEF Uses
<1>2. ASSUME NEW n \in 1 .. MaxMinted, NEW m \in 1 .. MaxMinted, n # m,
             NEW x \in Uses(n), x \in Uses(m)
      PROVE  FALSE
  BY <1>2, IdsDiffer DEF Uses
<1>3. \A n \in 1 .. MaxMinted : \A r : Prompt(r) \notin Uses(n) BY IdsDiffer DEF Uses
<1> QED BY <1>1, <1>2, <1>3, MadeIds

LEMMA TriggerIsPlaced ==
  ASSUME NEW place \in Seq(Items), Triggers(place)
  PROVE  Trigger(place) \in ToSet(place)
<1> DEFINE I == {i \in 1 .. Len(place) : Projects(place[i])}
<1>1. I \subseteq 0 .. Len(place) /\ I # {} /\ Len(place) \in Nat
  BY ElementsAre DEF Triggers
<1>2. PICK m \in I : \A y \in I : y <= m BY <1>1, GreatestBelow
<1>3. \A y \in I : m >= y BY <1>2, <1>1
<1>4. \E x \in I : \A y \in I : x >= y BY <1>3
<1>5. Max(I) \in I BY <1>4 DEF Max
<1>6. Trigger(place) = place[Max(I)] BY <1>1 DEF Trigger, SelectLastInSeq
<1> HIDE DEF I
<1>7. Max(I) \in 1 .. Len(place) BY <1>5 DEF I
<1> QED BY <1>6, <1>7, ElementsAre

-----------------------------------------------------------------------------
(* The records.                                                            *)
Steps == {"dispatch", "finishing", "requesting", "streaming", "timer", "waiting",
          "summarizing", "asking", "answering", "answered", "tools", "settled"}
JobStates == {"idle", "cleared", "running", "refused"}
CallStates == {"planned", "effect_pending", "outcome_ready", "completed"}

Stepped(d, step) == [d EXCEPT !.step = step, !.plan = <<>>, !.jobs = NoJobs,
                              !.parallel = FALSE]

LEMMA DriveFields ==
  ASSUME NEW d \in Drives
  PROVE  /\ d.id \in Runs /\ d.gate \in {"open", "aborting"} /\ d.step \in Steps
         /\ d.jobs \in [Positions -> JobStates] /\ d.place \subseteq Positions
BY DEF Drives, Steps, JobStates

LEMMA SteppedFields ==
  ASSUME NEW d \in Drives, NEW step \in Steps
  PROVE  /\ Stepped(d, step) \in Drives /\ Stepped(d, step).id = d.id
         /\ Stepped(d, step).gate = d.gate /\ Stepped(d, step).step = step
         /\ Stepped(d, step).jobs = NoJobs /\ Stepped(d, step).place = d.place
<1> DEFINE p == <<>>
           e == [d EXCEPT !.step = step, !.plan = p, !.jobs = NoJobs, !.parallel = FALSE]
<1>1. NoJobs \in [Positions -> JobStates] BY DEF NoJobs, JobStates
<1>2. p \in Seq(Items) OBVIOUS
<1> HIDE DEF p
<1>3. e \in Drives BY <1>1, <1>2 DEF Drives, Steps, JobStates
<1>4. /\ e.id = d.id /\ e.gate = d.gate /\ e.step = step
      /\ e.jobs = NoJobs /\ e.place = d.place
  BY <1>1, <1>2 DEF Drives
<1>5. Stepped(d, step) = e BY DEF Stepped, p
<1> QED BY <1>3, <1>4, <1>5

LEMMA OperationFields ==
  ASSUME NEW o \in Operations
  PROVE  /\ o.id \in Runs /\ o.at \in Leaves /\ o.cancelled \in BOOLEAN /\ o.may \in BOOLEAN
         /\ o.used \in BOOLEAN /\ o.attempt \in 1 .. MaxAttempts /\ o.attempt \in Nat
         /\ o.reserved \in 0 .. MaxMinted /\ o.reserved \in Nat
         /\ o.reason \in {"threshold", "overflow"}
         /\ o.calls \in Seq(CallStates) /\ Len(o.calls) \in Nat
         /\ DOMAIN o.calls = 1 .. Len(o.calls)
         /\ \A k \in DOMAIN o.calls : o.calls[k] \in CallStates
<1>1. /\ o.id \in Runs /\ o.at \in Leaves /\ o.cancelled \in BOOLEAN /\ o.may \in BOOLEAN
      /\ o.used \in BOOLEAN /\ o.attempt \in 1 .. MaxAttempts
      /\ o.reserved \in 0 .. MaxMinted
      /\ o.reason \in {"threshold", "overflow"} /\ o.calls \in Seq(CallStates)
  BY DEF Operations, CallStates
<1>2. /\ Len(o.calls) \in Nat /\ DOMAIN o.calls = 1 .. Len(o.calls)
      /\ \A k \in DOMAIN o.calls : o.calls[k] \in CallStates
  BY <1>1
<1>3. o.attempt \in Nat /\ o.reserved \in Nat BY <1>1, BoundsAssumption
<1> QED BY <1>1, <1>2, <1>3

LEMMA StartedFields ==
  ASSUME NEW r \in Runs
  PROVE  /\ Started(r) \in Operations /\ Started(r).id = r /\ Started(r).at = "starting"
         /\ Started(r).cancelled = FALSE /\ Started(r).reserved = 0 /\ Started(r).calls = <<>>
<1>1. 1 \in 1 .. MaxAttempts /\ 0 \in 0 .. MaxMinted BY BoundsAssumption
<1> QED BY <1>1 DEF Started, Operations, Leaves

(* What the types say of an open operation and of a live Drive.            *)
LEMMA Types ==
  ASSUME LaneTypeOK
  PROVE  /\ branch \in Seq(Entries) /\ inbox \in Seq(Items) /\ Len(branch) \in Nat
         /\ minted \in 0 .. MaxMinted /\ minted \in Nat /\ MaxMinted \in Nat
         /\ op # Nothing => op \in Operations /\ op.reserved <= minted
                            /\ (op.calls = <<>> <=> op.at # "tools")
         /\ drive # Nothing => drive \in Drives
         /\ abort # Nothing => abort \in Aborts
         /\ op \in Operations => op # Nothing
         /\ drive \in Drives => drive # Nothing
         /\ abort \in Aborts => abort # Nothing
BY BoundsAssumption, IdsAssumption DEF LaneTypeOK

LEMMA TypesNext ==
  ASSUME LaneTypeOK'
  PROVE  /\ branch' \in Seq(Entries) /\ inbox' \in Seq(Items) /\ Len(branch') \in Nat
         /\ minted' \in 0 .. MaxMinted /\ minted' \in Nat
         /\ op' # Nothing => op' \in Operations /\ op'.reserved <= minted'
                             /\ (op'.calls = <<>> <=> op'.at # "tools")
         /\ drive' # Nothing => drive' \in Drives
         /\ abort' # Nothing => abort' \in Aborts
BY BoundsAssumption, IdsAssumption DEF LaneTypeOK

(* A Drive that is not settled steps over the open operation; outside the  *)
(* tools procedure it has no jobs and no placement.                        *)
LEMMA Acting ==
  ASSUME Control, NEW step, Standing(step), step # "settled"
  PROVE  /\ drive \in Drives /\ drive # Nothing /\ drive.step = step
         /\ op \in Operations /\ op # Nothing /\ op.id = drive.id
         /\ step # "tools" => drive.jobs = NoJobs /\ drive.place = {}
         /\ Position(drive, op) /\ JobsAt(drive, op)
         /\ step \in {"requesting", "streaming"} => op.at = "assistant.effect_pending"
         /\ step \in Summarizing => op.at = "summary.effect_pending"
         /\ step = "timer" => op.at \in Waits
         /\ step = "finishing" => op.at \in {"checkpoint", "summary.deciding"}
BY Types DEF Control, Standing, DriveInv, Position, Summarizing, JobsAt, BatchInv

-----------------------------------------------------------------------------
(* How the branch grows: the items P leave the inbox and become entries    *)
(* together with new entries M.                                            *)
Grows(P, M) ==
  /\ \E new \in Seq(Entries) :
       /\ Extends(branch', branch, new) /\ ToSet(new) = P \cup M
       /\ IsInjective(inbox) /\ M \cap ToSet(inbox) = {} => IsInjective(new)
  /\ P \subseteq ToSet(inbox)
  /\ inbox' \in Seq(Items) /\ ToSet(inbox') = ToSet(inbox) \ P
  /\ IsInjective(inbox) => IsInjective(inbox')
  /\ pending' = pending \ P

LEMMA Grown ==
  ASSUME LaneTypeOK, NEW P, NEW M, Grows(P, M)
  PROVE  /\ branch' \in Seq(Entries) /\ ToSet(branch') = ToSet(branch) \cup P \cup M
         /\ inbox' \in Seq(Items) /\ P \subseteq Items /\ M \subseteq Entries
         /\ pending' \subseteq Entries /\ Len(branch') \in Nat /\ Len(branch') >= Len(branch)
         /\ \A j \in 1 .. Len(branch) : branch'[j] = branch[j]
<1>1. PICK new \in Seq(Entries) : branch' = branch \o new /\ ToSet(new) = P \cup M
  BY DEF Grows, Extends
<1>2. branch \in Seq(Entries) /\ inbox \in Seq(Items) /\ pending \subseteq Entries
  BY DEF LaneTypeOK
<1>3. ToSet(new) \subseteq Entries /\ ToSet(inbox) \subseteq Items BY <1>2, ElementsAre
<1>4. Len(branch) \in Nat /\ Len(new) \in Nat BY <1>2
<1>5. /\ branch' \in Seq(Entries) /\ ToSet(branch') = ToSet(branch) \cup ToSet(new)
      /\ Len(branch') = Len(branch) + Len(new)
      /\ \A j \in 1 .. Len(branch) : branch'[j] = branch[j]
  BY <1>1, <1>2, ConcatElements
<1> QED BY <1>1, <1>2, <1>3, <1>4, <1>5 DEF Grows

LEMMA GrowsNot ==
  ASSUME LaneTypeOK, UNCHANGED <<branch, inbox, pending>>
  PROVE  Grows({}, {})
<1> DEFINE new == <<>>
<1>1. branch \in Seq(Entries) /\ inbox \in Seq(Items) BY DEF LaneTypeOK
<1>2. branch \o <<>> = branch BY <1>1, ConcatEmptySeq
<1>3. /\ new \in Seq(Entries) /\ Extends(branch', branch, new)
      /\ ToSet(new) = {} \cup {} /\ IsInjective(new)
  BY <1>2, NoElements DEF Extends
<1> HIDE DEF new
<1> QED BY <1>1, <1>3 DEF Grows

(* What is appended is one made entry, before or behind the items.         *)
LEMMA GrowsWith ==
  ASSUME LaneTypeOK, NEW S, NEW more, NEW M, M \subseteq Entries,
         more \in Seq(Entries) /\ ToSet(more) = M /\ IsInjective(more),
         \/ branch' = (branch \o Keep(inbox, S)) \o more
         \/ branch' = (branch \o more) \o Keep(inbox, S),
         inbox' = Keep(inbox, ToSet(inbox) \ ToSet(Keep(inbox, S))),
         pending' = pending \ ToSet(Keep(inbox, S))
  PROVE  Grows(ToSet(Keep(inbox, S)), M)
<1> DEFINE place == Keep(inbox, S)
<1>1. branch \in Seq(Entries) /\ inbox \in Seq(Items) BY DEF LaneTypeOK
<1>2. /\ place \in Seq(Items) /\ ToSet(place) \subseteq ToSet(inbox)
      /\ IsInjective(inbox) => IsInjective(place)
  BY <1>1, KeepFacts
<1>3. place \in Seq(Entries) BY <1>2, MadeIds
<1>4. /\ Keep(inbox, ToSet(inbox) \ ToSet(place)) \in Seq(Items)
      /\ ToSet(Keep(inbox, ToSet(inbox) \ ToSet(place))) = ToSet(inbox) \ ToSet(place)
      /\ IsInjective(inbox) => IsInjective(Keep(inbox, ToSet(inbox) \ ToSet(place)))
  BY <1>1, KeepFacts
<1> HIDE DEF place
<1>5. \E new \in Seq(Entries) :
        /\ Extends(branch', branch, new) /\ ToSet(new) = ToSet(place) \cup M
        /\ IsInjective(inbox) /\ M \cap ToSet(inbox) = {} => IsInjective(new)
  <2>1. CASE branch' = (branch \o place) \o more
    <3>1. ExtendsTwice(branch', branch, place, more) BY <2>1 DEF ExtendsTwice
    <3>2. PICK new \in Seq(Entries) :
            /\ Extends(branch', branch, new) /\ ToSet(new) = ToSet(place) \cup M
            /\ IsInjective(place) /\ ToSet(place) \cap M = {} => IsInjective(new)
      BY <1>1, <1>3, <3>1, ConcatThree
    <3> QED BY <1>2, <3>2
  <2>2. CASE branch' = (branch \o more) \o place
    <3>1. ExtendsTwice(branch', branch, more, place) BY <2>2 DEF ExtendsTwice
    <3>2. PICK new \in Seq(Entries) :
            /\ Extends(branch', branch, new) /\ ToSet(new) = M \cup ToSet(place)
            /\ IsInjective(place) /\ M \cap ToSet(place) = {} => IsInjective(new)
      BY <1>1, <1>3, <3>1, ConcatThree
    <3> QED BY <1>2, <3>2
  <2> QED BY <2>1, <2>2 DEF place
<1> QED BY <1>2, <1>4, <1>5 DEF Grows, place

LEMMA PlaceGrows ==
  ASSUME LaneTypeOK, NEW S, Place(Keep(inbox, S), <<>>)
  PROVE  Grows(ToSet(Keep(inbox, S)), {})
<1>1. <<>> \in Seq(Entries) /\ ToSet(<<>>) = {} /\ IsInjective(<<>>) BY NoElements
<1> DEFINE more == <<>>
<1>2. more \in Seq(Entries) /\ ToSet(more) = {} /\ IsInjective(more) BY <1>1
<1>3. /\ branch' = (branch \o Keep(inbox, S)) \o more
      /\ inbox' = Keep(inbox, ToSet(inbox) \ ToSet(Keep(inbox, S)))
      /\ pending' = pending \ ToSet(Keep(inbox, S))
  BY DEF Place
<1> HIDE DEF more
<1> QED BY <1>2, <1>3, GrowsWith

LEMMA PlaceGrowsWith ==
  ASSUME LaneTypeOK, NEW S, NEW x \in Entries, Place(Keep(inbox, S), <<x>>)
  PROVE  Grows(ToSet(Keep(inbox, S)), {x})
<1> DEFINE more == <<x>>
<1>2. more \in Seq(Entries) /\ ToSet(more) = {x} /\ IsInjective(more) BY OneElement
<1>3. /\ branch' = (branch \o Keep(inbox, S)) \o more
      /\ inbox' = Keep(inbox, ToSet(inbox) \ ToSet(Keep(inbox, S)))
      /\ pending' = pending \ ToSet(Keep(inbox, S))
  BY DEF Place
<1> HIDE DEF more
<1> QED BY <1>2, <1>3, GrowsWith

LEMMA EntryGrows ==
  ASSUME LaneTypeOK, NEW x \in Entries, branch' = branch \o <<x>> \/ branch' = Append(branch, x),
         UNCHANGED <<inbox, pending>>
  PROVE  Grows({}, {x})
<1> DEFINE new == <<x>>
<1>1. branch \in Seq(Entries) /\ inbox \in Seq(Items) BY DEF LaneTypeOK
<1>2. new \in Seq(Entries) /\ ToSet(new) = {x} /\ IsInjective(new) BY OneElement
<1>3. Extends(branch', branch, new) BY <1>1, AppendIsConcat DEF Extends
<1> HIDE DEF new
<1> QED BY <1>1, <1>2, <1>3 DEF Grows

-----------------------------------------------------------------------------
(* Three ways for the Drive to go on outside a batch of tools.  Fresh      *)
(* entries are minted by the step or were awaited before it.               *)
Fresh(M) ==
  M = {} \/ \E n \in 1 .. MaxMinted :
    /\ M \in {{Reply(n)}, {Summary(n)}, {HookMessage(n)}}
    /\ n > minted \/ (op.at \in Awaits /\ n = op.reserved)
    /\ n <= minted' /\ (op' # Nothing /\ op'.reserved = n => op'.at \notin Awaits)
    /\ M = {Reply(n)} => asked'[n] = 0

Adds ==
  /\ \E P, M : Grows(P, M) /\ Fresh(M)
  /\ minted' \in 0 .. MaxMinted /\ minted' >= minted
  /\ \/ asked' = asked
     \/ /\ op.at = "assistant.effect_pending"
        /\ asked' = [asked EXCEPT ![op.reserved] = 0]
  /\ UNCHANGED <<taken, runs, abort, crashes>>

(* The same operation at another leaf.                                     *)
Turned ==
  /\ op' \in Operations /\ op'.id = op.id /\ op'.cancelled = op.cancelled
  /\ op'.at \notin {"tools", "starting"} /\ op'.calls = <<>>
  /\ op'.at \in Waits => op'.attempt > 1
  /\ op'.trigger \in ToSet(branch')
  /\ op'.reserved <= minted'
  /\ op'.at \in Awaits => \/ op.at \in Awaits /\ op'.reserved = op.reserved
                          \/ op'.reserved = minted + 1 /\ minted' = minted + 1

Moves ==
  \/ drive' = drive /\ drive.step = "dispatch"
  \/ \E step \in Steps \ {"tools", "asking", "answering"} :
       /\ drive' = Stepped(drive, step) /\ Position(drive', op')
       /\ step = "requesting" => Running("dispatch")
       /\ step = "streaming" => drive.step # "requesting"

Outside == op \in Operations /\ op.at # "tools" /\ op.calls = <<>>
             /\ drive \in Drives /\ drive.id = op.id /\ drive.step \notin {"tools", "settled"}

Onward ==
  /\ Outside /\ Adds /\ Turned /\ Moves
  /\ \/ owned' = owned /\ op.at # "assistant.effect_pending"
     \/ owned' = [owned EXCEPT !.frames = @ \ {Reply(op.reserved)}]
  /\ UNCHANGED results

Ended ==
  /\ Outside /\ Adds
  /\ \E status \in {"completed", "failed", "aborted"} :
       Settle(status) /\ (status = "aborted" <=> op.cancelled)

Finishes ==
  /\ Outside /\ drive.step = "dispatch" /\ op.at \in {"checkpoint", "summary.deciding"}
  /\ \E place \in Seq(Items) : drive' = [drive EXCEPT !.step = "finishing", !.plan = place]
  /\ UNCHANGED <<durable, runs, abort, crashes>>

LEMMA FreshIs ==
  ASSUME NEW n \in 1 .. MaxMinted, NEW M \in {{Reply(n)}, {Summary(n)}, {HookMessage(n)}},
         n > minted \/ (op.at \in Awaits /\ n = op.reserved),
         n <= minted', op' # Nothing /\ op'.reserved = n => op'.at \notin Awaits,
         M = {Reply(n)} => asked'[n] = 0
  PROVE  Fresh(M)
BY DEF Fresh

LEMMA BoundaryKeeps ==
  ASSUME NEW b
  PROVE  \E S : Boundary(b) = Keep(inbox, S)
BY DEF Boundary

LEMMA BoundaryPlaces ==
  ASSUME LaneTypeOK, NEW b, Place(Boundary(b), <<>>)
  PROVE  /\ Grows(ToSet(Boundary(b)), {})
         /\ Triggers(Boundary(b)) => Trigger(Boundary(b)) \in ToSet(branch')
         /\ \A x \in ToSet(branch) : x \in ToSet(branch')
<1>1. PICK S : Boundary(b) = Keep(inbox, S) BY BoundaryKeeps
<1>2. Grows(ToSet(Boundary(b)), {}) BY <1>1, PlaceGrows
<1>3. Boundary(b) \in Seq(Items) BY <1>1, KeepFacts, Types
<1> QED BY <1>2, <1>3, Grown, TriggerIsPlaced

LEMMA ActingOutside ==
  ASSUME Control, NEW step, Standing(step), step \notin {"settled", "tools"}, op.at # "tools"
  PROVE  Outside /\ op # Nothing /\ drive # Nothing
BY Acting, Types DEF Outside, Control

LEMMA StartRunMoves ==
  ASSUME Control, NEW b \in BOOLEAN, StartRun(b)
  PROVE  Onward
<1> DEFINE more == IF b THEN <<HookMessage(minted + 1)>> ELSE <<>>
           M == IF b THEN {HookMessage(minted + 1)} ELSE {}
           t == Last(branch \o more)
<1>1. LaneTypeOK /\ LeafInv BY DEF Control
<1>2. /\ Standing("dispatch") /\ op.at = "starting" /\ drive.step = "dispatch" /\ (b => minted < MaxMinted)
      /\ branch' = branch \o more /\ minted' = minted + Len(more)
      /\ op' = [op EXCEPT !.at = "checkpoint", !.may = FALSE, !.used = FALSE, !.trigger = t]
      /\ UNCHANGED <<inbox, pending, owned, results, asked, taken, runs, drive, abort, crashes>>
  BY DEF StartRun, At, Running, Live, Standing
<1>3. Outside /\ op # Nothing BY <1>2, ActingOutside
<1>4. branch # <<>> BY <1>1, <1>2, <1>3 DEF LeafInv
<1>5. b => HookMessage(minted + 1) \in Entries /\ minted + 1 \in 1 .. MaxMinted
  BY <1>1, <1>2, Types, MadeIds
<1>6. more \in Seq(Entries) /\ ToSet(more) = M /\ Len(more) = (IF b THEN 1 ELSE 0)
  <2>1. CASE b BY <1>5, <2>1, OneElement
  <2>2. CASE ~b BY <2>2, NoElements
  <2> QED BY <2>1, <2>2
<1>7. Grows({}, M)
  <2>1. CASE b
    <3>1. branch' = branch \o <<HookMessage(minted + 1)>> BY <1>2, <2>1
    <3> QED BY <1>1, <1>2, <1>5, <2>1, <3>1, EntryGrows
  <2>2. CASE ~b
    <3>1. branch' = branch BY <1>1, <1>2, <2>2, ConcatEmptySeq, Types
    <3> QED BY <1>1, <1>2, <2>2, <3>1, GrowsNot
  <2> QED BY <2>1, <2>2
<1>8. /\ branch' \in Seq(Entries) /\ ToSet(branch') = ToSet(branch) \cup {} \cup M
      /\ Len(branch') >= Len(branch)
  BY <1>1, <1>7, Grown
<1> HIDE DEF more
<1>9. branch' # <<>> /\ t = Last(branch') /\ t \in ToSet(branch') /\ t \in Entries
  <2>1. Len(branch) > 0 BY <1>1, <1>4, Types, ElementsAre
  <2>2. Len(branch') # 0 /\ branch' # <<>> BY <1>1, <1>8, <2>1, Types
  <2> QED BY <1>2, <1>8, <2>2, ElementsAre
<1> HIDE DEF t
<1>10. /\ op' \in Operations /\ op'.id = op.id /\ op'.cancelled = op.cancelled
       /\ op'.at = "checkpoint" /\ op'.calls = op.calls /\ op'.trigger = t
       /\ op'.reserved = op.reserved
  BY <1>2, <1>3, <1>9 DEF Operations, Leaves, Outside
<1>11. /\ minted' \in 0 .. MaxMinted /\ minted' >= minted /\ op.reserved <= minted
       /\ minted' = IF b THEN minted + 1 ELSE minted
  BY <1>1, <1>2, <1>3, <1>5, <1>6, Types
<1>12. Turned BY <1>3, <1>9, <1>10, <1>11, Types, OperationFields, <1>1 DEF Turned, Waits, Awaits, Outside
<1>13. Fresh(M)
  <2> SUFFICES ASSUME b PROVE Fresh(M) BY DEF Fresh
  <2> DEFINE n == minted + 1
  <2>1. M = {HookMessage(n)} /\ M # {Reply(n)} BY IdsDiffer
  <2> HIDE DEF M
  <2>2. n \in 1 .. MaxMinted /\ n > minted /\ n <= minted' /\ op'.at \notin Awaits
    BY <1>1, <1>5, <1>10, <1>11, Types DEF Awaits
  <2> HIDE DEF n
  <2> QED BY <2>1, <2>2, FreshIs
<1> HIDE DEF M
<1>14. Adds BY <1>2, <1>7, <1>11, <1>13 DEF Adds
<1> QED BY <1>2, <1>3, <1>12, <1>14 DEF Onward, Moves

LEMMA AddsItems ==
  ASSUME LaneTypeOK, NEW P, Grows(P, {}), UNCHANGED <<minted, asked, taken, runs, abort, crashes>>
  PROVE  Adds
<1>1. Fresh({}) BY DEF Fresh
<1>2. minted' \in 0 .. MaxMinted /\ minted' >= minted BY Types
<1> QED BY <1>1, <1>2 DEF Adds

LEMMA AddsNothing ==
  ASSUME LaneTypeOK, UNCHANGED <<branch, inbox, pending>>,
         minted' \in 0 .. MaxMinted, minted' >= minted,
         UNCHANGED <<asked, taken, runs, abort, crashes>>
  PROVE  Adds
<1>1. Fresh({}) /\ Grows({}, {}) BY GrowsNot DEF Fresh
<1> QED BY <1>1 DEF Adds

LEMMA ReadyFields ==
  ASSUME op \in Operations, NEW t \in Entries, NEW u \in BOOLEAN, AssistantReady(t, u)
  PROVE  /\ op' \in Operations /\ op'.id = op.id /\ op'.cancelled = op.cancelled
         /\ op'.at = "assistant.ready" /\ op'.calls = op.calls /\ op'.trigger = t
         /\ op'.reserved = op.reserved
<1>1. 1 \in 1 .. MaxAttempts BY BoundsAssumption
<1> QED BY <1>1 DEF AssistantReady, Operations, Leaves

LEMMA TurnedTo ==
  ASSUME LaneTypeOK, Outside, op' \in Operations, op'.id = op.id, op'.cancelled = op.cancelled,
         op'.calls = op.calls, op'.reserved = op.reserved, op'.trigger \in ToSet(branch'),
         op'.at \in {"checkpoint", "assistant.ready", "summary.deciding"},
         minted' \in 0 .. MaxMinted, minted' >= minted
  PROVE  Turned
<1>1. op.reserved <= minted /\ op.reserved \in Nat /\ minted \in Nat /\ minted' \in Nat
  BY Types, OperationFields DEF Outside
<1> QED BY <1>1 DEF Turned, Outside, Waits, Awaits

LEMMA TriggerStays ==
  ASSUME LaneTypeOK, Outside, op.at # "starting", NEW P, NEW M, Grows(P, M)
  PROVE  op.trigger \in ToSet(branch') /\ op.trigger \in Entries
BY Grown, Types, ElementsAre DEF LaneTypeOK, Outside

LEMMA RunCheckpointMoves ==
  ASSUME Control, NEW full \in BOOLEAN, RunCheckpoint(full)
  PROVE  Onward \/ Finishes
<1> DEFINE place == Boundary(~full /\ op.may)
<1>1. LaneTypeOK BY DEF Control
<1>2. /\ Standing("dispatch") /\ op.at = "checkpoint" /\ drive.step = "dispatch"
      /\ UNCHANGED <<owned, results, minted, asked, taken, runs, abort, crashes>>
  BY DEF RunCheckpoint, At, Running, Live, Standing
<1>3. Outside /\ op # Nothing BY <1>2, ActingOutside
<1>4. \/ /\ \/ Triggers(place) /\ AssistantReady(Trigger(place), FALSE)
            \/ op' = [op EXCEPT !.at = "summary.deciding", !.reason = "threshold"]
            \/ AssistantReady(op.trigger, op.used)
         /\ Place(place, <<>>) /\ drive' = drive
      \/ /\ drive' = [drive EXCEPT !.step = "finishing", !.plan = place]
         /\ UNCHANGED <<branch, op, inbox, pending>>
  BY DEF RunCheckpoint
<1>5. place \in Seq(Items) BY <1>1, BoundaryKeeps, KeepFacts, Types
<1> HIDE DEF place
<1>6. CASE /\ \/ Triggers(place) /\ AssistantReady(Trigger(place), FALSE)
              \/ op' = [op EXCEPT !.at = "summary.deciding", !.reason = "threshold"]
              \/ AssistantReady(op.trigger, op.used)
           /\ Place(place, <<>>) /\ drive' = drive
  <2>1. Grows(ToSet(place), {}) /\ (Triggers(place) => Trigger(place) \in ToSet(branch'))
    BY <1>1, <1>6, BoundaryPlaces DEF place
  <2>2. op.trigger \in ToSet(branch') /\ op.trigger \in Entries BY <1>1, <1>2, <1>3, <2>1, TriggerStays
  <2>3. ToSet(branch') \subseteq Entries BY <1>1, <2>1, Grown, ElementsAre
  <2>4. op \in Operations /\ op.used \in BOOLEAN BY <1>3, OperationFields DEF Outside
  <2>5. /\ op' \in Operations /\ op'.id = op.id /\ op'.cancelled = op.cancelled
        /\ op'.calls = op.calls /\ op'.reserved = op.reserved
        /\ op'.at \in {"assistant.ready", "summary.deciding"} /\ op'.trigger \in ToSet(branch')
    <3>1. CASE Triggers(place) /\ AssistantReady(Trigger(place), FALSE)
      BY <2>1, <2>3, <2>4, <3>1, ReadyFields
    <3>2. CASE op' = [op EXCEPT !.at = "summary.deciding", !.reason = "threshold"]
      BY <2>2, <2>4, <3>2 DEF Operations, Leaves
    <3>3. CASE AssistantReady(op.trigger, op.used) BY <2>2, <2>4, <3>3, ReadyFields
    <3> QED BY <1>6, <3>1, <3>2, <3>3
  <2>6. Turned BY <1>1, <1>2, <1>3, <2>5, TurnedTo, Types
  <2>7. Adds BY <1>1, <1>2, <2>1, AddsItems
  <2>8. op.at # "assistant.effect_pending" BY <1>2
  <2> QED BY <1>2, <1>3, <1>6, <2>6, <2>7, <2>8 DEF Onward, Moves
<1>7. CASE /\ drive' = [drive EXCEPT !.step = "finishing", !.plan = place]
           /\ UNCHANGED <<branch, op, inbox, pending>>
  BY <1>2, <1>3, <1>5, <1>7 DEF Finishes, durable
<1> QED BY <1>4, <1>6, <1>7

LEMMA StepMoves ==
  ASSUME Outside, NEW step \in Steps \ {"tools", "asking", "answering"}, Step(step), op' \in Operations, op'.id = op.id,
         step \in {"requesting", "streaming"} => op'.at = "assistant.effect_pending",
         step \in Summarizing => op'.at = "summary.effect_pending",
         step = "timer" => op'.at \in Waits,
         step = "finishing" => op'.at \in {"checkpoint", "summary.deciding"},
         step = "requesting" => Running("dispatch"),
         step = "streaming" => drive.step # "requesting"
  PROVE  Moves
<1> DEFINE d == Stepped(drive, step)
<1>1. drive' = d BY DEF Step, Stepped
<1>2. d.id = drive.id /\ d.step = step BY SteppedFields DEF Outside
<1>3. op' # Nothing BY IdsAssumption
<1> HIDE DEF d
<1>4. Position(d, op') BY <1>2, <1>3 DEF Position, Summarizing, Outside
<1> QED BY <1>1, <1>4 DEF Moves, d

LEMMA FinishBoundaryMoves ==
  ASSUME Control, NEW hook \in BOOLEAN, FinishBoundary(hook)
  PROVE  Onward \/ Ended
<1> DEFINE place == Boundary(TRUE)
           x == HookMessage(minted + 1)
<1>1. LaneTypeOK BY DEF Control
<1>2. /\ Standing("finishing") /\ drive.step = "finishing" /\ ~op.cancelled
      /\ hook => minted < MaxMinted
      /\ UNCHANGED <<asked, taken, runs, abort, crashes>>
  BY DEF FinishBoundary, Running, Live, Standing
<1>3. Outside /\ op # Nothing /\ op.at \in {"checkpoint", "summary.deciding"}
  BY <1>2, ActingOutside, Acting
<1>4. \/ /\ Triggers(place) /\ Place(place, <<>>) /\ AssistantReady(Trigger(place), FALSE)
         /\ Step("dispatch") /\ UNCHANGED <<owned, results, minted>>
      \/ /\ hook /\ Place(place, <<x>>) /\ AssistantReady(Last(<<x>>), FALSE) /\ minted' = minted + 1
         /\ Step("dispatch") /\ UNCHANGED <<owned, results>>
      \/ Place(place, <<>>) /\ Settle("completed") /\ UNCHANGED minted
  BY DEF FinishBoundary
<1>5. PICK S : place = Keep(inbox, S) BY BoundaryKeeps
<1> HIDE DEF place
<1>6. op \in Operations /\ op.at # "assistant.effect_pending" BY <1>3 DEF Outside
<1>8. CASE /\ Triggers(place) /\ Place(place, <<>>) /\ AssistantReady(Trigger(place), FALSE)
           /\ Step("dispatch") /\ UNCHANGED <<owned, results, minted>>
  <2>1. Grows(ToSet(place), {}) /\ Trigger(place) \in ToSet(branch')
    BY <1>1, <1>8, BoundaryPlaces DEF place
  <2>2. ToSet(branch') \subseteq Entries BY <1>1, <2>1, Grown, ElementsAre
  <2>3. /\ op' \in Operations /\ op'.id = op.id /\ op'.cancelled = op.cancelled
        /\ op'.calls = op.calls /\ op'.reserved = op.reserved
        /\ op'.at = "assistant.ready" /\ op'.trigger \in ToSet(branch')
    BY <1>6, <1>8, <2>1, <2>2, ReadyFields
  <2>4. Turned BY <1>1, <1>3, <1>8, <2>3, TurnedTo, Types
  <2>5. Adds BY <1>1, <1>2, <1>8, <2>1, AddsItems
  <2>6. Moves BY <1>3, <1>8, <2>3, StepMoves DEF Steps, Summarizing
  <2> QED BY <1>3, <1>6, <1>8, <2>4, <2>5, <2>6 DEF Onward
<1>9. CASE /\ hook /\ Place(place, <<x>>) /\ AssistantReady(Last(<<x>>), FALSE)
           /\ minted' = minted + 1 /\ Step("dispatch") /\ UNCHANGED <<owned, results>>
  <2>1. minted + 1 \in 1 .. MaxMinted /\ minted' \in 0 .. MaxMinted /\ minted' >= minted
    BY <1>1, <1>2, <1>9, Types
  <2>2. x \in Entries BY <2>1, MadeIds
  <2>3. Grows(ToSet(place), {x}) BY <1>1, <1>5, <1>9, <2>2, PlaceGrowsWith
  <2>4. x \in ToSet(branch') /\ Last(<<x>>) = x BY <1>1, <2>3, Grown, OneElement
  <2>5. /\ op' \in Operations /\ op'.id = op.id /\ op'.cancelled = op.cancelled
        /\ op'.calls = op.calls /\ op'.reserved = op.reserved
        /\ op'.at = "assistant.ready" /\ op'.trigger \in ToSet(branch')
    BY <1>6, <1>9, <2>2, <2>4, ReadyFields
  <2>6. Turned BY <1>1, <1>3, <2>1, <2>5, TurnedTo
  <2>7. Fresh({x})
    <3> DEFINE n == minted + 1
               M == {HookMessage(n)}
    <3>1. M # {Reply(n)} BY IdsDiffer
    <3>2. n \in 1 .. MaxMinted /\ n > minted /\ n <= minted' /\ op'.at \notin Awaits
      BY <1>1, <1>9, <2>1, <2>5, Types DEF Awaits
    <3>3. M \in {{Reply(n)}, {Summary(n)}, {HookMessage(n)}} OBVIOUS
    <3> HIDE DEF n, M
    <3>4. Fresh(M) BY <3>1, <3>2, <3>3, FreshIs
    <3> QED BY <3>4 DEF M, n
  <2>8. Adds BY <1>2, <2>1, <2>3, <2>7 DEF Adds
  <2>9. Moves BY <1>3, <1>9, <2>5, StepMoves DEF Steps, Summarizing
  <2> QED BY <1>3, <1>6, <1>9, <2>6, <2>8, <2>9 DEF Onward
<1>10. CASE Place(place, <<>>) /\ Settle("completed") /\ UNCHANGED minted
  <2>1. Grows(ToSet(place), {}) BY <1>1, <1>10, BoundaryPlaces DEF place
  <2>2. Adds BY <1>1, <1>2, <1>10, <2>1, AddsItems
  <2> QED BY <1>2, <1>3, <1>10, <2>2 DEF Ended
<1> QED BY <1>4, <1>8, <1>9, <1>10

(* A reply with tool calls opens a batch.                                  *)
Enters(count) ==
  /\ Outside /\ op.at = "assistant.effect_pending" /\ ~op.cancelled /\ op.reserved >= 1
  /\ Grows({}, {Reply(op.reserved)})
  /\ op' \in Operations /\ op'.id = op.id /\ op'.cancelled = op.cancelled
  /\ op'.at = "tools" /\ op'.reserved = op.reserved /\ op'.trigger = op.trigger
  /\ op'.calls = [k \in 1 .. count |-> "planned"]
  /\ asked' = [asked EXCEPT ![op.reserved] = count]
  /\ owned' = [owned EXCEPT !.frames = @ \ {Reply(op.reserved)}]
  /\ drive' = Stepped(drive, "dispatch")
  /\ UNCHANGED <<results, minted, taken, runs, abort, crashes>>

LEMMA SettlesAlone ==
  ASSUME LaneTypeOK, Outside, NEW status \in {"completed", "failed", "aborted"}, Settle(status),
         status = "aborted" <=> op.cancelled,
         UNCHANGED <<branch, inbox, pending, asked, taken, runs, abort, crashes>>,
         minted' \in 0 .. MaxMinted, minted' >= minted
  PROVE  Ended
<1>1. Adds BY AddsNothing
<1> QED BY <1>1 DEF Ended

LEMMA ConfigurationFailsMoves ==
  ASSUME Control, ConfigurationFails
  PROVE  Ended
<1>1. LaneTypeOK BY DEF Control
<1>2. /\ Standing("dispatch") /\ op.at = "assistant.ready" /\ ~op.cancelled
      /\ Settle("failed")
      /\ UNCHANGED <<branch, inbox, pending, minted, asked, taken, runs, abort, crashes>>
  BY DEF ConfigurationFails, At, Running, Live, Standing
<1>3. Outside BY <1>2, ActingOutside
<1> QED BY <1>1, <1>2, <1>3, SettlesAlone, Types

LEMMA SummaryModelGoneMoves ==
  ASSUME Control, SummaryModelGone
  PROVE  Ended
<1>1. LaneTypeOK BY DEF Control
<1>2. /\ Standing("dispatch") /\ op.at = "summary.ready" /\ ~op.cancelled
      /\ Settle("failed")
      /\ UNCHANGED <<branch, inbox, pending, minted, asked, taken, runs, abort, crashes>>
  BY DEF SummaryModelGone, At, Running, Live, Standing
<1>3. Outside BY <1>2, ActingOutside
<1> QED BY <1>1, <1>2, <1>3, SettlesAlone, Types

LEMMA ReconcileMoves ==
  ASSUME Control, Reconcile
  PROVE  Ended
<1>1. LaneTypeOK BY DEF Control
<1>2. /\ Standing("dispatch") /\ op.at # "tools" /\ op.cancelled
      /\ Settle("aborted")
      /\ UNCHANGED <<branch, inbox, pending, minted, asked, taken, runs, abort, crashes>>
  BY DEF Reconcile, Live, Standing
<1>3. Outside BY <1>2, ActingOutside
<1> QED BY <1>1, <1>2, <1>3, SettlesAlone, Types

LEMMA GenerationIntentMoves ==
  ASSUME Control, GenerationIntent
  PROVE  Onward
<1>1. LaneTypeOK BY DEF Control
<1>2. /\ Standing("dispatch") /\ Running("dispatch") /\ op.at = "assistant.ready" /\ minted < MaxMinted
      /\ minted' = minted + 1
      /\ op' = [op EXCEPT !.at = "assistant.effect_pending", !.reserved = minted + 1]
      /\ Step("requesting")
      /\ UNCHANGED <<branch, inbox, pending, owned, results, asked, taken, runs, abort, crashes>>
  BY DEF GenerationIntent, At, Running, Live
<1>3. Outside /\ op \in Operations /\ op.calls = <<>> BY <1>2, ActingOutside DEF Outside
<1>4. minted' \in 0 .. MaxMinted /\ minted' >= minted /\ minted + 1 \in 0 .. MaxMinted
  BY <1>1, <1>2, Types
<1>5. /\ op' \in Operations /\ op'.id = op.id /\ op'.cancelled = op.cancelled
      /\ op'.at = "assistant.effect_pending" /\ op'.calls = op.calls /\ op'.trigger = op.trigger
      /\ op'.reserved = minted + 1
  BY <1>2, <1>3, <1>4 DEF Operations, Leaves
<1>6. Grows({}, {}) BY <1>1, <1>2, GrowsNot
<1>7. op'.trigger \in ToSet(branch') BY <1>1, <1>2, <1>3, <1>5, <1>6, TriggerStays
<1>8. Turned BY <1>2, <1>3, <1>4, <1>5, <1>7 DEF Turned, Waits
<1>9. Adds BY <1>1, <1>2, <1>4, AddsNothing
<1>10. Moves BY <1>2, <1>3, <1>5, StepMoves DEF Steps, Summarizing
<1> QED BY <1>2, <1>3, <1>8, <1>9, <1>10 DEF Onward

LEMMA WaitEndsMoves ==
  ASSUME Control, WaitEnds
  PROVE  Onward
<1>1. LaneTypeOK BY DEF Control
<1>2. /\ Standing("dispatch") \/ Standing("timer")
      /\ op.at \in Waits /\ Ready /\ Step("dispatch")
      /\ UNCHANGED <<branch, inbox, pending, owned, results, minted, asked, taken, runs, abort, crashes>>
  BY DEF WaitEnds, Running, Live
<1>3. Outside /\ op \in Operations /\ op.calls = <<>> BY <1>2, ActingOutside DEF Outside, Waits
<1>4. /\ op' \in Operations /\ op'.id = op.id /\ op'.cancelled = op.cancelled
      /\ op'.at = (IF op.at = "assistant.retry_wait" THEN "assistant.ready" ELSE "summary.ready")
      /\ op'.calls = op.calls /\ op'.trigger = op.trigger /\ op'.reserved = op.reserved
  BY <1>2, <1>3 DEF Ready, Operations, Leaves
<1>5. Grows({}, {}) BY <1>1, <1>2, GrowsNot
<1>6. op'.trigger \in ToSet(branch') BY <1>1, <1>2, <1>3, <1>4, <1>5, TriggerStays DEF Waits
<1>7. op.reserved <= minted BY <1>1, <1>3, Types
<1>8. Turned BY <1>2, <1>3, <1>4, <1>6, <1>7 DEF Turned, Waits, Awaits
<1>9. Adds BY <1>1, <1>2, AddsNothing, Types
<1>10. Moves BY <1>2, <1>3, <1>4, StepMoves DEF Steps, Summarizing
<1> QED BY <1>2, <1>3, <1>8, <1>9, <1>10 DEF Onward, Waits

LEMMA SummaryIntentMoves ==
  ASSUME Control, SummaryIntent
  PROVE  Onward
<1>1. LaneTypeOK BY DEF Control
<1>2. /\ Standing("dispatch") /\ op.at = "summary.ready"
      /\ op' = [op EXCEPT !.at = "summary.effect_pending"]
      /\ Step("summarizing")
      /\ UNCHANGED <<branch, inbox, pending, owned, results, minted, asked, taken, runs, abort, crashes>>
  BY DEF SummaryIntent, At, Running, Live
<1>3. Outside /\ op \in Operations /\ op.calls = <<>> BY <1>2, ActingOutside DEF Outside
<1>4. /\ op' \in Operations /\ op'.id = op.id /\ op'.cancelled = op.cancelled
      /\ op'.at = "summary.effect_pending" /\ op'.calls = op.calls /\ op'.trigger = op.trigger
      /\ op'.reserved = op.reserved
  BY <1>2, <1>3 DEF Operations, Leaves
<1>5. Grows({}, {}) BY <1>1, <1>2, GrowsNot
<1>6. op'.trigger \in ToSet(branch') BY <1>1, <1>2, <1>3, <1>4, <1>5, TriggerStays
<1>7. op.reserved <= minted BY <1>1, <1>3, Types
<1>8. Turned BY <1>2, <1>3, <1>4, <1>6, <1>7 DEF Turned, Waits, Awaits
<1>9. Adds BY <1>1, <1>2, AddsNothing, Types
<1>10. Moves BY <1>2, <1>3, <1>4, StepMoves DEF Steps, Summarizing
<1> QED BY <1>2, <1>3, <1>8, <1>9, <1>10 DEF Onward

LEMMA SummaryFailsMoves ==
  ASSUME Control, Outside, op.at = "summary.effect_pending", ~op.cancelled,
         NEW retryable \in BOOLEAN, SummaryFails(retryable),
         UNCHANGED <<branch, inbox, pending, minted, asked, taken, runs, abort, crashes>>
  PROVE  Onward \/ Ended
<1>1. LaneTypeOK /\ op \in Operations /\ op.calls = <<>> BY DEF Control, Outside
<1>2. CASE Settle("failed") BY <1>1, <1>2, SettlesAlone, Types
<1>3. CASE /\ op.attempt < MaxAttempts
           /\ op' = [op EXCEPT !.at = "summary.retry_wait", !.attempt = @ + 1]
           /\ Step("dispatch") /\ UNCHANGED <<owned, results>>
  <2>1. op.attempt + 1 \in 1 .. MaxAttempts /\ op.attempt + 1 > 1
    BY <1>1, <1>3, OperationFields, BoundsAssumption
  <2>2. /\ op' \in Operations /\ op'.id = op.id /\ op'.cancelled = op.cancelled
        /\ op'.at = "summary.retry_wait" /\ op'.calls = op.calls /\ op'.trigger = op.trigger
        /\ op'.reserved = op.reserved /\ op'.attempt = op.attempt + 1
    BY <1>1, <1>3, <2>1 DEF Operations, Leaves
  <2>3. Grows({}, {}) BY <1>1, GrowsNot
  <2>4. op'.trigger \in ToSet(branch') BY <1>1, <2>2, <2>3, TriggerStays
  <2>5. op.reserved <= minted BY <1>1, Types
  <2>6. Turned BY <1>1, <2>1, <2>2, <2>4, <2>5 DEF Turned, Waits, Awaits
  <2>7. Adds BY <1>1, AddsNothing, Types
  <2>8. Moves BY <1>3, <2>2, StepMoves DEF Steps, Summarizing
  <2> QED BY <1>3, <2>6, <2>7, <2>8 DEF Onward
<1> QED BY <1>2, <1>3 DEF SummaryFails

LEMMA RecoverSummaryMoves ==
  ASSUME Control, RecoverSummary
  PROVE  Onward \/ Ended
<1>1. /\ Standing("dispatch") /\ op.at = "summary.effect_pending" /\ ~op.cancelled
      /\ SummaryFails(TRUE)
      /\ UNCHANGED <<branch, inbox, pending, minted, asked, taken, runs, abort, crashes>>
  BY DEF RecoverSummary, At, Running, Live
<1>2. Outside BY <1>1, ActingOutside
<1> QED BY <1>1, <1>2, SummaryFailsMoves

LEMMA SummaryDoneMoves ==
  ASSUME Control, Outside, op.at \in {"summary.deciding", "summary.effect_pending"}, ~op.cancelled,
         NEW entry, NEW M,
         \/ entry = <<>> /\ M = {} /\ op.at = "summary.deciding" /\ drive.step = "dispatch"
         \/ \E n \in 1 .. MaxMinted :
              /\ entry = <<Summary(n)>> /\ M = {Summary(n)} /\ n <= minted'
              /\ n > minted \/ (op.at = "summary.effect_pending" /\ n = op.reserved),
         entry = <<>> => minted' = minted, minted' \in 0 .. MaxMinted, minted' >= minted,
         SummaryDone(entry), UNCHANGED <<asked, taken, runs, abort, crashes>>
  PROVE  Onward \/ Ended \/ Finishes
<1> DEFINE place == Boundary((entry = <<>>) /\ op.may)
<1>1. LaneTypeOK /\ op \in Operations /\ op.calls = <<>> /\ op.at # "assistant.effect_pending"
  BY DEF Control, Outside
<1>2. \/ /\ entry = <<>> /\ drive' = [drive EXCEPT !.step = "finishing", !.plan = place]
         /\ UNCHANGED <<branch, op, inbox, pending, owned, results>>
      \/ /\ branch' = (branch \o entry) \o place
         /\ inbox' = Keep(inbox, ToSet(inbox) \ ToSet(place))
         /\ pending' = pending \ ToSet(place)
         /\ \/ Triggers(place) /\ AssistantReady(Trigger(place), FALSE)
            \/ AssistantReady(op.trigger, op.used)
            \/ op' = [op EXCEPT !.at = "checkpoint"]
         /\ Step("dispatch") /\ UNCHANGED <<owned, results>>
      \/ Settle("failed") /\ UNCHANGED <<branch, inbox, pending>>
  BY DEF SummaryDone
<1>3. PICK S : place = Keep(inbox, S) BY BoundaryKeeps
<1> HIDE DEF place
<1>4. CASE /\ entry = <<>> /\ drive' = [drive EXCEPT !.step = "finishing", !.plan = place]
           /\ UNCHANGED <<branch, op, inbox, pending, owned, results>>
  <2>1. place \in Seq(Items) BY <1>1, <1>3, KeepFacts, Types
  <2>2. op.at = "summary.deciding" /\ drive.step = "dispatch" BY <1>4
  <2> QED BY <1>4, <2>1, <2>2 DEF Finishes, durable
<1>5. CASE Settle("failed") /\ UNCHANGED <<branch, inbox, pending>>
  BY <1>1, <1>5, SettlesAlone
<1>6. CASE /\ branch' = (branch \o entry) \o place
           /\ inbox' = Keep(inbox, ToSet(inbox) \ ToSet(place))
           /\ pending' = pending \ ToSet(place)
           /\ \/ Triggers(place) /\ AssistantReady(Trigger(place), FALSE)
              \/ AssistantReady(op.trigger, op.used)
              \/ op' = [op EXCEPT !.at = "checkpoint"]
           /\ Step("dispatch") /\ UNCHANGED <<owned, results>>
  <2>1. entry \in Seq(Entries) /\ ToSet(entry) = M /\ IsInjective(entry) /\ M \subseteq Entries
    <3>1. CASE entry = <<>> /\ M = {} BY <3>1, NoElements
    <3>2. ASSUME NEW n \in 1 .. MaxMinted, entry = <<Summary(n)>>, M = {Summary(n)}
          PROVE  entry \in Seq(Entries) /\ ToSet(entry) = M /\ IsInjective(entry) /\ M \subseteq Entries
      BY <3>2, MadeIds, OneElement
    <3> QED BY <3>1, <3>2
  <2>2. Grows(ToSet(place), M) BY <1>1, <1>3, <1>6, <2>1, GrowsWith
  <2>3. place \in Seq(Items) BY <1>1, <1>3, KeepFacts, Types
  <2>4. Triggers(place) => Trigger(place) \in ToSet(branch')
    BY <1>1, <2>2, <2>3, Grown, TriggerIsPlaced
  <2>5. op.trigger \in ToSet(branch') /\ op.trigger \in Entries BY <1>1, <2>2, TriggerStays
  <2>6. ToSet(branch') \subseteq Entries BY <1>1, <2>2, Grown, ElementsAre
  <2>7. /\ op' \in Operations /\ op'.id = op.id /\ op'.cancelled = op.cancelled
        /\ op'.calls = op.calls /\ op'.reserved = op.reserved
        /\ op'.at \in {"assistant.ready", "checkpoint"} /\ op'.trigger \in ToSet(branch')
    <3>1. CASE Triggers(place) /\ AssistantReady(Trigger(place), FALSE)
      BY <1>1, <2>4, <2>6, <3>1, ReadyFields
    <3>2. CASE AssistantReady(op.trigger, op.used)
      BY <1>1, <2>5, <3>2, ReadyFields, OperationFields
    <3>3. CASE op' = [op EXCEPT !.at = "checkpoint"]
      BY <1>1, <2>5, <3>3 DEF Operations, Leaves
    <3> QED BY <1>6, <3>1, <3>2, <3>3
  <2>8. Turned BY <1>1, <2>7, TurnedTo
  <2>9. Fresh(M)
    <3>1. CASE M = {} BY <3>1 DEF Fresh
    <3>2. ASSUME NEW n \in 1 .. MaxMinted, M = {Summary(n)}, n <= minted',
                 n > minted \/ (op.at = "summary.effect_pending" /\ n = op.reserved)
          PROVE  Fresh(M)
      <4>1. M # {Reply(n)} BY <3>2, IdsDiffer
      <4>2. op'.at \notin Awaits BY <2>7 DEF Awaits
      <4>3. n > minted \/ (op.at \in Awaits /\ n = op.reserved) BY <3>2 DEF Awaits
      <4> QED BY <3>2, <4>1, <4>2, <4>3, FreshIs
    <3> QED BY <3>1, <3>2
  <2>10. Adds BY <2>2, <2>9 DEF Adds
  <2>11. Moves BY <1>6, <2>7, StepMoves DEF Steps, Summarizing
  <2> QED BY <1>1, <1>6, <2>8, <2>10, <2>11 DEF Onward
<1> QED BY <1>2, <1>4, <1>5, <1>6

LEMMA SummaryResultMoves ==
  ASSUME Control, NEW outcome \in {"made", "retryable", "error"}, SummaryResult(outcome)
  PROVE  Onward \/ Ended \/ Finishes
<1>1. /\ Standing("answered") /\ ~op.cancelled
      /\ UNCHANGED <<minted, asked, taken, runs, abort, crashes>>
      /\ \/ SummaryDone(<<Summary(op.reserved)>>)
         \/ /\ SummaryFails(outcome = "retryable")
            /\ UNCHANGED <<branch, inbox, pending>>
  BY DEF SummaryResult, Running, Live
<1>2. op.at = "summary.effect_pending" /\ op \in Operations /\ op # Nothing
  BY <1>1, Acting DEF Summarizing
<1>3. Outside BY <1>1, <1>2, ActingOutside
<1>4. /\ op.reserved \in 1 .. MaxMinted /\ op.reserved <= minted
      /\ minted \in 0 .. MaxMinted /\ minted >= minted
  BY <1>2, Types, OperationFields DEF Control, LeafInv, Awaits
<1>5. CASE SummaryDone(<<Summary(op.reserved)>>)
  <2> DEFINE n == op.reserved
             entry == <<Summary(n)>>
             M == {Summary(n)}
  <2>1. n \in 1 .. MaxMinted /\ n <= minted' /\ entry # <<>> /\ SummaryDone(entry)
    BY <1>1, <1>4, <1>5
  <2>2. entry = <<Summary(n)>> /\ M = {Summary(n)} /\ n = op.reserved OBVIOUS
  <2> HIDE DEF n, entry, M
  <2> QED BY <1>1, <1>2, <1>3, <1>4, <2>1, <2>2, SummaryDoneMoves
<1>6. CASE SummaryFails(outcome = "retryable") /\ UNCHANGED <<branch, inbox, pending>>
  BY <1>1, <1>2, <1>3, <1>6, SummaryFailsMoves
<1> QED BY <1>1, <1>5, <1>6

LEMMA DecideSummaryMoves ==
  ASSUME Control, NEW choice \in {"decline", "hook", "make"}, DecideSummary(choice)
  PROVE  Onward \/ Ended \/ Finishes
<1>1. /\ Standing("dispatch") /\ drive.step = "dispatch" /\ op.at = "summary.deciding"
      /\ ~op.cancelled /\ (choice # "decline" => minted < MaxMinted)
      /\ minted' = (IF choice = "decline" THEN minted ELSE minted + 1)
      /\ UNCHANGED <<asked, taken, runs, abort, crashes>>
      /\ \/ choice = "decline" /\ SummaryDone(<<>>)
         \/ choice = "hook" /\ SummaryDone(<<Summary(minted + 1)>>)
         \/ /\ choice = "make"
            /\ op' = [op EXCEPT !.at = "summary.ready", !.reserved = minted + 1, !.attempt = 1]
            /\ UNCHANGED <<branch, inbox, pending, owned, results, drive>>
  BY DEF DecideSummary, At, Running, Live, Standing
<1>2. Outside /\ op \in Operations /\ op.calls = <<>> BY <1>1, ActingOutside DEF Outside
<1>3. LaneTypeOK BY DEF Control
<1>4. /\ minted' \in 0 .. MaxMinted /\ minted' >= minted
      /\ choice # "decline" => minted + 1 \in 1 .. MaxMinted
  BY <1>1, <1>3, Types
<1>5. CASE choice = "decline" /\ SummaryDone(<<>>)
  <2> DEFINE entry == <<>>
             M == {}
  <2>1. entry = <<>> /\ M = {} /\ SummaryDone(entry) BY <1>5
  <2> HIDE DEF entry, M
  <2> QED BY <1>1, <1>2, <1>4, <1>5, <2>1, SummaryDoneMoves
<1>6. CASE choice = "hook" /\ SummaryDone(<<Summary(minted + 1)>>)
  <2> DEFINE n == minted + 1
             entry == <<Summary(n)>>
             M == {Summary(n)}
  <2>1. n \in 1 .. MaxMinted /\ n <= minted' /\ n > minted /\ entry # <<>> /\ SummaryDone(entry)
    BY <1>1, <1>3, <1>4, <1>6, Types
  <2>2. entry = <<Summary(n)>> /\ M = {Summary(n)} OBVIOUS
  <2> HIDE DEF n, entry, M
  <2> QED BY <1>1, <1>2, <1>4, <2>1, <2>2, SummaryDoneMoves
<1>7. CASE /\ choice = "make"
           /\ op' = [op EXCEPT !.at = "summary.ready", !.reserved = minted + 1, !.attempt = 1]
           /\ UNCHANGED <<branch, inbox, pending, owned, results, drive>>
  <2>1. 1 \in 1 .. MaxAttempts /\ minted + 1 \in 0 .. MaxMinted /\ minted' = minted + 1
    BY <1>1, <1>4, <1>7, BoundsAssumption
  <2>2. /\ op' \in Operations /\ op'.id = op.id /\ op'.cancelled = op.cancelled
        /\ op'.at = "summary.ready" /\ op'.calls = op.calls /\ op'.trigger = op.trigger
        /\ op'.reserved = minted + 1
    BY <1>2, <1>7, <2>1 DEF Operations, Leaves
  <2>3. Grows({}, {}) BY <1>3, <1>7, GrowsNot
  <2>4. op'.trigger \in ToSet(branch') BY <1>1, <1>2, <1>3, <2>2, <2>3, TriggerStays
  <2>5. Turned BY <1>2, <1>4, <2>1, <2>2, <2>4, Types DEF Turned, Waits
  <2>6. Adds BY <1>1, <1>3, <1>4, <1>7, AddsNothing
  <2>7. Moves BY <1>1, <1>7 DEF Moves
  <2> QED BY <1>1, <1>2, <1>7, <2>5, <2>6, <2>7 DEF Onward
<1> QED BY <1>1, <1>5, <1>6, <1>7

LEMMA PublishMoves ==
  ASSUME Control, Outside, op.at = "assistant.effect_pending",
         NEW answer \in Answers, NEW count, answer = "tools" => count \in Positions,
         Publish(answer, count)
  PROVE  Onward \/ Ended \/ (answer = "tools" /\ Enters(count))
<1> DEFINE me == Reply(op.reserved)
           R == [k \in 1 .. count |-> "planned"]
<1>1. LaneTypeOK /\ op \in Operations /\ op.calls = <<>> /\ op # Nothing
  BY IdsAssumption DEF Control, Outside
<1>2. op.reserved \in 1 .. MaxMinted /\ op.reserved <= minted /\ op.reserved >= 1
  BY <1>1, Types, OperationFields DEF Control, LeafInv, Awaits
<1>3. me \in Entries BY <1>2, MadeIds
<1>4. /\ branch' = Append(branch, me)
      /\ asked' = [asked EXCEPT ![op.reserved] = IF answer = "tools" /\ ~op.cancelled
                                                    THEN count ELSE 0]
      /\ UNCHANGED <<inbox, pending, minted, taken, runs, abort, crashes>>
      /\ \/ /\ ~op.cancelled /\ answer \in {"error", "retryable", "overflow"}
            /\ Settle("failed")
         \/ /\ \/ /\ op.cancelled \/ answer = "stop"
                  /\ op' = [op EXCEPT !.at = "checkpoint", !.may = TRUE, !.trigger = me]
               \/ /\ ~op.cancelled /\ answer = "tools"
                  /\ op' = [op EXCEPT !.at = "tools", !.ends = {}, !.calls = R]
               \/ /\ answer # "tools" /\ op.attempt < MaxAttempts
                  /\ op' = [op EXCEPT !.at = "assistant.retry_wait", !.attempt = @ + 1]
               \/ /\ answer # "tools"
                  /\ op' = [op EXCEPT !.at = "summary.deciding", !.reason = "overflow",
                                      !.may = FALSE, !.used = TRUE]
            /\ owned' = [owned EXCEPT !.frames = @ \ {me}]
            /\ Step("dispatch") /\ UNCHANGED results
  BY DEF Publish, Answers
<1>5. Grows({}, {me}) BY <1>1, <1>3, <1>4, EntryGrows
<1>6. /\ op.trigger \in ToSet(branch') /\ op.trigger \in Entries /\ me \in ToSet(branch')
      /\ minted' \in 0 .. MaxMinted /\ minted' >= minted
  BY <1>1, <1>4, <1>5, TriggerStays, Grown, Types
<1> HIDE DEF me
<1>7. ASSUME ~(answer = "tools" /\ ~op.cancelled),
             op' # Nothing => op'.at \notin Awaits
      PROVE  Adds
  <2>1. asked' = [asked EXCEPT ![op.reserved] = 0] BY <1>4, <1>7
  <2>2. op.reserved \in DOMAIN asked BY <1>1, <1>2 DEF LaneTypeOK
  <2>3. asked'[op.reserved] = 0 BY <2>1, <2>2
  <2>4. Fresh({me})
    <3> DEFINE n == op.reserved
               M == {me}
    <3>1. n \in 1 .. MaxMinted /\ n <= minted' /\ op.at \in Awaits /\ asked'[n] = 0
      BY <1>2, <1>4, <2>3 DEF Awaits
    <3>2. M \in {{Reply(n)}, {Summary(n)}, {HookMessage(n)}} BY DEF me
    <3>3. n = op.reserved OBVIOUS
    <3> HIDE DEF n, M
    <3>4. Fresh(M) BY <1>7, <3>1, <3>2, <3>3, FreshIs
    <3> QED BY <3>4 DEF M
  <2> QED BY <1>4, <1>5, <1>6, <2>1, <2>4 DEF Adds
<1>8. CASE Settle("failed") /\ ~op.cancelled /\ answer \in {"error", "retryable", "overflow"}
  <2>1. op' = Nothing BY <1>8 DEF Settle
  <2>2. Adds BY <1>7, <1>8, <2>1
  <2> QED BY <1>8, <2>2 DEF Ended
<1>9. ASSUME op' \in Operations, op'.id = op.id, op'.cancelled = op.cancelled,
             op'.calls = op.calls, op'.reserved = op.reserved, op'.trigger \in ToSet(branch'),
             op'.at \in {"checkpoint", "assistant.retry_wait", "summary.deciding"},
             op'.at = "assistant.retry_wait" => op'.attempt > 1,
             ~(answer = "tools" /\ ~op.cancelled),
             owned' = [owned EXCEPT !.frames = @ \ {me}], Step("dispatch"), UNCHANGED results
      PROVE  Onward
  <2>1. op'.reserved <= minted' /\ op'.at \notin Awaits BY <1>2, <1>4, <1>9 DEF Awaits
  <2>2. Turned BY <1>1, <1>9, <2>1 DEF Turned, Waits
  <2>3. Adds BY <1>7, <1>9, <2>1
  <2>4. Moves BY <1>9, StepMoves DEF Steps, Summarizing
  <2> QED BY <1>9, <2>2, <2>3, <2>4 DEF Onward, me
<1>10. CASE /\ op.cancelled \/ answer = "stop"
            /\ op' = [op EXCEPT !.at = "checkpoint", !.may = TRUE, !.trigger = me]
            /\ owned' = [owned EXCEPT !.frames = @ \ {me}]
            /\ Step("dispatch") /\ UNCHANGED results
  <2>1. /\ op' \in Operations /\ op'.id = op.id /\ op'.cancelled = op.cancelled
        /\ op'.calls = op.calls /\ op'.reserved = op.reserved /\ op'.trigger = me
        /\ op'.at = "checkpoint"
    BY <1>1, <1>3, <1>10 DEF Operations, Leaves
  <2> QED BY <1>6, <1>9, <1>10, <2>1
<1>11. CASE /\ answer # "tools" /\ op.attempt < MaxAttempts
            /\ op' = [op EXCEPT !.at = "assistant.retry_wait", !.attempt = @ + 1]
            /\ owned' = [owned EXCEPT !.frames = @ \ {me}]
            /\ Step("dispatch") /\ UNCHANGED results
  <2>1. op.attempt + 1 \in 1 .. MaxAttempts /\ op.attempt + 1 > 1
    BY <1>1, <1>11, OperationFields, BoundsAssumption
  <2>2. /\ op' \in Operations /\ op'.id = op.id /\ op'.cancelled = op.cancelled
        /\ op'.calls = op.calls /\ op'.reserved = op.reserved /\ op'.trigger = op.trigger
        /\ op'.at = "assistant.retry_wait" /\ op'.attempt = op.attempt + 1
    BY <1>1, <1>11, <2>1 DEF Operations, Leaves
  <2> QED BY <1>6, <1>9, <1>11, <2>1, <2>2
<1>12. CASE /\ answer # "tools"
            /\ op' = [op EXCEPT !.at = "summary.deciding", !.reason = "overflow",
                                !.may = FALSE, !.used = TRUE]
            /\ owned' = [owned EXCEPT !.frames = @ \ {me}]
            /\ Step("dispatch") /\ UNCHANGED results
  <2>1. /\ op' \in Operations /\ op'.id = op.id /\ op'.cancelled = op.cancelled
        /\ op'.calls = op.calls /\ op'.reserved = op.reserved /\ op'.trigger = op.trigger
        /\ op'.at = "summary.deciding"
    BY <1>1, <1>12 DEF Operations, Leaves
  <2> QED BY <1>6, <1>9, <1>12, <2>1
<1>13. CASE /\ ~op.cancelled /\ answer = "tools"
            /\ op' = [op EXCEPT !.at = "tools", !.ends = {}, !.calls = R]
            /\ owned' = [owned EXCEPT !.frames = @ \ {me}]
            /\ Step("dispatch") /\ UNCHANGED results
  <2>1. count \in Nat /\ R \in Seq(CallStates) BY <1>13, BoundsAssumption DEF CallStates, Positions
  <2> HIDE DEF R
  <2>2. /\ op' \in Operations /\ op'.id = op.id /\ op'.cancelled = op.cancelled
        /\ op'.calls = R /\ op'.reserved = op.reserved /\ op'.trigger = op.trigger
        /\ op'.at = "tools"
    BY <1>1, <1>13, <2>1 DEF Operations, Leaves, CallStates
  <2>3. asked' = [asked EXCEPT ![op.reserved] = count] BY <1>4, <1>13
  <2> QED BY <1>2, <1>4, <1>5, <1>13, <2>2, <2>3 DEF Enters, Step, Stepped, R, me
<1> QED BY <1>4, <1>8, <1>10, <1>11, <1>12, <1>13

LEMMA RespondMoves ==
  ASSUME Control, NEW answer \in Answers, NEW count, answer = "tools" => count \in Positions,
         Respond(answer, count)
  PROVE  Onward \/ Ended \/ (answer = "tools" /\ Enters(count))
<1>1. Standing("streaming") /\ Publish(answer, count) BY DEF Respond, Live
<1>2. op.at = "assistant.effect_pending" BY <1>1, Acting
<1>3. Outside BY <1>1, <1>2, ActingOutside
<1> QED BY <1>1, <1>2, <1>3, PublishMoves

LEMMA RecoverGenerationMoves ==
  ASSUME Control, RecoverGeneration
  PROVE  Onward \/ Ended
<1>1. Standing("dispatch") /\ op.at = "assistant.effect_pending" /\ Publish("retryable", 0)
  BY DEF RecoverGeneration, Live
<1>2. Outside BY <1>1, ActingOutside
<1>3. "retryable" \in Answers BY DEF Answers
<1> QED BY <1>1, <1>2, <1>3, PublishMoves

-----------------------------------------------------------------------------
(* The three keep the state's shape and the Drive's picture of it.         *)
LEMMA AddsTypes ==
  ASSUME Control, Outside, Adds
  PROVE  /\ branch' \in Seq(Entries) /\ inbox' \in Seq(Items) /\ pending' \subseteq Entries
         /\ taken' \subseteq Items /\ minted' \in 0 .. MaxMinted /\ crashes' \in 0 .. MaxCrashes
         /\ asked' \in [1 .. MaxMinted -> 0 .. MaxCalls]
         /\ runs' \in [(1 .. MaxMinted) \X Positions -> Nat]
         /\ abort' \in Aborts \cup {Nothing} /\ abort' = abort
         /\ \A x \in ToSet(branch) : x \in ToSet(branch')
<1>1. LaneTypeOK BY DEF Control
<1>2. PICK P, M : Grows(P, M) BY DEF Adds
<1>3. 0 \in 0 .. MaxCalls BY BoundsAssumption
<1>4. asked' \in [1 .. MaxMinted -> 0 .. MaxCalls]
  <2>1. asked \in [1 .. MaxMinted -> 0 .. MaxCalls] BY <1>1 DEF LaneTypeOK
  <2> QED BY <1>3, <2>1 DEF Adds
<1>5. /\ taken' \subseteq Items /\ minted' \in 0 .. MaxMinted /\ crashes' \in 0 .. MaxCrashes
      /\ runs' \in [(1 .. MaxMinted) \X Positions -> Nat]
      /\ abort' \in Aborts \cup {Nothing} /\ abort' = abort
  BY <1>1 DEF Adds, LaneTypeOK
<1> QED BY <1>1, <1>2, <1>4, <1>5, Grown

LEMMA OutsideFacts ==
  ASSUME Control, Outside
  PROVE  /\ LaneTypeOK /\ op # Nothing /\ drive # Nothing /\ op.id \in Runs
         /\ op.reserved \in Nat /\ op.at \in Leaves /\ drive.step \in Steps
         /\ drive.jobs = NoJobs /\ drive.place = {} /\ results[op.id] = "none"
         /\ op.at \in Awaits => op.reserved >= 1
BY Types, OperationFields, DriveFields DEF Control, Outside, DriveInv, Position, Summarizing, JobsAt,
   BatchInv, LeafInv

LEMMA MovesDrive ==
  ASSUME Control, Outside, Moves, op' \in Operations, op'.id = op.id
  PROVE  /\ drive' \in Drives /\ drive'.id = op'.id /\ drive'.gate = drive.gate
         /\ drive'.jobs = NoJobs /\ drive'.place = {} /\ drive'.step # "tools"
         /\ drive'.step = "requesting" => Running("dispatch")
         /\ drive'.step \notin {"asking", "answering"}
         /\ Standing("requesting") => ~Standing("streaming")'
<1>1. /\ drive \in Drives /\ drive.id = op.id /\ drive.jobs = NoJobs /\ drive.place = {}
  BY OutsideFacts DEF Outside
<1>2. CASE drive' = drive /\ drive.step = "dispatch"
  BY <1>1, <1>2 DEF Outside, Standing
<1>3. ASSUME NEW step \in Steps \ {"tools", "asking", "answering"}, drive' = Stepped(drive, step),
             step = "requesting" => Running("dispatch"),
             step = "streaming" => drive.step # "requesting"
      PROVE  /\ drive' \in Drives /\ drive'.id = op'.id /\ drive'.gate = drive.gate
             /\ drive'.jobs = NoJobs /\ drive'.place = {} /\ drive'.step # "tools"
             /\ drive'.step = "requesting" => Running("dispatch")
             /\ drive'.step \notin {"asking", "answering"}
             /\ Standing("requesting") => ~Standing("streaming")'
  BY <1>1, <1>3, SteppedFields DEF Standing
<1> QED BY <1>2, <1>3 DEF Moves

LEMMA MovesPosition ==
  ASSUME Control, Outside, Moves, Turned
  PROVE  Position(drive', op')
<1>1. /\ drive \in Drives /\ drive.id = op.id /\ op'.id = op.id /\ op' # Nothing
  BY IdsAssumption DEF Outside, Turned
<1>2. CASE drive' = drive /\ drive.step = "dispatch" BY <1>1, <1>2 DEF Position, Summarizing
<1>3. CASE \E step \in Steps : drive' = Stepped(drive, step) /\ Position(drive', op') BY <1>3
<1> QED BY <1>2, <1>3 DEF Moves

LEMMA OnwardControl ==
  ASSUME Control, Onward
  PROVE  Control'
<1>1. /\ Outside /\ Adds /\ Turned /\ Moves /\ UNCHANGED results
      /\ owned' = owned \/ owned' = [owned EXCEPT !.frames = @ \ {Reply(op.reserved)}]
  BY DEF Onward
<1>2. /\ LaneTypeOK /\ op # Nothing /\ drive # Nothing /\ results[op.id] = "none"
      /\ op.at \in Awaits => op.reserved >= 1
  BY <1>1, OutsideFacts
<1>3. op' \in Operations /\ op' # Nothing /\ op'.id = op.id /\ op'.cancelled = op.cancelled
  BY <1>1, IdsAssumption DEF Turned
<1>4. /\ drive' \in Drives /\ drive' # Nothing /\ drive'.id = op'.id /\ drive'.gate = drive.gate
      /\ drive'.jobs = NoJobs /\ drive'.place = {} /\ drive'.step # "tools"
      /\ drive'.step = "requesting" => Running("dispatch")
      /\ drive'.step # "asking"
  BY <1>1, <1>3, MovesDrive, IdsAssumption
<1>5. LaneTypeOK'
  <2>1. owned' \in [args : SUBSET Entries, outputs : SUBSET Entries, frames : SUBSET Entries]
    BY <1>1, <1>2 DEF LaneTypeOK
  <2>2. results' \in [Runs -> {"none", "completed", "failed", "aborted"}]
    BY <1>1, <1>2 DEF LaneTypeOK
  <2>3. /\ op'.reserved <= minted' /\ Len(op'.calls) <= MaxCalls
        /\ op'.at \in Waits => op'.attempt > 1
        /\ (op'.calls # <<>>) <=> (op'.at = "tools")
        /\ op'.at # "starting" => op'.trigger \in ToSet(branch')
    BY <1>1, BoundsAssumption DEF Turned
  <2> QED BY <1>1, <1>3, <1>4, <2>1, <2>2, <2>3, AddsTypes DEF LaneTypeOK
<1>6. LeafInv'
  <2>1. op'.at \in Awaits => op'.reserved >= 1 BY <1>1, <1>2, Types DEF Turned
  <2> QED BY <1>1, <1>2, <1>3, <2>1 DEF LeafInv, Turned
<1>7. DriveInv'
  <2>1. JobsAt(drive', op') BY <1>4 DEF JobsAt, NoJobs
  <2> QED BY <1>1, <2>1, MovesPosition DEF DriveInv
<1>8. GateInv'
  <2>1. abort' = abort BY <1>1, AddsTypes
  <2>2. \A k \in Positions : drive'.jobs[k] # "cleared" BY <1>4 DEF NoJobs
  <2>3. GateInv /\ drive.id = op.id BY <1>1 DEF Control, Outside
  <2>4. drive'.step = "requesting" => (abort # Nothing => abort.drive) /\ ~op.cancelled
    BY <1>4 DEF Running, Live
  <2> QED BY <1>2, <1>3, <1>4, <2>1, <2>2, <2>3, <2>4 DEF GateInv
<1>9. BatchInv' BY <1>1, <1>3, <1>4 DEF BatchInv, Turned
<1> QED BY <1>5, <1>6, <1>7, <1>8, <1>9 DEF Control

LEMMA EndedControl ==
  ASSUME Control, Ended
  PROVE  Control'
<1>1. Outside /\ Adds BY DEF Ended
<1>2. PICK status \in {"completed", "failed", "aborted"} : Settle(status) BY DEF Ended
<1>3. /\ LaneTypeOK /\ op # Nothing /\ drive # Nothing /\ op.id \in Runs /\ drive.place = {}
  BY <1>1, OutsideFacts
<1>4. op' = Nothing /\ owned' = NoValues /\ results' = [results EXCEPT ![op.id] = status]
  BY <1>2 DEF Settle
<1>5. /\ drive' \in Drives /\ drive' # Nothing /\ drive'.id = drive.id /\ drive'.gate = drive.gate
      /\ drive'.jobs = NoJobs /\ drive'.place = {} /\ drive'.step = "settled"
  <2>1. drive' = Stepped(drive, "settled") BY <1>2 DEF Settle, Step, Stepped
  <2>2. "settled" \in Steps /\ drive \in Drives BY <1>1 DEF Steps, Outside
  <2> QED BY <1>3, <2>1, <2>2, SteppedFields, IdsAssumption
<1>6. LaneTypeOK'
  <2>1. owned' \in [args : SUBSET Entries, outputs : SUBSET Entries, frames : SUBSET Entries]
    BY <1>4 DEF NoValues
  <2>2. results' \in [Runs -> {"none", "completed", "failed", "aborted"}]
    BY <1>3, <1>4 DEF LaneTypeOK
  <2> QED BY <1>1, <1>4, <1>5, <2>1, <2>2, AddsTypes DEF LaneTypeOK
<1>7. LeafInv' BY <1>4 DEF LeafInv
<1>8. DriveInv' BY <1>4, <1>5 DEF DriveInv, Position, Summarizing, JobsAt, NoJobs
<1>9. GateInv'
  <2>1. abort' = abort BY <1>1, AddsTypes
  <2>2. \A k \in Positions : drive'.jobs[k] # "cleared" BY <1>5 DEF NoJobs
  <2>3. GateInv BY DEF Control
  <2> QED BY <1>3, <1>5, <2>1, <2>2, <2>3 DEF GateInv
<1>10. BatchInv' BY <1>4, <1>5 DEF BatchInv
<1> QED BY <1>6, <1>7, <1>8, <1>9, <1>10 DEF Control

(* A step of the Drive alone.                                              *)
LEMMA LocalControl ==
  ASSUME Control, UNCHANGED <<durable, runs, crashes>>,
         drive' \in Drives \cup {Nothing}, abort' \in Aborts \cup {Nothing},
         DriveInv', GateInv', BatchInv'
  PROVE  Control'
<1>1. LaneTypeOK' BY DEF Control, LaneTypeOK, durable
<1>2. LeafInv' BY DEF Control, LeafInv, durable
<1> QED BY <1>1, <1>2 DEF Control

LEMMA BatchStays ==
  ASSUME Control, UNCHANGED op, drive' = Nothing \/ drive'.place = {}
  PROVE  BatchInv'
BY DEF Control, BatchInv, Completed, Calls

LEMMA StepControl ==
  ASSUME Control, drive \in Drives, NEW step \in Steps \ {"tools", "requesting"}, Step(step),
         Position(Stepped(drive, step), op), drive.place = {}, Local,
         step = "asking" => /\ op # Nothing => ~op.cancelled
                            /\ abort # Nothing => abort.drive
  PROVE  Control' /\ drive' = Stepped(drive, step)
<1>1. drive' = Stepped(drive, step) BY DEF Step, Stepped
<1>2. /\ drive' \in Drives /\ drive' # Nothing /\ drive # Nothing /\ drive'.id = drive.id
      /\ drive'.gate = drive.gate /\ drive'.jobs = NoJobs /\ drive'.place = {}
      /\ drive'.step = step
  BY <1>1, SteppedFields, IdsAssumption
<1>3. UNCHANGED <<durable, runs, crashes>> /\ abort' = abort /\ op' = op BY DEF Local, durable
<1>4. \A k \in Positions : drive'.jobs[k] = "idle" BY <1>2 DEF NoJobs
<1>5. DriveInv' BY <1>1, <1>2, <1>3, <1>4 DEF DriveInv, JobsAt
<1>6. GateInv' BY <1>2, <1>3, <1>4 DEF GateInv, Control
<1>7. BatchInv' BY <1>2, <1>3, BatchStays
<1>8. abort' \in Aborts \cup {Nothing} BY <1>3 DEF Control, LaneTypeOK
<1> QED BY <1>1, <1>2, <1>3, <1>5, <1>6, <1>7, <1>8, LocalControl

LEMMA FinishesControl ==
  ASSUME Control, Finishes
  PROVE  Control'
<1>1. /\ drive \in Drives /\ drive.id = op.id /\ drive.step = "dispatch" /\ op # Nothing
      /\ op.at \in {"checkpoint", "summary.deciding"} /\ drive # Nothing
      /\ drive.jobs = NoJobs /\ drive.place = {}
  BY OutsideFacts DEF Finishes, Outside
<1>2. PICK place \in Seq(Items) : drive' = [drive EXCEPT !.step = "finishing", !.plan = place]
  BY DEF Finishes
<1>3. /\ drive' \in Drives /\ drive' # Nothing /\ drive'.id = drive.id /\ drive'.gate = drive.gate
      /\ drive'.jobs = NoJobs /\ drive'.place = {} /\ drive'.step = "finishing"
  <2>1. /\ drive' \in Drives /\ drive'.id = drive.id /\ drive'.gate = drive.gate
        /\ drive'.jobs = drive.jobs /\ drive'.place = drive.place /\ drive'.step = "finishing"
    BY <1>1, <1>2 DEF Drives
  <2> QED BY <1>1, <2>1, IdsAssumption
<1>4. UNCHANGED <<durable, runs, crashes>> /\ abort' = abort /\ op' = op BY DEF Finishes, durable
<1>5. \A k \in Positions : drive'.jobs[k] = "idle" BY <1>3 DEF NoJobs
<1>6. DriveInv' BY <1>1, <1>3, <1>4, <1>5 DEF DriveInv, Position, Summarizing, JobsAt
<1>7. GateInv' BY <1>1, <1>3, <1>4, <1>5 DEF GateInv, Control
<1>8. BatchInv' BY <1>3, <1>4, BatchStays
<1>9. abort' \in Aborts \cup {Nothing} BY <1>4 DEF Control, LaneTypeOK
<1> QED BY <1>3, <1>4, <1>6, <1>7, <1>8, <1>9, LocalControl

LEMMA EntersControl ==
  ASSUME Control, NEW count \in Positions, Enters(count)
  PROVE  Control'
<1>1. /\ Outside /\ op.reserved >= 1 /\ op' \in Operations /\ op'.id = op.id /\ op'.at = "tools"
      /\ op'.reserved = op.reserved /\ op'.cancelled = op.cancelled /\ op'.trigger = op.trigger
      /\ op'.calls = [k \in 1 .. count |-> "planned"]
      /\ drive' = Stepped(drive, "dispatch") /\ op.at = "assistant.effect_pending"
  BY DEF Enters
<1>2. /\ LaneTypeOK /\ op # Nothing /\ drive # Nothing /\ drive.place = {} /\ op' # Nothing
      /\ drive.id = op.id /\ results[op.id] = "none" /\ drive \in Drives
  BY <1>1, OutsideFacts, IdsAssumption DEF Outside
<1>3. /\ drive' \in Drives /\ drive' # Nothing /\ drive'.id = op'.id /\ drive'.gate = drive.gate
      /\ drive'.jobs = NoJobs /\ drive'.place = {} /\ drive'.step = "dispatch"
  BY <1>1, <1>2, SteppedFields, IdsAssumption DEF Steps
<1>4. /\ count \in Nat /\ 1 <= count /\ count <= MaxCalls /\ DOMAIN op'.calls = 1 .. count
      /\ \A k \in 1 .. count : op'.calls[k] = "planned"
  BY <1>1, BoundsAssumption DEF Positions
<1>5. Len(op'.calls) = count /\ op'.calls # <<>>
  BY <1>1, <1>4, OperationFields
<1>6. LaneTypeOK'
  <2>1. Grows({}, {Reply(op.reserved)}) BY DEF Enters
  <2>2. op.trigger \in ToSet(branch') BY <1>1, <1>2, <2>1, TriggerStays
  <2>3. /\ branch' \in Seq(Entries) /\ inbox' \in Seq(Items) /\ pending' \subseteq Entries
    BY <1>2, <2>1, Grown
  <2>4. owned' \in [args : SUBSET Entries, outputs : SUBSET Entries, frames : SUBSET Entries]
    BY <1>2 DEF Enters, LaneTypeOK
  <2>5. asked' \in [1 .. MaxMinted -> 0 .. MaxCalls]
    <3>1. count \in 0 .. MaxCalls BY <1>4, BoundsAssumption
    <3>2. asked \in [1 .. MaxMinted -> 0 .. MaxCalls] BY <1>2 DEF LaneTypeOK
    <3>3. asked' = [asked EXCEPT ![op.reserved] = count] BY DEF Enters
    <3> QED BY <3>1, <3>2, <3>3
  <2>6. UNCHANGED <<results, minted, taken, runs, abort, crashes>> BY DEF Enters
  <2>7. /\ op'.reserved <= minted' /\ Len(op'.calls) <= MaxCalls
        /\ op'.at \in Waits => op'.attempt > 1
        /\ (op'.calls # <<>>) <=> (op'.at = "tools")
        /\ op'.at # "starting" => op'.trigger \in ToSet(branch')
    BY <1>1, <1>2, <1>4, <1>5, <2>2, <2>6, Types DEF Waits
  <2> QED BY <1>1, <1>2, <1>3, <2>3, <2>4, <2>5, <2>6, <2>7 DEF LaneTypeOK
<1>7. LeafInv' BY <1>1, <1>2 DEF LeafInv, Enters
<1>8. DriveInv' BY <1>1, <1>2, <1>3 DEF DriveInv, Position, Summarizing, JobsAt, NoJobs
<1>9. GateInv'
  <2>1. abort' = abort BY DEF Enters
  <2>2. \A k \in Positions : drive'.jobs[k] # "cleared" BY <1>3 DEF NoJobs
  <2> QED BY <1>1, <1>2, <1>3, <2>1, <2>2 DEF GateInv, Control
<1>10. BatchInv'
  <2>1. 0 \in 0 .. Len(op'.calls) BY <1>4, <1>5
  <2>2. \A k \in DOMAIN op'.calls : op'.calls[k] = "completed" <=> k <= 0 BY <1>4
  <2>3. Completed(0)' BY <2>2 DEF Completed, Calls
  <2> QED BY <1>3, <2>1, <2>3 DEF BatchInv
<1> QED BY <1>6, <1>7, <1>8, <1>9, <1>10 DEF Control

LEMMA ClaimControl ==
  ASSUME Control, Claim
  PROVE  Control'
<1> DEFINE p == <<>>
           d == [id |-> op.id, gate |-> "open", told |-> FALSE, step |-> "dispatch",
                 plan |-> p, jobs |-> NoJobs, parallel |-> FALSE, place |-> {}]
<1>1. /\ op # Nothing /\ drive = Nothing /\ drive' = d
      /\ UNCHANGED <<durable, runs, abort, crashes>>
  BY DEF Claim
<1>2. op.id \in Runs BY <1>1, Types, OperationFields DEF Control
<1>3. p \in Seq(Items) /\ NoJobs \in [Positions -> JobStates] BY DEF NoJobs, JobStates
<1> HIDE DEF p
<1>4. d \in Drives BY <1>2, <1>3 DEF Drives, JobStates
<1>5. /\ drive' \in Drives /\ drive' # Nothing /\ drive'.id = op.id /\ drive'.gate = "open"
      /\ drive'.jobs = NoJobs /\ drive'.place = {} /\ drive'.step = "dispatch"
  BY <1>1, <1>4, IdsAssumption
<1>6. UNCHANGED <<durable, runs, crashes>> /\ abort' = abort /\ op' = op BY <1>1 DEF durable
<1>7. \A k \in Positions : drive'.jobs[k] = "idle" BY <1>5 DEF NoJobs
<1>8. DriveInv' BY <1>1, <1>5, <1>6, <1>7 DEF DriveInv, Position, Summarizing, JobsAt
<1>9. GateInv' BY <1>1, <1>5, <1>6, <1>7 DEF GateInv, Control
<1>10. BatchInv' BY <1>5, <1>6, BatchStays
<1>11. abort' \in Aborts \cup {Nothing} BY <1>6 DEF Control, LaneTypeOK
<1> QED BY <1>5, <1>6, <1>8, <1>9, <1>10, <1>11, LocalControl

LEMMA StaleControl ==
  ASSUME Control, Stale
  PROVE  Control' /\ drive' = Stepped(drive, "dispatch")
<1>1. PICK step \in {"finishing", "requesting", "timer", "summarizing", "asking", "answered"} :
          Standing(step)
  BY DEF Stale
<1>2. /\ drive \in Drives /\ op # Nothing /\ op.id = drive.id /\ drive.place = {}
  BY <1>1, Acting
<1>3. Step("dispatch") /\ Local BY DEF Stale
<1>4. "dispatch" \in Steps BY DEF Steps
<1>5. Position(Stepped(drive, "dispatch"), op) BY <1>2, <1>4, SteppedFields DEF Position, Summarizing
<1> QED BY <1>2, <1>3, <1>4, <1>5, StepControl

LEMMA RequestControl ==
  ASSUME Control, Request
  PROVE  Control' /\ drive' = Stepped(drive, "streaming")
<1>1. Standing("requesting") /\ Step("streaming") /\ Local BY DEF Request, Live
<1>2. /\ drive \in Drives /\ op # Nothing /\ op.id = drive.id /\ drive.place = {}
      /\ op.at = "assistant.effect_pending"
  BY <1>1, Acting
<1>3. "streaming" \in Steps BY DEF Steps
<1>4. Position(Stepped(drive, "streaming"), op) BY <1>2, <1>3, SteppedFields DEF Position, Summarizing
<1> QED BY <1>1, <1>2, <1>3, <1>4, StepControl

LEMMA SummaryStepsControl ==
  ASSUME Control, SummaryRequestIntent \/ SummaryRequest \/ SummaryAnswer
  PROVE  /\ Control' /\ drive \in Drives /\ drive # Nothing /\ drive.jobs = NoJobs
         /\ UNCHANGED <<durable, runs, crashes>>
         /\ \E step \in {"asking", "answering", "answered"} : drive' = Stepped(drive, step)
<1>1. PICK from \in Summarizing : Standing(from)
  BY DEF SummaryRequestIntent, SummaryRequest, SummaryAnswer, Running, Live, Summarizing
<1>2. /\ drive \in Drives /\ drive # Nothing /\ op # Nothing /\ op.id = drive.id
      /\ drive.place = {} /\ drive.jobs = NoJobs /\ op.at = "summary.effect_pending"
  BY <1>1, Acting DEF Summarizing
<1>3. PICK step \in {"asking", "answering", "answered"} :
        /\ Step(step) /\ Local
        /\ step = "asking" => ~op.cancelled /\ (abort # Nothing => abort.drive)
  BY DEF SummaryRequestIntent, SummaryRequest, SummaryAnswer, Running, Live
<1>4. step \in Steps \ {"tools", "requesting"} BY DEF Steps
<1>5. Position(Stepped(drive, step), op) BY <1>2, <1>4, SteppedFields DEF Position, Summarizing
<1>6. Control' /\ drive' = Stepped(drive, step) BY <1>2, <1>3, <1>4, <1>5, StepControl
<1> QED BY <1>2, <1>3, <1>6 DEF Local

LEMMA StartWaitControl ==
  ASSUME Control, StartWait
  PROVE  Control' /\ drive' \in {Stepped(drive, "waiting"), Stepped(drive, "timer")}
<1>1. Standing("dispatch") /\ op.at \in Waits /\ Local BY DEF StartWait
<1>2. /\ drive \in Drives /\ op # Nothing /\ op.id = drive.id /\ drive.place = {}
  BY <1>1, Acting
<1>3. PICK step \in {"waiting", "timer"} : Step(step) BY DEF StartWait
<1>4. step \in Steps BY DEF Steps
<1>5. Position(Stepped(drive, step), op) BY <1>1, <1>2, <1>4, SteppedFields DEF Position, Summarizing
<1>6. Control' /\ drive' = Stepped(drive, step) BY <1>1, <1>2, <1>3, <1>4, <1>5, StepControl
<1> QED BY <1>6

LEMMA EndToolsControl ==
  ASSUME Control, EndTools
  PROVE  Control' /\ drive' = Stepped(drive, "dispatch")
<1>1. Standing("tools") /\ op.at # "tools" /\ Step("dispatch") /\ Local BY DEF EndTools, Live
<1>2. /\ drive \in Drives /\ drive # Nothing /\ op # Nothing /\ op.id = drive.id BY <1>1, Acting
<1>3. drive.place = {} BY <1>1, <1>2 DEF Control, BatchInv
<1>4. "dispatch" \in Steps BY DEF Steps
<1>5. Position(Stepped(drive, "dispatch"), op) BY <1>2, <1>4, SteppedFields DEF Position, Summarizing
<1> QED BY <1>1, <1>2, <1>3, <1>4, <1>5, StepControl

LEMMA DriveEndsControl ==
  ASSUME Control, DriveEnds
  PROVE  Control'
<1>1. /\ drive' = Nothing /\ UNCHANGED <<durable, runs, crashes>> /\ op' = op
      /\ abort' = (IF abort = Nothing THEN abort ELSE [abort EXCEPT !.drive = FALSE])
  BY DEF DriveEnds, durable
<1>2. abort' \in Aborts \cup {Nothing} /\ (abort' # Nothing => ~abort'.drive)
  BY <1>1, Types DEF Control, Aborts
<1>3. DriveInv' BY <1>1 DEF DriveInv
<1>4. GateInv' BY <1>1, <1>2 DEF GateInv
<1>5. BatchInv' BY <1>1, BatchStays
<1> QED BY <1>1, <1>2, <1>3, <1>4, <1>5, LocalControl

LEMMA BeginToolsControl ==
  ASSUME Control, BeginTools
  PROVE  /\ Control' /\ drive' # Nothing /\ drive'.jobs = NoJobs
         /\ drive # Nothing /\ drive.jobs = NoJobs
<1>1. /\ Standing("dispatch") /\ op.at = "tools" /\ Local
      /\ drive' = [drive EXCEPT !.step = "tools", !.jobs = NoJobs, !.place = {},
                              !.parallel = Parallel /\ ~op.cancelled,
                              !.gate = IF op.cancelled THEN "aborting" ELSE @,
                              !.told = @ \/ op.cancelled]
  BY DEF BeginTools
<1>2. /\ drive \in Drives /\ drive # Nothing /\ op # Nothing /\ op.id = drive.id
      /\ drive.jobs = NoJobs /\ op \in Operations
  BY <1>1, Acting
<1>3. op.cancelled \in BOOLEAN /\ Parallel \in BOOLEAN BY <1>2, OperationFields, BoundsAssumption
<1>4. NoJobs \in [Positions -> JobStates] BY DEF NoJobs, JobStates
<1>5. /\ drive' \in Drives /\ drive'.id = drive.id /\ drive'.step = "tools"
      /\ drive'.jobs = NoJobs /\ drive'.place = {}
      /\ drive'.gate = IF op.cancelled THEN "aborting" ELSE drive.gate
  BY <1>1, <1>2, <1>3, <1>4 DEF Drives, JobStates
<1>6. drive' # Nothing BY <1>5, IdsAssumption
<1>7. UNCHANGED <<durable, runs, crashes>> /\ abort' = abort /\ op' = op BY <1>1 DEF Local, durable
<1>8. \A k \in Positions : drive'.jobs[k] = "idle" BY <1>5 DEF NoJobs
<1>9. DriveInv' BY <1>1, <1>2, <1>5, <1>6, <1>7, <1>8 DEF DriveInv, Position, Summarizing, JobsAt
<1>10. GateInv' BY <1>2, <1>5, <1>6, <1>7, <1>8 DEF GateInv, Control
<1>11. BatchInv' BY <1>5, <1>7, BatchStays
<1>12. abort' \in Aborts \cup {Nothing} BY <1>7 DEF Control, LaneTypeOK
<1> QED BY <1>2, <1>5, <1>6, <1>7, <1>9, <1>10, <1>11, <1>12, LocalControl

-----------------------------------------------------------------------------
(* The tools procedure.                                                    *)
LEMMA Tooling ==
  ASSUME Control, Live("tools"), op.at = "tools"
  PROVE  /\ LaneTypeOK /\ drive \in Drives /\ drive # Nothing /\ op \in Operations /\ op # Nothing
         /\ op.id = drive.id /\ drive.step = "tools" /\ JobsAt(drive, op) /\ Position(drive, op)
         /\ Calls = 1 .. Len(op.calls) /\ Len(op.calls) \in Nat /\ Calls \subseteq Positions
         /\ Len(op.calls) <= MaxCalls /\ op.calls # <<>>
         /\ op.reserved \in 1 .. MaxMinted /\ op.reserved <= minted
         /\ abort # Nothing => abort.drive
         /\ \A k \in Calls : op.calls[k] \in CallStates
         /\ \A k \in Calls : Id(k) \in Entries
<1>1. Standing("tools") /\ (abort # Nothing => abort.drive) BY DEF Live
<1>2. /\ drive \in Drives /\ drive # Nothing /\ op \in Operations /\ op # Nothing
      /\ op.id = drive.id /\ drive.step = "tools" /\ JobsAt(drive, op) /\ Position(drive, op)
  BY <1>1, Acting
<1>3. LaneTypeOK /\ LeafInv BY DEF Control
<1>4. /\ Calls = 1 .. Len(op.calls) /\ Len(op.calls) \in Nat
      /\ \A k \in Calls : op.calls[k] \in CallStates
  BY <1>2, OperationFields DEF Calls
<1>5. op.reserved \in 1 .. MaxMinted /\ op.reserved <= minted
  BY <1>2, <1>3, OperationFields, Types DEF LeafInv
<1>6. Len(op.calls) <= MaxCalls /\ op.calls # <<>> BY <1>2, <1>3 DEF LaneTypeOK
<1>7. Calls \subseteq Positions BY <1>4, <1>6, BoundsAssumption DEF Positions
<1>8. \A k \in Calls : Id(k) \in Entries BY <1>5, <1>7, MadeIds DEF Id
<1> QED BY <1>1, <1>2, <1>3, <1>4, <1>5, <1>6, <1>7, <1>8

LEMMA JobFields ==
  ASSUME drive \in Drives, NEW k \in Positions, NEW s \in JobStates, Job(k, s)
  PROVE  /\ drive' \in Drives /\ drive' # Nothing /\ drive'.id = drive.id
         /\ drive'.gate = drive.gate /\ drive'.step = drive.step /\ drive'.place = drive.place
         /\ drive'.jobs[k] = s
         /\ \A j \in Positions : j # k => drive'.jobs[j] = drive.jobs[j]
<1>1. drive' = [drive EXCEPT !.jobs[k] = s] BY DEF Job
<1>2. /\ drive' \in Drives /\ drive'.id = drive.id
      /\ drive'.gate = drive.gate /\ drive'.step = drive.step /\ drive'.place = drive.place
      /\ drive'.jobs = [drive.jobs EXCEPT ![k] = s]
  BY <1>1 DEF Drives, JobStates
<1>3. drive.jobs \in [Positions -> JobStates] BY DriveFields
<1> QED BY <1>2, <1>3, IdsAssumption

(* The call k of the open batch is given another state.                    *)
CallTo(k, s) ==
  /\ op' \in Operations /\ op'.id = op.id /\ op'.at = op.at /\ op'.cancelled = op.cancelled
  /\ op'.reserved = op.reserved /\ op'.trigger = op.trigger
  /\ Len(op'.calls) = Len(op.calls) /\ DOMAIN op'.calls = DOMAIN op.calls
  /\ op'.calls[k] = s /\ \A j \in DOMAIN op.calls : j # k => op'.calls[j] = op.calls[j]

LEMMA CallStays ==
  ASSUME op \in Operations, op' = op, NEW k
  PROVE  CallTo(k, op.calls[k])
BY DEF CallTo

LEMMA CallChanges ==
  ASSUME op \in Operations, NEW k \in DOMAIN op.calls, NEW s \in CallStates,
         NEW ends \in SUBSET Positions,
         \/ op' = [op EXCEPT !.calls[k] = s]
         \/ op' = [op EXCEPT !.calls[k] = s, !.ends = ends]
  PROVE  CallTo(k, s)
<1>1. op.calls \in Seq(CallStates) BY OperationFields
<1> DEFINE calls == [op.calls EXCEPT ![k] = s]
<1>2. /\ calls \in Seq(CallStates) /\ Len(calls) = Len(op.calls) /\ DOMAIN calls = DOMAIN op.calls
      /\ calls[k] = s /\ \A j \in DOMAIN op.calls : j # k => calls[j] = op.calls[j]
  BY <1>1
<1>3. op' = [op EXCEPT !.calls = calls] \/ op' = [op EXCEPT !.calls = calls, !.ends = ends]
  BY DEF Operations
<1> HIDE DEF calls
<1>4. /\ op' \in Operations /\ op'.id = op.id /\ op'.at = op.at /\ op'.cancelled = op.cancelled
      /\ op'.reserved = op.reserved /\ op'.trigger = op.trigger /\ op'.calls = calls
  <2>1. calls \in Seq(CallStates) BY <1>2
  <2>2. CASE op' = [op EXCEPT !.calls = calls] BY <2>1, <2>2 DEF Operations, CallStates
  <2>3. CASE op' = [op EXCEPT !.calls = calls, !.ends = ends]
    BY <2>1, <2>3 DEF Operations, CallStates
  <2> QED BY <1>3, <2>2, <2>3
<1> QED BY <1>2, <1>4 DEF CallTo

LEMMA ToolControl ==
  ASSUME Control, Live("tools"), op.at = "tools", NEW k \in Calls, NEW j \in JobStates, Job(k, j),
         NEW s \in CallStates, CallTo(k, s),
         op.calls[k] \in {"planned", "effect_pending"}, s # "completed",
         j # "idle" => s = "effect_pending" \/ (s = "planned" /\ j = "refused"),
         j = "cleared" => (op.cancelled => drive.gate = "aborting"),
         UNCHANGED <<branch, inbox, results, minted, asked, taken, abort, crashes>>,
         pending' \subseteq Entries,
         owned' \in [args : SUBSET Entries, outputs : SUBSET Entries, frames : SUBSET Entries],
         runs' \in [(1 .. MaxMinted) \X Positions -> Nat]
  PROVE  Control'
<1>1. /\ LaneTypeOK /\ drive \in Drives /\ drive # Nothing /\ op # Nothing /\ op.id = drive.id
      /\ drive.step = "tools" /\ JobsAt(drive, op)
      /\ Calls = 1 .. Len(op.calls) /\ Len(op.calls) \in Nat /\ Calls \subseteq Positions
      /\ Len(op.calls) <= MaxCalls /\ op.calls # <<>>
      /\ abort # Nothing => abort.drive
  BY Tooling
<1>2. /\ drive' \in Drives /\ drive' # Nothing /\ drive'.id = drive.id
      /\ drive'.gate = drive.gate /\ drive'.step = "tools" /\ drive'.place = drive.place
      /\ drive'.jobs[k] = j
      /\ \A i \in Positions : i # k => drive'.jobs[i] = drive.jobs[i]
  BY <1>1, JobFields
<1>3. /\ op' \in Operations /\ op' # Nothing /\ op'.id = op.id /\ op'.at = "tools"
      /\ op'.cancelled = op.cancelled /\ op'.reserved = op.reserved /\ op'.trigger = op.trigger
      /\ Len(op'.calls) = Len(op.calls) /\ DOMAIN op'.calls = Calls
      /\ op'.calls[k] = s /\ \A i \in Calls : i # k => op'.calls[i] = op.calls[i]
  BY IdsAssumption DEF CallTo, Calls
<1>4. op'.calls # <<>>
  <2>1. k \in DOMAIN op'.calls BY <1>3
  <2> QED BY <2>1
<1>5. LaneTypeOK'
  <2>1. /\ op'.reserved <= minted' /\ Len(op'.calls) <= MaxCalls
        /\ op'.at \in Waits => op'.attempt > 1
        /\ op'.trigger \in ToSet(branch')
    BY <1>1, <1>3 DEF LaneTypeOK, Waits
  <2> QED BY <1>1, <1>2, <1>3, <1>4, <2>1 DEF LaneTypeOK
<1>6. LeafInv' BY <1>1, <1>3 DEF LeafInv, Control
<1>7. DriveInv'
  <2>1. Position(drive', op') BY <1>1, <1>2, <1>3 DEF Position, Summarizing
  <2>2. ASSUME NEW i \in Positions, drive'.jobs[i] # "idle"
        PROVE  /\ op'.at = "tools" /\ i \in DOMAIN op'.calls
               /\ \/ op'.calls[i] = "effect_pending"
                  \/ op'.calls[i] = "planned" /\ drive'.jobs[i] = "refused"
    <3>1. CASE i = k BY <1>2, <1>3, <2>2, <3>1
    <3>2. CASE i # k BY <1>1, <1>2, <1>3, <2>2, <3>2 DEF JobsAt, Calls
    <3> QED BY <3>1, <3>2
  <2>3. JobsAt(drive', op') BY <1>2, <2>2 DEF JobsAt
  <2> QED BY <2>1, <2>3 DEF DriveInv
<1>8. GateInv' BY <1>1, <1>2, <1>3 DEF GateInv, Control
<1>9. BatchInv'
  <2>1. \A i \in Calls : op'.calls[i] = "completed" <=> op.calls[i] = "completed" BY <1>3
  <2>2. \A c : Completed(c) => Completed(c)' BY <1>3, <2>1 DEF Completed, Calls
  <2>3. \E c \in 0 .. Len(op'.calls) : Completed(c)' BY <1>1, <1>3, <2>2 DEF Control, BatchInv
  <2>4. ASSUME drive.place # {}
        PROVE  \E c, b \in 0 .. Len(op'.calls) :
                 /\ c < b /\ Completed(c)' /\ drive'.place = c + 1 .. b
                 /\ \A i \in drive'.place : op'.calls[i] = "outcome_ready"
    <3>1. PICK c, b \in 0 .. Len(op.calls) :
            /\ c < b /\ Completed(c) /\ drive.place = c + 1 .. b
            /\ \A i \in drive.place : op.calls[i] = "outcome_ready"
      BY <1>1, <2>4 DEF Control, BatchInv
    <3>2. \A i \in drive.place : i # k /\ i \in Calls BY <1>1, <3>1
    <3>3. \A i \in drive'.place : op'.calls[i] = "outcome_ready" BY <1>2, <1>3, <3>1, <3>2
    <3> QED BY <1>2, <1>3, <2>2, <3>1, <3>3
  <2> QED BY <1>2, <1>3, <2>3, <2>4 DEF BatchInv
<1> QED BY <1>5, <1>6, <1>7, <1>8, <1>9 DEF Control

LEMMA JobCall ==
  ASSUME Control, Live("tools"), NEW k \in Positions, drive.jobs[k] # "idle"
  PROVE  /\ op.at = "tools" /\ k \in Calls
         /\ \/ op.calls[k] = "effect_pending"
            \/ op.calls[k] = "planned" /\ drive.jobs[k] = "refused"
BY Acting DEF Live, JobsAt, Calls

LEMMA TurnCall ==
  ASSUME Control, NEW k, Turn(k)
  PROVE  /\ Live("tools") /\ op.at = "tools" /\ k \in Calls /\ drive.jobs[k] = "idle"
         /\ op.calls[k] \in {"planned", "effect_pending"}
BY DEF Turn, Executing

LEMMA OwnedKinds ==
  ASSUME LaneTypeOK, NEW x \in Entries,
         \/ owned' = [owned EXCEPT !.args = @ \cup {x}]
         \/ owned' = [owned EXCEPT !.outputs = @ \cup {x}]
         \/ owned' = [owned EXCEPT !.outputs = @ \ {x}]
         \/ owned' = owned
  PROVE  owned' \in [args : SUBSET Entries, outputs : SUBSET Entries, frames : SUBSET Entries]
<1>1. owned \in [args : SUBSET Entries, outputs : SUBSET Entries, frames : SUBSET Entries]
  BY DEF LaneTypeOK
<1> QED BY <1>1

LEMMA RefuseControl ==
  ASSUME Control, NEW k \in Positions, Refuse(k)
  PROVE  Control'
<1>1. /\ Live("tools") /\ op.at = "tools" /\ k \in Calls
      /\ op.calls[k] \in {"planned", "effect_pending"}
  BY TurnCall DEF Refuse
<1>2. Job(k, "refused") /\ op' = op
      /\ UNCHANGED <<branch, inbox, pending, owned, results, minted, asked, taken, runs, abort, crashes>>
  BY DEF Refuse, Local, durable
<1>3. op \in Operations /\ LaneTypeOK BY <1>1, Tooling
<1>4. CallTo(k, op.calls[k]) BY <1>2, <1>3, CallStays
<1>5. "refused" \in JobStates /\ op.calls[k] \in CallStates /\ op.calls[k] # "completed"
  BY <1>1 DEF JobStates, CallStates
<1> DEFINE s == op.calls[k]
<1>6. s \in CallStates /\ s \in {"planned", "effect_pending"} /\ CallTo(k, s) BY <1>1, <1>4, <1>5
<1>7. /\ pending' \subseteq Entries
      /\ owned' \in [args : SUBSET Entries, outputs : SUBSET Entries, frames : SUBSET Entries]
      /\ runs' \in [(1 .. MaxMinted) \X Positions -> Nat]
  BY <1>2, <1>3 DEF LaneTypeOK
<1> HIDE DEF s
<1> QED BY <1>1, <1>2, <1>5, <1>6, <1>7, ToolControl

LEMMA ToolIntentControl ==
  ASSUME Control, NEW k \in Positions, ToolIntent(k)
  PROVE  Control'
<1>1. /\ Live("tools") /\ op.at = "tools" /\ k \in Calls
      /\ op.calls[k] \in {"planned", "effect_pending"}
  BY TurnCall DEF ToolIntent
<1>2. /\ Job(k, "cleared") /\ op' = [op EXCEPT !.calls[k] = "effect_pending"] /\ ~op.cancelled
      /\ owned' = [owned EXCEPT !.args = @ \cup {Id(k)}]
      /\ UNCHANGED <<branch, inbox, pending, results, minted, asked, taken, runs, abort, crashes>>
  BY DEF ToolIntent, NoTransfer
<1>3. op \in Operations /\ LaneTypeOK /\ Id(k) \in Entries BY <1>1, Tooling
<1>4. "cleared" \in JobStates /\ "effect_pending" \in CallStates /\ {} \in SUBSET Positions
  BY DEF JobStates, CallStates
<1>5. CallTo(k, "effect_pending") BY <1>1, <1>2, <1>3, <1>4, CallChanges DEF Calls
<1>6. owned' \in [args : SUBSET Entries, outputs : SUBSET Entries, frames : SUBSET Entries]
  BY <1>2, <1>3, OwnedKinds
<1>7. pending' \subseteq Entries /\ runs' \in [(1 .. MaxMinted) \X Positions -> Nat]
  BY <1>2, <1>3 DEF LaneTypeOK
<1> QED BY <1>1, <1>2, <1>4, <1>5, <1>6, <1>7, ToolControl

LEMMA ReplayControl ==
  ASSUME Control, NEW k \in Positions, Replay(k)
  PROVE  Control'
<1>1. /\ Live("tools") /\ op.at = "tools" /\ k \in Calls
      /\ op.calls[k] = "effect_pending"
  BY TurnCall DEF Replay
<1>2. /\ Job(k, "cleared") /\ op' = op /\ (op.cancelled => drive.gate = "aborting")
      /\ owned' = [owned EXCEPT !.outputs = @ \ {Id(k)}]
      /\ UNCHANGED <<branch, inbox, pending, results, minted, asked, taken, runs, abort, crashes>>
  BY DEF Replay, NoTransfer
<1>3. op \in Operations /\ LaneTypeOK /\ Id(k) \in Entries BY <1>1, Tooling
<1>4. "cleared" \in JobStates /\ "effect_pending" \in CallStates BY DEF JobStates, CallStates
<1>5. CallTo(k, "effect_pending") BY <1>1, <1>2, <1>3, CallStays
<1>6. owned' \in [args : SUBSET Entries, outputs : SUBSET Entries, frames : SUBSET Entries]
  BY <1>2, <1>3, OwnedKinds
<1>7. pending' \subseteq Entries /\ runs' \in [(1 .. MaxMinted) \X Positions -> Nat]
  BY <1>2, <1>3 DEF LaneTypeOK
<1> QED BY <1>1, <1>2, <1>4, <1>5, <1>6, <1>7, ToolControl

LEMMA ExecuteControl ==
  ASSUME Control, NEW k \in Positions, Execute(k)
  PROVE  /\ Control' /\ op.at = "tools" /\ k \in Calls /\ op.calls[k] = "effect_pending"
         /\ op.reserved \in 1 .. MaxMinted
<1>1. /\ Live("tools") /\ drive.jobs[k] = "cleared" /\ Job(k, "running")
      /\ runs' = [runs EXCEPT ![<<op.reserved, k>>] = @ + 1]
      /\ op' = op
      /\ UNCHANGED <<branch, inbox, pending, owned, results, minted, asked, taken, abort, crashes>>
  BY DEF Execute, durable
<1>2. op.at = "tools" /\ k \in Calls /\ op.calls[k] = "effect_pending" BY <1>1, JobCall
<1>3. op \in Operations /\ LaneTypeOK /\ op.reserved \in 1 .. MaxMinted BY <1>1, <1>2, Tooling
<1>4. "running" \in JobStates /\ "effect_pending" \in CallStates BY DEF JobStates, CallStates
<1>5. CallTo(k, "effect_pending") BY <1>1, <1>2, <1>3, CallStays
<1>6. /\ pending' \subseteq Entries
      /\ owned' \in [args : SUBSET Entries, outputs : SUBSET Entries, frames : SUBSET Entries]
  BY <1>1, <1>3 DEF LaneTypeOK
<1>7. runs' \in [(1 .. MaxMinted) \X Positions -> Nat]
  <2> DEFINE c == <<op.reserved, k>>
             D == (1 .. MaxMinted) \X Positions
  <2>1. runs \in [D -> Nat] BY <1>3 DEF LaneTypeOK
  <2>2. c \in D BY <1>3
  <2>3. runs' = [runs EXCEPT ![c] = runs[c] + 1] BY <1>1
  <2> HIDE DEF c, D
  <2>4. runs[c] \in Nat /\ runs[c] + 1 \in Nat BY <2>1, <2>2
  <2>5. runs' \in [D -> Nat] BY <2>1, <2>2, <2>3, <2>4
  <2> QED BY <2>5 DEF D
<1>8. Control' BY <1>1, <1>2, <1>4, <1>5, <1>6, <1>7, ToolControl
<1> QED BY <1>2, <1>3, <1>8

LEMMA NotExecutedControl ==
  ASSUME Control, NEW k \in Positions, NotExecuted(k)
  PROVE  Control' /\ op.at = "tools" /\ k \in Calls /\ op.calls[k] = "effect_pending"
<1>1. /\ Live("tools") /\ drive.jobs[k] = "cleared" /\ Job(k, "refused") /\ op' = op
      /\ UNCHANGED <<branch, inbox, pending, owned, results, minted, asked, taken, runs, abort, crashes>>
  BY DEF NotExecuted, Local, durable
<1>2. op.at = "tools" /\ k \in Calls /\ op.calls[k] = "effect_pending" BY <1>1, JobCall
<1>3. op \in Operations /\ LaneTypeOK BY <1>1, <1>2, Tooling
<1>4. "refused" \in JobStates /\ "effect_pending" \in CallStates BY DEF JobStates, CallStates
<1>5. CallTo(k, "effect_pending") BY <1>1, <1>2, <1>3, CallStays
<1>6. /\ pending' \subseteq Entries
      /\ owned' \in [args : SUBSET Entries, outputs : SUBSET Entries, frames : SUBSET Entries]
      /\ runs' \in [(1 .. MaxMinted) \X Positions -> Nat]
  BY <1>1, <1>3 DEF LaneTypeOK
<1>7. Control' BY <1>1, <1>2, <1>4, <1>5, <1>6, ToolControl
<1> QED BY <1>2, <1>7

LEMMA PublishOutcomeControl ==
  ASSUME Control, NEW k \in Positions, NEW terminate \in BOOLEAN, PublishOutcome(k, terminate)
  PROVE  /\ Control' /\ CallTo(k, "outcome_ready") /\ k \in Calls
         /\ op.calls[k] \in {"planned", "effect_pending"}
<1> DEFINE ends == IF terminate THEN op.ends \cup {k} ELSE op.ends
<1>1. /\ Live("tools") /\ op.at = "tools" /\ drive.jobs[k] # "idle" /\ Job(k, "idle")
      /\ op' = [op EXCEPT !.calls[k] = "outcome_ready", !.ends = ends]
      /\ pending' = pending \cup {Id(k)}
      /\ owned' = [owned EXCEPT !.outputs = @ \ {Id(k)}]
      /\ UNCHANGED <<branch, inbox, results, minted, asked, taken, runs, abort, crashes>>
  BY DEF PublishOutcome, Executing, NoTransfer
<1>2. k \in Calls /\ op.calls[k] \in {"planned", "effect_pending"} BY <1>1, JobCall
<1>3. op \in Operations /\ LaneTypeOK /\ Id(k) \in Entries BY <1>1, <1>2, Tooling
<1>4. ends \in SUBSET Positions BY <1>3 DEF Operations
<1> HIDE DEF ends
<1>5. "idle" \in JobStates /\ "outcome_ready" \in CallStates BY DEF JobStates, CallStates
<1>6. CallTo(k, "outcome_ready") BY <1>1, <1>2, <1>3, <1>4, <1>5, CallChanges DEF Calls
<1>7. owned' \in [args : SUBSET Entries, outputs : SUBSET Entries, frames : SUBSET Entries]
  BY <1>1, <1>3, OwnedKinds
<1>8. pending' \subseteq Entries /\ runs' \in [(1 .. MaxMinted) \X Positions -> Nat]
  BY <1>1, <1>3 DEF LaneTypeOK
<1>9. Control' BY <1>1, <1>2, <1>5, <1>6, <1>7, <1>8, ToolControl
<1> QED BY <1>2, <1>6, <1>9

(* A step that leaves the operation, the Drive and the abort alone.        *)
LEMMA AroundControl ==
  ASSUME Control, UNCHANGED <<op, results, minted, asked, runs, drive, abort, crashes>>,
         branch' \in Seq(Entries), \A x \in ToSet(branch) : x \in ToSet(branch'),
         inbox' \in Seq(Items), pending' \subseteq Entries, taken' \subseteq Items,
         owned' \in [args : SUBSET Entries, outputs : SUBSET Entries, frames : SUBSET Entries]
  PROVE  Control'
<1>1. LaneTypeOK' BY DEF Control, LaneTypeOK
<1>2. LeafInv'
  <2>1. branch \in Seq(Entries) BY DEF Control, LaneTypeOK
  <2>2. branch # <<>> => branch' # <<>> BY <2>1, ElementsAre
  <2> QED BY <2>2 DEF Control, LeafInv
<1>3. DriveInv' BY DEF Control, DriveInv
<1>4. GateInv' BY DEF Control, GateInv
<1>5. BatchInv' BY DEF Control, BatchInv, Completed, Calls
<1> QED BY <1>1, <1>2, <1>3, <1>4, <1>5 DEF Control

LEMMA ToolCheckpointControl ==
  ASSUME Control, NEW k \in Positions, ToolCheckpoint(k)
  PROVE  /\ Control' /\ Live("tools") /\ op.at = "tools" /\ k \in Calls
         /\ op.calls[k] = "effect_pending"
<1>1. /\ Live("tools") /\ op.at = "tools" /\ drive.jobs[k] = "running"
      /\ owned' = [owned EXCEPT !.outputs = @ \cup {Id(k)}]
      /\ UNCHANGED <<branch, op, inbox, pending, results, minted, asked, taken, runs, drive,
                     abort, crashes>>
  BY DEF ToolCheckpoint, Executing, NoTransfer
<1>2. k \in Calls /\ op.calls[k] = "effect_pending" BY <1>1, JobCall
<1>3. LaneTypeOK /\ Id(k) \in Entries BY <1>1, <1>2, Tooling
<1>4. owned' \in [args : SUBSET Entries, outputs : SUBSET Entries, frames : SUBSET Entries]
  BY <1>1, <1>3, OwnedKinds
<1>5. Control' BY <1>1, <1>3, <1>4, AroundControl DEF LaneTypeOK
<1> QED BY <1>1, <1>2, <1>5

LEMMA FrameControl ==
  ASSUME Control, Frame
  PROVE  /\ Control' /\ op.at = "assistant.effect_pending" /\ op # Nothing
<1>1. /\ Standing("streaming")
      /\ owned' = [owned EXCEPT !.frames = @ \cup {Reply(op.reserved)}]
      /\ UNCHANGED <<branch, op, inbox, pending, results, minted, asked, taken, runs, drive,
                     abort, crashes>>
  BY DEF Frame, Live
<1>2. op.at = "assistant.effect_pending" /\ op # Nothing /\ op \in Operations BY <1>1, Acting
<1>3. LaneTypeOK /\ op.reserved \in 1 .. MaxMinted
  BY <1>2, OperationFields DEF Control, LeafInv, Awaits
<1> DEFINE x == Reply(op.reserved)
<1>4. x \in Entries BY <1>3, MadeIds
<1> HIDE DEF x
<1>5. owned' \in [args : SUBSET Entries, outputs : SUBSET Entries, frames : SUBSET Entries]
  <2>1. owned' = [owned EXCEPT !.frames = @ \cup {x}] BY <1>1 DEF x
  <2>2. owned \in [args : SUBSET Entries, outputs : SUBSET Entries, frames : SUBSET Entries]
    BY <1>3 DEF LaneTypeOK
  <2> QED BY <1>4, <2>1, <2>2
<1>6. Control' BY <1>1, <1>3, <1>5, AroundControl DEF LaneTypeOK
<1> QED BY <1>2, <1>6

(* The inbox.                                                              *)
LEMMA EnqueueControl ==
  ASSUME Control, NEW i \in Items, Enqueue(i)
  PROVE  Control'
<1>1. /\ inbox' = Append(inbox, i) /\ pending' = pending \cup {i}
      /\ UNCHANGED <<branch, op, owned, results, minted, asked, taken, runs, drive, abort, crashes>>
  BY DEF Enqueue
<1>2. LaneTypeOK /\ i \in Entries BY MadeIds DEF Control
<1>3. inbox' \in Seq(Items) BY <1>1, <1>2, AppendElements, Types
<1> QED BY <1>1, <1>2, <1>3, AroundControl DEF LaneTypeOK

LEMMA AppendIdleGrows ==
  ASSUME LaneTypeOK, NEW i \in Items, AppendIdle(i)
  PROVE  /\ \E P : Grows(P, {i}) /\ P \cap {i} = {}
         /\ i \notin ToSet(branch) \cup ToSet(inbox) \cup taken
         /\ op = Nothing
         /\ UNCHANGED <<op, owned, results, minted, asked, taken, runs, drive, abort, crashes>>
<1>1. /\ Place(Keep(inbox, Writes), <<i>>) /\ op = Nothing
      /\ i \notin ToSet(branch) \cup ToSet(inbox) \cup taken
      /\ UNCHANGED <<op, owned, results, minted, asked, taken, runs, drive, abort, crashes>>
  BY DEF AppendIdle, Unqueued, Queued
<1>2. i \in Entries BY MadeIds
<1>3. Grows(ToSet(Keep(inbox, Writes)), {i}) BY <1>1, <1>2, PlaceGrowsWith
<1>4. ToSet(Keep(inbox, Writes)) \subseteq ToSet(inbox) BY Types, KeepFacts
<1> QED BY <1>1, <1>3, <1>4

LEMMA AppendIdleControl ==
  ASSUME Control, NEW i \in Items, AppendIdle(i)
  PROVE  Control'
<1>1. LaneTypeOK BY DEF Control
<1>2. PICK P : Grows(P, {i}) BY <1>1, AppendIdleGrows
<1>3. UNCHANGED <<op, owned, results, minted, asked, taken, runs, drive, abort, crashes>>
  BY DEF AppendIdle
<1>4. /\ branch' \in Seq(Entries) /\ \A x \in ToSet(branch) : x \in ToSet(branch')
      /\ inbox' \in Seq(Items) /\ pending' \subseteq Entries
  BY <1>1, <1>2, Grown
<1> QED BY <1>1, <1>3, <1>4, AroundControl DEF LaneTypeOK

LEMMA CancelQueuedControl ==
  ASSUME Control, NEW i \in Items, CancelQueued(i)
  PROVE  Control'
<1>1. /\ inbox' = Keep(inbox, ToSet(inbox) \ {i}) /\ pending' = pending \ {i}
      /\ taken' = taken \cup {i}
      /\ UNCHANGED <<branch, op, owned, results, minted, asked, runs, drive, abort, crashes>>
  BY DEF CancelQueued
<1>2. LaneTypeOK BY DEF Control
<1>3. inbox' \in Seq(Items) BY <1>1, <1>2, KeepFacts, Types
<1> QED BY <1>1, <1>2, <1>3, AroundControl DEF LaneTypeOK

(* Acceptance.                                                             *)
LEMMA AcceptGrows ==
  ASSUME LaneTypeOK, NEW r \in Runs, NEW prompt \in {<<Prompt(r)>>, <<>>}, Accept(r, prompt)
  PROVE  /\ \E P, M : Grows(P, M) /\ M \in {{Prompt(r)}, {}} /\ (M = {} => P # {})
         /\ op = Nothing /\ results[r] = "none" /\ op' = Started(r)
         /\ UNCHANGED <<owned, results, minted, asked, taken, runs, drive, abort, crashes>>
<1> DEFINE S == Writes \cup NextRuns \cup Eligible(Steers, AllSteers)
                          \cup Eligible(FollowUps, AllFollowUps)
           P == ToSet(Keep(inbox, S))
<1>1. /\ Place(Keep(inbox, S), prompt) /\ op = Nothing /\ results[r] = "none" /\ op' = Started(r)
      /\ prompt # <<>> \/ \E i \in P : i \notin Writes
      /\ UNCHANGED <<owned, results, minted, asked, taken, runs, drive, abort, crashes>>
  BY DEF Accept, Accepted
<1> HIDE DEF S
<1>2. CASE prompt = <<Prompt(r)>>
  <2>1. Prompt(r) \in Entries BY MadeIds
  <2>2. Grows(P, {Prompt(r)}) BY <1>1, <1>2, <2>1, PlaceGrowsWith
  <2> QED BY <1>1, <2>2
<1>3. CASE prompt = <<>>
  <2>1. P # {} BY <1>1, <1>3
  <2>2. Grows(P, {}) BY <1>1, <1>3, PlaceGrows
  <2> QED BY <1>1, <2>1, <2>2
<1> QED BY <1>2, <1>3

LEMMA AcceptControl ==
  ASSUME Control, NEW r \in Runs, NEW prompt \in {<<Prompt(r)>>, <<>>}, Accept(r, prompt)
  PROVE  Control'
<1>1. LaneTypeOK /\ DriveInv /\ BatchInv /\ GateInv BY DEF Control
<1>2. /\ op = Nothing /\ results[r] = "none" /\ op' = Started(r)
      /\ UNCHANGED <<owned, results, minted, asked, taken, runs, drive, abort, crashes>>
  BY <1>1, AcceptGrows
<1>3. PICK P, M : Grows(P, M) /\ M \in {{Prompt(r)}, {}} /\ (M = {} => P # {})
  BY <1>1, AcceptGrows
<1>4. /\ branch' \in Seq(Entries) /\ ToSet(branch') = ToSet(branch) \cup P \cup M
      /\ inbox' \in Seq(Items) /\ pending' \subseteq Entries
  BY <1>1, <1>3, Grown
<1>5. branch' # <<>> BY <1>3, <1>4, ElementsAre
<1>6. /\ op' \in Operations /\ op'.id = r /\ op'.at = "starting" /\ op'.cancelled = FALSE
      /\ op'.reserved = 0 /\ op'.calls = <<>> /\ op' # Nothing
  BY <1>2, StartedFields, IdsAssumption
<1>7. LaneTypeOK'
  <2>1. /\ op'.reserved <= minted' /\ Len(op'.calls) <= MaxCalls
        /\ op'.at \in Waits => op'.attempt > 1
        /\ (op'.calls # <<>>) <=> (op'.at = "tools")
    BY <1>1, <1>2, <1>6, Types, BoundsAssumption DEF Waits
  <2> QED BY <1>1, <1>2, <1>4, <1>6, <2>1 DEF LaneTypeOK
<1>8. LeafInv' BY <1>2, <1>5, <1>6 DEF LeafInv, Awaits
<1>9. drive # Nothing => drive.step = "settled" /\ drive.jobs = NoJobs /\ drive.place = {}
  BY <1>1, <1>2 DEF DriveInv, Position, Summarizing, JobsAt, BatchInv
<1>10. \A k \in Positions : drive # Nothing => drive.jobs[k] = "idle" BY <1>9 DEF NoJobs
<1>11. DriveInv' BY <1>2, <1>9, <1>10 DEF DriveInv, Position, Summarizing, JobsAt
<1>12. GateInv' BY <1>1, <1>2, <1>9, <1>10 DEF GateInv
<1>13. BatchInv' BY <1>2, <1>6, <1>9 DEF BatchInv
<1> QED BY <1>7, <1>8, <1>11, <1>12, <1>13 DEF Control

(* Cancellation, and the loss of the process.                              *)
LEMMA RequestAbortControl ==
  ASSUME Control, RequestAbort
  PROVE  /\ Control' /\ UNCHANGED <<durable, runs, crashes>>
         /\ drive' # Nothing => drive # Nothing /\ drive'.step = drive.step /\ drive'.jobs = drive.jobs
         /\ drive # Nothing => drive' # Nothing
<1>1. /\ op # Nothing /\ abort' = [id |-> op.id, drive |-> Observed]
      /\ drive' = IF Observed /\ drive.gate = "open" THEN [drive EXCEPT !.gate = "aborting"]
                  ELSE drive
      /\ UNCHANGED <<durable, runs, crashes>> /\ op' = op
  BY DEF RequestAbort, durable
<1>2. op.id \in Runs /\ (drive # Nothing => drive \in Drives)
  BY <1>1, Types, OperationFields DEF Control
<1>3. Observed \in BOOLEAN /\ (Observed => drive \in Drives /\ drive # Nothing)
  BY <1>2 DEF Observed
<1>4. abort' \in Aborts /\ abort' # Nothing /\ abort'.id = op.id /\ abort'.drive = Observed
  BY <1>1, <1>2, <1>3, IdsAssumption DEF Aborts
<1>5. CASE Observed /\ drive.gate = "open"
  <2>1. drive' = [drive EXCEPT !.gate = "aborting"] BY <1>1, <1>5
  <2>2. /\ drive' \in Drives /\ drive'.id = drive.id /\ drive'.gate = "aborting"
        /\ drive'.step = drive.step /\ drive'.jobs = drive.jobs /\ drive'.place = drive.place
    BY <1>3, <1>5, <2>1 DEF Drives
  <2>3. drive' # Nothing BY <2>2, IdsAssumption
  <2>4. DriveInv' BY <1>1, <1>3, <1>5, <2>2 DEF Control, DriveInv, Position, Summarizing, JobsAt
  <2>5. GateInv' BY <1>3, <1>4, <1>5, <2>2, <2>3 DEF GateInv, Observed
  <2>6. BatchInv' BY <1>1, <1>3, <1>5, <2>2 DEF Control, BatchInv, Completed, Calls
  <2>7. Control' BY <1>1, <1>4, <2>2, <2>4, <2>5, <2>6, LocalControl
  <2> QED BY <1>1, <1>3, <1>5, <2>2, <2>3, <2>7
<1>6. CASE ~(Observed /\ drive.gate = "open")
  <2>1. drive' = drive BY <1>1, <1>6
  <2>2. DriveInv' BY <1>1, <2>1 DEF Control, DriveInv
  <2>3. drive # Nothing /\ ~Observed => drive.step = "settled" /\ drive.jobs = NoJobs
    BY <1>1 DEF Control, DriveInv, Position, Summarizing, JobsAt, Observed
  <2>4. \A k \in Positions : NoJobs[k] = "idle" BY DEF NoJobs
  <2>5. GateInv'
    <3>1. CASE Observed
      <4>1. drive # Nothing /\ drive.gate = "aborting" BY <1>3, <1>6, <3>1, DriveFields
      <4> QED BY <1>4, <2>1, <3>1, <4>1 DEF GateInv, Observed
    <3>2. CASE ~Observed BY <1>4, <2>1, <2>3, <2>4, <3>2 DEF GateInv
    <3> QED BY <3>1, <3>2
  <2>6. BatchInv' BY <1>1, <2>1 DEF Control, BatchInv, Completed, Calls
  <2>7. Control' BY <1>1, <1>2, <1>4, <2>1, <2>2, <2>5, <2>6, LocalControl
  <2> QED BY <1>1, <2>1, <2>7
<1> QED BY <1>5, <1>6

LEMMA AbortMismatchControl ==
  ASSUME Control, AbortMismatch
  PROVE  Control'
<1>1. /\ abort' = Nothing /\ abort # Nothing /\ ~(op # Nothing /\ op.id = abort.id)
      /\ drive' = drive /\ op' = op /\ UNCHANGED <<durable, runs, crashes>>
  BY DEF AbortMismatch, durable
<1>2. DriveInv' BY <1>1 DEF Control, DriveInv
<1>3. GateInv' BY <1>1 DEF Control, GateInv
<1>4. BatchInv' BY <1>1 DEF Control, BatchInv, Completed, Calls
<1>5. drive' \in Drives \cup {Nothing} BY <1>1 DEF Control, LaneTypeOK
<1> QED BY <1>1, <1>2, <1>3, <1>4, <1>5, LocalControl

LEMMA AbortCommitsFields ==
  ASSUME Control, AbortCommits
  PROVE  /\ LaneTypeOK /\ op \in Operations /\ op # Nothing /\ op.id = abort.id /\ abort # Nothing
         /\ op' \in Operations /\ op' # Nothing /\ op'.id = op.id /\ op'.at = op.at
         /\ op'.cancelled = TRUE /\ op'.reserved = op.reserved /\ op'.trigger = op.trigger
         /\ op'.attempt = op.attempt /\ op'.calls = op.calls
         /\ \E drained \in SUBSET ToSet(inbox) :
              /\ inbox' = Keep(inbox, ToSet(inbox) \ drained)
              /\ pending' = pending \ drained /\ taken' = taken \cup drained
         /\ abort' = Nothing
         /\ drive' = drive \/ drive' = [drive EXCEPT !.told = TRUE]
         /\ drive = Nothing => drive' = Nothing
         /\ drive # Nothing =>
              /\ drive' \in Drives /\ drive' # Nothing /\ drive'.id = drive.id
              /\ drive'.gate = drive.gate /\ drive'.step = drive.step
              /\ drive'.jobs = drive.jobs /\ drive'.place = drive.place
         /\ UNCHANGED <<branch, owned, results, minted, asked, runs, crashes>>
<1> DEFINE drained == IF op.cancelled THEN {} ELSE ToSet(inbox) \cap (Steers \cup FollowUps)
<1>1. /\ abort # Nothing /\ op # Nothing /\ op.id = abort.id
      /\ inbox' = Keep(inbox, ToSet(inbox) \ drained)
      /\ pending' = pending \ drained /\ taken' = taken \cup drained
      /\ op' = [op EXCEPT !.cancelled = TRUE] /\ Signal /\ abort' = Nothing
      /\ UNCHANGED <<branch, owned, results, minted, asked, runs, crashes>>
  BY DEF AbortCommits
<1>2. drained \in SUBSET ToSet(inbox) OBVIOUS
<1> HIDE DEF drained
<1>3. LaneTypeOK /\ op \in Operations /\ (drive # Nothing => drive \in Drives)
  BY <1>1, Types DEF Control
<1>4. /\ op' \in Operations /\ op'.id = op.id /\ op'.at = op.at
      /\ op'.cancelled = TRUE /\ op'.reserved = op.reserved /\ op'.trigger = op.trigger
      /\ op'.attempt = op.attempt /\ op'.calls = op.calls
  BY <1>1, <1>3 DEF Operations
<1>5. abort.drive => drive # Nothing BY <1>1 DEF Control, GateInv
<1>6. CASE drive' = drive BY <1>1, <1>2, <1>3, <1>4, <1>6, IdsAssumption
<1>7. CASE drive # Nothing /\ drive' = [drive EXCEPT !.told = TRUE]
  <2>1. /\ drive' \in Drives /\ drive'.id = drive.id
        /\ drive'.gate = drive.gate /\ drive'.step = drive.step
        /\ drive'.jobs = drive.jobs /\ drive'.place = drive.place
    BY <1>3, <1>7 DEF Drives
  <2> QED BY <1>1, <1>2, <1>3, <1>4, <1>7, <2>1, IdsAssumption
<1> QED BY <1>1, <1>5, <1>6, <1>7 DEF Signal

LEMMA AbortCommitsControl ==
  ASSUME Control, AbortCommits
  PROVE  Control'
<1>1. PICK drained \in SUBSET ToSet(inbox) :
         /\ inbox' = Keep(inbox, ToSet(inbox) \ drained)
         /\ pending' = pending \ drained /\ taken' = taken \cup drained
  BY AbortCommitsFields
<1>2. /\ LaneTypeOK /\ op \in Operations /\ op # Nothing /\ op.id = abort.id /\ abort # Nothing
      /\ op' \in Operations /\ op' # Nothing /\ op'.id = op.id /\ op'.at = op.at
      /\ op'.reserved = op.reserved /\ op'.trigger = op.trigger
      /\ op'.attempt = op.attempt /\ op'.calls = op.calls /\ abort' = Nothing
      /\ UNCHANGED <<branch, owned, results, minted, asked, runs, crashes>>
  BY AbortCommitsFields
<1>3. /\ drive = Nothing => drive' = Nothing
      /\ drive # Nothing =>
           /\ drive' \in Drives /\ drive' # Nothing /\ drive'.id = drive.id
           /\ drive'.gate = drive.gate /\ drive'.step = drive.step
           /\ drive'.jobs = drive.jobs /\ drive'.place = drive.place
  BY AbortCommitsFields
<1>4. LaneTypeOK'
  <2>1. /\ inbox' \in Seq(Items) /\ pending' \subseteq Entries /\ taken' \subseteq Items
    <3>1. inbox \in Seq(Items) /\ pending \subseteq Entries /\ taken \subseteq Items
      BY <1>2 DEF LaneTypeOK
    <3>2. ToSet(inbox) \subseteq Items BY <3>1, ElementsAre
    <3> QED BY <1>1, <3>1, <3>2, KeepFacts
  <2>2. drive' \in Drives \cup {Nothing} /\ abort' \in Aborts \cup {Nothing} BY <1>2, <1>3
  <2>3. /\ op'.reserved <= minted' /\ Len(op'.calls) <= MaxCalls
        /\ op'.at \in Waits => op'.attempt > 1
        /\ (op'.calls # <<>>) <=> (op'.at = "tools")
        /\ op'.at # "starting" => op'.trigger \in ToSet(branch')
    BY <1>2 DEF LaneTypeOK
  <2> QED BY <1>2, <2>1, <2>2, <2>3 DEF LaneTypeOK
<1>5. LeafInv' BY <1>2 DEF Control, LeafInv
<1>6. DriveInv' BY <1>2, <1>3 DEF Control, DriveInv, Position, Summarizing, JobsAt
<1>7. GateInv' BY <1>2, <1>3 DEF Control, GateInv
<1>8. BatchInv'
  <2>1. op'.calls = op.calls /\ op'.at = op.at BY <1>2
  <2> QED BY <1>2, <1>3, <2>1 DEF Control, BatchInv, Completed, Calls
<1> QED BY <1>4, <1>5, <1>6, <1>7, <1>8 DEF Control

LEMMA CrashControl ==
  ASSUME Control, Crash
  PROVE  Control'
<1>1. /\ crashes' = crashes + 1 /\ crashes < MaxCrashes /\ drive' = Nothing /\ abort' = Nothing
      /\ UNCHANGED <<durable, runs>> /\ op' = op
  BY DEF Crash, durable
<1>2. crashes' \in 0 .. MaxCrashes BY <1>1, BoundsAssumption DEF Control, LaneTypeOK
<1>3. LaneTypeOK' BY <1>1, <1>2 DEF Control, LaneTypeOK, durable
<1>4. LeafInv' BY <1>1 DEF Control, LeafInv, durable
<1>5. DriveInv' /\ GateInv' BY <1>1 DEF DriveInv, GateInv
<1>6. BatchInv' BY <1>1, BatchStays
<1> QED BY <1>3, <1>4, <1>5, <1>6 DEF Control

(* Placements.                                                             *)
LEMMA ReadPlacementControl ==
  ASSUME Control, ReadPlacement
  PROVE  Control' /\ drive'.jobs = drive.jobs /\ drive' # Nothing /\ drive # Nothing
<1>1. /\ Live("tools") /\ op.at = "tools" /\ ReadyPrefix # {}
      /\ drive' = [drive EXCEPT !.place = ReadyPrefix]
      /\ UNCHANGED <<durable, runs, crashes>> /\ abort' = abort /\ op' = op
  BY DEF ReadPlacement, Executing, Local, durable
<1>2. /\ LaneTypeOK /\ drive \in Drives /\ drive # Nothing /\ op # Nothing /\ drive.step = "tools"
      /\ Calls = 1 .. Len(op.calls) /\ Len(op.calls) \in Nat /\ Calls \subseteq Positions
  BY <1>1, Tooling
<1>3. ReadyPrefix \subseteq 0 .. Len(op.calls) /\ ReadyPrefix \subseteq Positions
  BY <1>2 DEF ReadyPrefix
<1>4. PICK b \in ReadyPrefix : \A k \in ReadyPrefix : k <= b
  BY <1>1, <1>2, <1>3, GreatestBelow
<1>5. PICK c \in 0 .. Len(op.calls) : Completed(c) BY <1>1, <1>2 DEF Control, BatchInv
<1>6. b \in Calls /\ op.calls[b] = "outcome_ready"
      /\ \A j \in 1 .. b : op.calls[j] \in {"completed", "outcome_ready"}
  BY <1>4 DEF ReadyPrefix
<1>7. b \in Nat /\ c \in Nat /\ c < b BY <1>2, <1>5, <1>6 DEF Completed
<1>8. ReadyPrefix = c + 1 .. b
  <2>1. ASSUME NEW k \in ReadyPrefix PROVE k \in c + 1 .. b
    <3>1. k \in Calls /\ op.calls[k] = "outcome_ready" BY DEF ReadyPrefix
    <3> QED BY <1>2, <1>4, <1>5, <1>7, <3>1 DEF Completed
  <2>2. ASSUME NEW k \in c + 1 .. b PROVE k \in ReadyPrefix
    <3>1. k \in Calls /\ k > c /\ k \in 1 .. b BY <1>2, <1>6, <1>7
    <3>2. op.calls[k] # "completed" BY <1>5, <1>7, <3>1 DEF Completed
    <3>3. \A j \in 1 .. k : j \in 1 .. b BY <1>7, <3>1
    <3> QED BY <1>6, <3>1, <3>2, <3>3 DEF ReadyPrefix
  <2> QED BY <2>1, <2>2
<1>9. /\ drive' \in Drives /\ drive'.id = drive.id /\ drive'.gate = drive.gate
      /\ drive'.step = drive.step /\ drive'.jobs = drive.jobs /\ drive'.place = ReadyPrefix
  BY <1>1, <1>2, <1>3 DEF Drives
<1>10. drive' # Nothing BY <1>9, IdsAssumption
<1>11. DriveInv' BY <1>1, <1>2, <1>9 DEF Control, DriveInv, Position, Summarizing, JobsAt
<1>12. GateInv' BY <1>1, <1>2, <1>9, <1>10 DEF Control, GateInv
<1>13. BatchInv'
  <2>1. \A k \in ReadyPrefix : op.calls[k] = "outcome_ready" BY DEF ReadyPrefix
  <2>2. Completed(c)' BY <1>1, <1>5 DEF Completed, Calls
  <2>3. b \in 0 .. Len(op.calls) BY <1>3
  <2> QED BY <1>1, <1>2, <1>5, <1>7, <1>8, <1>9, <2>1, <2>2, <2>3 DEF BatchInv
<1>14. abort' \in Aborts \cup {Nothing} BY <1>1, <1>2 DEF LaneTypeOK
<1> QED BY <1>1, <1>2, <1>9, <1>10, <1>11, <1>12, <1>13, <1>14, LocalControl

(* The results c + 1 .. b become entries.                                  *)
Placing(c, b, placed, calls) ==
  /\ c < b /\ Completed(c) /\ \A k \in c + 1 .. b : op.calls[k] = "outcome_ready"
  /\ Extends(branch', branch, placed) /\ pending' = pending \ ToSet(placed)
  /\ Len(placed) = b - c /\ \A i \in 1 .. b - c : placed[i] = Id(c + i)
  /\ ToSet(placed) = {Id(k) : k \in c + 1 .. b} /\ IsInjective(placed)
  /\ Last(placed) \in ToSet(placed)
  /\ Len(calls) = Len(op.calls) /\ DOMAIN calls = Calls
  /\ \A k \in Calls : calls[k] = IF k \in c + 1 .. b THEN "completed" ELSE op.calls[k]
  /\ \/ /\ b = Len(op.calls)
        /\ op' = [op EXCEPT !.at = "checkpoint", !.calls = <<>>, !.ends = {},
                            !.may = op.ends = Calls, !.used = FALSE, !.trigger = Last(placed)]
        /\ owned' = [owned EXCEPT !.args = {}]
     \/ /\ b < Len(op.calls)
        /\ op' = [op EXCEPT !.calls = calls] /\ owned' = owned

LEMMA PlacedResults ==
  ASSUME NEW c \in Nat, NEW b \in Nat, c < b, NEW placed \in Seq(Entries), Len(placed) = b - c,
         \A i \in 1 .. b - c : placed[i] = Id(c + i)
  PROVE  /\ ToSet(placed) = {Id(k) : k \in c + 1 .. b} /\ IsInjective(placed)
         /\ Last(placed) \in ToSet(placed)
<1> DEFINE n == b - c
<1>1. n \in Nat /\ n > 0 /\ Len(placed) = n /\ placed # <<>> OBVIOUS
<1>2. \A i \in 1 .. n : c + i \in c + 1 .. b OBVIOUS
<1>3. \A k \in c + 1 .. b : k - c \in 1 .. n /\ c + (k - c) = k OBVIOUS
<1>4. \A i, j \in 1 .. n : c + i = c + j => i = j OBVIOUS
<1>5. \A i \in 1 .. n : placed[i] = Id(c + i) OBVIOUS
<1> HIDE DEF n
<1>6. ToSet(placed) = {Id(k) : k \in c + 1 .. b}
  <2>1. ASSUME NEW x \in ToSet(placed) PROVE x \in {Id(k) : k \in c + 1 .. b}
    <3>1. PICK i \in 1 .. n : placed[i] = x BY <1>1, ElementsAre
    <3> QED BY <1>2, <1>5, <3>1
  <2>2. ASSUME NEW k \in c + 1 .. b PROVE Id(k) \in ToSet(placed)
    <3>1. placed[k - c] = Id(k) BY <1>3, <1>5
    <3> QED BY <1>3, <1>1, <3>1, ElementsAre
  <2> QED BY <2>1, <2>2
<1>7. IsInjective(placed)
  <2>1. ASSUME NEW i \in 1 .. n, NEW j \in 1 .. n, placed[i] = placed[j] PROVE i = j
    <3>1. Id(c + i) = Id(c + j) BY <1>5, <2>1
    <3>2. c + i = c + j BY <3>1, IdsDiffer DEF Id
    <3> QED BY <1>4, <3>2
  <2>2. DOMAIN placed = 1 .. n BY <1>1
  <2> QED BY <2>1, <2>2 DEF IsInjective
<1> QED BY <1>1, <1>6, <1>7, ElementsAre

LEMMA CommitPlaces ==
  ASSUME Control, CommitPlacement
  PROVE  /\ \E c, b \in 0 .. Len(op.calls) : \E placed \in Seq(Entries), calls \in Seq(CallStates) :
              Placing(c, b, placed, calls)
         /\ Live("tools") /\ op.at = "tools" /\ drive' = [drive EXCEPT !.place = {}]
         /\ UNCHANGED <<inbox, results, minted, asked, taken, runs, abort, crashes>>
<1>1. /\ Live("tools") /\ op.at = "tools" /\ drive.place # {}
      /\ drive' = [drive EXCEPT !.place = {}]
      /\ UNCHANGED <<inbox, results, minted, asked, taken, runs, abort, crashes>>
  BY DEF CommitPlacement, Executing
<1>2. /\ LaneTypeOK /\ drive \in Drives /\ drive # Nothing /\ op # Nothing
      /\ Calls = 1 .. Len(op.calls) /\ Len(op.calls) \in Nat /\ op \in Operations
      /\ \A k \in Calls : op.calls[k] \in CallStates
      /\ \A k \in Calls : Id(k) \in Entries
  BY <1>1, Tooling
<1>3. PICK c, b \in 0 .. Len(op.calls) :
        /\ c < b /\ Completed(c) /\ drive.place = c + 1 .. b
        /\ \A k \in drive.place : op.calls[k] = "outcome_ready"
  BY <1>1, <1>2 DEF Control, BatchInv
<1>4. c \in Nat /\ b \in Nat /\ c + 1 \in Nat /\ c + 1 .. b \subseteq Calls BY <1>2, <1>3
<1>5. Cardinality(drive.place) = b - c
  <2>1. Cardinality(c + 1 .. b) = b - (c + 1) + 1 BY <1>3, <1>4, FS_Interval
  <2> QED BY <1>3, <1>4, <2>1
<1> DEFINE low == CHOOSE j \in drive.place : \A i \in drive.place : j <= i
           placed == [i \in 1 .. b - c |-> Id(c + i)]
           calls == [k \in Calls |-> IF k \in drive.place THEN "completed" ELSE op.calls[k]]
<1>6. low = c + 1
  <2>1. c + 1 \in drive.place /\ \A i \in drive.place : c + 1 <= i BY <1>3, <1>4
  <2>2. low \in drive.place /\ \A i \in drive.place : low <= i BY <2>1
  <2> QED BY <1>3, <1>4, <2>1, <2>2
<1>7. [k \in 1 .. Cardinality(drive.place) |-> Id(k - 1 + low)] = placed
  <2> HIDE DEF low
  <2>1. \A k \in 1 .. b - c : k - 1 + low = c + k BY <1>4, <1>6
  <2> QED BY <1>5, <2>1
<1>8. /\ branch' = branch \o placed /\ pending' = pending \ ToSet(placed)
      /\ IF \A k \in Calls : calls[k] = "completed"
         THEN /\ op' = [op EXCEPT !.at = "checkpoint", !.calls = <<>>, !.ends = {},
                                  !.may = op.ends = Calls, !.used = FALSE,
                                  !.trigger = Last(placed)]
              /\ owned' = [owned EXCEPT !.args = {}]
         ELSE op' = [op EXCEPT !.calls = calls] /\ owned' = owned
  BY <1>7 DEF CommitPlacement
<1>9. \A k \in Calls : calls[k] = IF k \in c + 1 .. b THEN "completed" ELSE op.calls[k] BY <1>3
<1>10. calls \in Seq(CallStates) /\ Len(calls) = Len(op.calls) /\ DOMAIN calls = Calls
  BY <1>2 DEF CallStates
<1> HIDE DEF calls, low
<1>11. (\A k \in Calls : calls[k] = "completed") <=> b = Len(op.calls)
  <2>1. CASE b = Len(op.calls) BY <1>2, <1>3, <1>4, <1>9, <2>1 DEF Completed
  <2>2. CASE b # Len(op.calls)
    <3>1. b + 1 \in Calls /\ b + 1 \notin c + 1 .. b /\ b + 1 > c BY <1>2, <1>3, <1>4, <2>2
    <3>2. calls[b + 1] # "completed"
      <4>1. op.calls[b + 1] # "completed" BY <1>3, <1>4, <3>1 DEF Completed
      <4> QED BY <1>9, <3>1, <4>1
    <3> QED BY <2>2, <3>1, <3>2
  <2> QED BY <2>1, <2>2
<1>12. \A k \in c + 1 .. b : Id(k) \in Entries BY <1>2, <1>4
<1>13. /\ placed \in Seq(Entries) /\ Len(placed) = b - c
       /\ \A i \in 1 .. b - c : placed[i] = Id(c + i)
       /\ ToSet(placed) = {Id(k) : k \in c + 1 .. b} /\ IsInjective(placed)
       /\ Last(placed) \in ToSet(placed)
  <2> DEFINE n == b - c
  <2>1. n \in Nat /\ \A i \in 1 .. n : c + i \in c + 1 .. b BY <1>3, <1>4
  <2>2. placed = [i \in 1 .. n |-> Id(c + i)] OBVIOUS
  <2> HIDE DEF n, placed
  <2>3. placed \in Seq(Entries) /\ Len(placed) = n /\ \A i \in 1 .. n : placed[i] = Id(c + i)
    BY <1>12, <2>1, <2>2
  <2> QED BY <1>3, <1>4, <2>3, PlacedResults DEF n
<1> HIDE DEF placed
<1>14. Extends(branch', branch, placed) BY <1>8 DEF Extends
<1>15. b = Len(op.calls) \/ b < Len(op.calls) BY <1>2, <1>3, <1>4
<1>16. Placing(c, b, placed, calls)
  BY <1>3, <1>8, <1>9, <1>10, <1>11, <1>13, <1>14, <1>15 DEF Placing
<1> QED BY <1>1, <1>3, <1>10, <1>13, <1>16

LEMMA CommitFields ==
  ASSUME Control, CommitPlacement, NEW c \in 0 .. Len(op.calls), NEW b \in 0 .. Len(op.calls),
         NEW placed \in Seq(Entries), NEW calls \in Seq(CallStates), Placing(c, b, placed, calls)
  PROVE  /\ branch' \in Seq(Entries) /\ ToSet(branch') = ToSet(branch) \cup ToSet(placed)
         /\ Len(branch') = Len(branch) + (b - c)
         /\ \A j \in 1 .. Len(branch) : branch'[j] = branch[j]
         /\ \A i \in 1 .. b - c : branch'[Len(branch) + i] = Id(c + i)
         /\ op' \in Operations /\ op' # Nothing /\ op'.id = op.id /\ op'.cancelled = op.cancelled
         /\ op'.reserved = op.reserved /\ op'.trigger \in ToSet(branch')
         /\ \/ b = Len(op.calls) /\ op'.at = "checkpoint" /\ op'.calls = <<>>
            \/ b < Len(op.calls) /\ op'.at = "tools" /\ op'.calls = calls
         /\ drive' \in Drives /\ drive' # Nothing /\ drive'.id = drive.id
         /\ drive'.gate = drive.gate /\ drive'.step = "tools" /\ drive'.place = {}
         /\ drive'.jobs = drive.jobs
<1>1. /\ Live("tools") /\ op.at = "tools" /\ drive' = [drive EXCEPT !.place = {}]
  BY CommitPlaces
<1>2. /\ LaneTypeOK /\ drive \in Drives /\ drive # Nothing /\ op # Nothing /\ op \in Operations
      /\ drive.step = "tools" /\ Len(op.calls) \in Nat /\ Calls = 1 .. Len(op.calls)
  BY <1>1, Tooling
<1>3. branch \in Seq(Entries) /\ Len(branch) \in Nat BY <1>2, Types
<1>4. branch' = branch \o placed /\ Len(placed) = b - c /\ Last(placed) \in ToSet(placed)
      /\ \A i \in 1 .. b - c : placed[i] = Id(c + i)
  BY DEF Placing, Extends
<1>5. /\ branch' \in Seq(Entries) /\ ToSet(branch') = ToSet(branch) \cup ToSet(placed)
      /\ Len(branch') = Len(branch) + Len(placed)
      /\ \A j \in 1 .. Len(branch) : branch'[j] = branch[j]
      /\ \A i \in 1 .. Len(placed) : branch'[Len(branch) + i] = placed[i]
  <2> DEFINE w == branch \o placed
  <2>1. /\ w \in Seq(Entries) /\ ToSet(w) = ToSet(branch) \cup ToSet(placed)
        /\ Len(w) = Len(branch) + Len(placed)
        /\ \A j \in 1 .. Len(branch) : w[j] = branch[j]
        /\ \A i \in 1 .. Len(placed) : w[Len(branch) + i] = placed[i]
    BY <1>3, ConcatElements
  <2>2. branch' = w BY <1>4
  <2> HIDE DEF w
  <2> QED BY <2>1, <2>2
<1>6. /\ drive' \in Drives /\ drive'.id = drive.id /\ drive'.gate = drive.gate
      /\ drive'.step = "tools" /\ drive'.place = {} /\ drive'.jobs = drive.jobs
  BY <1>1, <1>2 DEF Drives
<1>7. drive' # Nothing BY <1>6, IdsAssumption
<1>8. /\ op' \in Operations /\ op'.id = op.id /\ op'.cancelled = op.cancelled
      /\ op'.reserved = op.reserved /\ op'.trigger \in ToSet(branch')
      /\ \/ b = Len(op.calls) /\ op'.at = "checkpoint" /\ op'.calls = <<>>
         \/ b < Len(op.calls) /\ op'.at = "tools" /\ op'.calls = calls
  <2> DEFINE t == Last(placed)
             p == <<>>
  <2>1. t \in Entries /\ t \in ToSet(branch') BY <1>4, <1>5, ElementsAre
  <2>2. p \in Seq(CallStates) /\ (op.ends = Calls) \in BOOLEAN /\ {} \in SUBSET Positions OBVIOUS
  <2>3. CASE /\ b = Len(op.calls)
             /\ op' = [op EXCEPT !.at = "checkpoint", !.calls = p, !.ends = {},
                                 !.may = op.ends = Calls, !.used = FALSE, !.trigger = t]
    <3> HIDE DEF t, p
    <3>1. /\ op' \in Operations /\ op'.id = op.id /\ op'.cancelled = op.cancelled
          /\ op'.reserved = op.reserved /\ op'.trigger = t /\ op'.at = "checkpoint"
          /\ op'.calls = p
      BY <1>2, <2>1, <2>2, <2>3 DEF Operations, Leaves, CallStates
    <3> QED BY <2>1, <2>3, <3>1 DEF p
  <2>4. CASE b < Len(op.calls) /\ op' = [op EXCEPT !.calls = calls]
    <3>1. /\ op' \in Operations /\ op'.id = op.id /\ op'.cancelled = op.cancelled
          /\ op'.reserved = op.reserved /\ op'.trigger = op.trigger /\ op'.at = op.at
          /\ op'.calls = calls
      BY <1>2, <2>4 DEF Operations, CallStates
    <3>2. op.trigger \in ToSet(branch) BY <1>1, <1>2 DEF LaneTypeOK
    <3> QED BY <1>1, <1>5, <2>4, <3>1, <3>2
  <2> QED BY <2>3, <2>4 DEF Placing
<1>9. op' # Nothing BY <1>8, IdsAssumption
<1> QED BY <1>4, <1>5, <1>6, <1>7, <1>8, <1>9

LEMMA CommitPlacementControl ==
  ASSUME Control, CommitPlacement
  PROVE  Control'
<1>1. /\ Live("tools") /\ op.at = "tools"
      /\ UNCHANGED <<inbox, results, minted, asked, taken, runs, abort, crashes>>
  BY CommitPlaces
<1>2. PICK c, b \in 0 .. Len(op.calls) : \E placed \in Seq(Entries), calls \in Seq(CallStates) :
         Placing(c, b, placed, calls)
  BY CommitPlaces
<1>3. PICK placed \in Seq(Entries), calls \in Seq(CallStates) : Placing(c, b, placed, calls)
  BY <1>2
<1>4. /\ branch' \in Seq(Entries)
      /\ op' \in Operations /\ op' # Nothing /\ op'.id = op.id /\ op'.cancelled = op.cancelled
      /\ op'.reserved = op.reserved /\ op'.trigger \in ToSet(branch')
      /\ \/ b = Len(op.calls) /\ op'.at = "checkpoint" /\ op'.calls = <<>>
         \/ b < Len(op.calls) /\ op'.at = "tools" /\ op'.calls = calls
      /\ drive' \in Drives /\ drive' # Nothing /\ drive'.id = drive.id
      /\ drive'.gate = drive.gate /\ drive'.step = "tools" /\ drive'.place = {}
      /\ drive'.jobs = drive.jobs
  BY <1>3, CommitFields
<1>5. /\ LaneTypeOK /\ drive # Nothing /\ op # Nothing /\ op.id = drive.id /\ JobsAt(drive, op)
      /\ Calls = 1 .. Len(op.calls) /\ Len(op.calls) \in Nat /\ Len(op.calls) <= MaxCalls
      /\ op.calls # <<>> /\ op.reserved \in 1 .. MaxMinted /\ op.reserved <= minted
      /\ abort # Nothing => abort.drive
  BY <1>1, Tooling
<1>6. /\ c < b /\ Completed(c) /\ \A k \in c + 1 .. b : op.calls[k] = "outcome_ready"
      /\ Len(calls) = Len(op.calls) /\ DOMAIN calls = Calls
      /\ \A k \in Calls : calls[k] = IF k \in c + 1 .. b THEN "completed" ELSE op.calls[k]
      /\ pending' \subseteq pending
      /\ owned' = owned \/ owned' = [owned EXCEPT !.args = {}]
  BY <1>3 DEF Placing
<1>7. c \in Nat /\ b \in Nat /\ Len(op.calls) # 0 BY <1>2, <1>5, <1>6
<1>8. LaneTypeOK'
  <2>1. owned' \in [args : SUBSET Entries, outputs : SUBSET Entries, frames : SUBSET Entries]
    BY <1>5, <1>6 DEF LaneTypeOK
  <2>2. /\ op'.reserved <= minted' /\ Len(op'.calls) <= MaxCalls
        /\ op'.at \in Waits => op'.attempt > 1
        /\ (op'.calls # <<>>) <=> (op'.at = "tools")
    <3>1. calls # <<>> BY <1>6, <1>7
    <3>2. Len(op'.calls) <= MaxCalls BY <1>4, <1>5, <1>6, BoundsAssumption
    <3> QED BY <1>1, <1>4, <1>5, <3>1, <3>2 DEF Waits
  <2> QED BY <1>1, <1>4, <1>5, <1>6, <2>1, <2>2 DEF LaneTypeOK
<1>9. LeafInv' BY <1>1, <1>4, <1>5 DEF Control, LeafInv, Awaits
<1>10. DriveInv'
  <2>1. Position(drive', op') BY <1>4, <1>5 DEF Position, Summarizing
  <2>2. ASSUME NEW k \in Positions, drive'.jobs[k] # "idle"
        PROVE  /\ op'.at = "tools" /\ k \in DOMAIN op'.calls
               /\ \/ op'.calls[k] = "effect_pending"
                  \/ op'.calls[k] = "planned" /\ drive'.jobs[k] = "refused"
    <3>1. /\ k \in Calls
          /\ \/ op.calls[k] = "effect_pending"
             \/ op.calls[k] = "planned" /\ drive.jobs[k] = "refused"
      BY <1>4, <1>5, <2>2 DEF JobsAt, Calls
    <3>2. k \notin c + 1 .. b /\ ~(k <= c) BY <1>6, <1>7, <3>1 DEF Completed
    <3>3. b < Len(op.calls) BY <1>5, <1>7, <3>1, <3>2
    <3> QED BY <1>4, <1>5, <1>6, <3>1, <3>2, <3>3
  <2>3. JobsAt(drive', op') BY <1>4, <2>2 DEF JobsAt
  <2> QED BY <2>1, <2>3 DEF DriveInv
<1>11. GateInv' BY <1>1, <1>4, <1>5 DEF Control, GateInv
<1>12. BatchInv'
  <2>1. CASE b < Len(op.calls) /\ op'.at = "tools" /\ op'.calls = calls
    <3>1. ASSUME NEW k \in Calls PROVE calls[k] = "completed" <=> k <= b
      BY <1>5, <1>6, <1>7 DEF Completed
    <3>2. Completed(b)' BY <1>6, <2>1, <3>1 DEF Completed, Calls
    <3>3. b \in 0 .. Len(op'.calls) BY <1>6, <2>1
    <3> QED BY <1>4, <3>2, <3>3 DEF BatchInv
  <2>2. CASE op'.at = "checkpoint" BY <1>4, <2>2 DEF BatchInv
  <2> QED BY <1>4, <2>1, <2>2
<1> QED BY <1>8, <1>9, <1>10, <1>11, <1>12 DEF Control

-----------------------------------------------------------------------------
(* Every step is one of the following; a quiet one changes nothing durable *)
(* and neither drops a running job of the open batch nor clears one.       *)
Quiet ==
  /\ UNCHANGED <<durable, runs, crashes>>
  /\ op.at = "tools" => \A k \in Positions : JobOf(k) = "running" => JobOf(k)' = "running"
  /\ \A k \in Positions : JobOf(k)' = "cleared" => JobOf(k) = "cleared"

LEMMA StepQuiet ==
  ASSUME drive \in Drives, drive # Nothing, NEW step \in Steps, drive' = Stepped(drive, step),
         UNCHANGED <<durable, runs, crashes>>,
         op.at # "tools" \/ drive.jobs = NoJobs
  PROVE  Quiet
<1>1. drive' \in Drives /\ drive'.jobs = NoJobs BY SteppedFields
<1>2. drive' # Nothing BY <1>1, IdsAssumption
<1>3. \A k \in Positions : NoJobs[k] = "idle" BY DEF NoJobs
<1> QED BY <1>1, <1>2, <1>3 DEF Quiet, JobOf

LEMMA FinishesQuiet ==
  ASSUME Control, Finishes
  PROVE  Quiet
<1>1. PICK place : drive' = [drive EXCEPT !.step = "finishing", !.plan = place] BY DEF Finishes
<1>2. drive.jobs = NoJobs /\ drive # Nothing /\ drive \in Drives
  BY OutsideFacts DEF Finishes, Outside
<1>3. drive'.jobs = drive.jobs BY <1>1, <1>2 DEF Drives
<1>4. \A k \in Positions : JobOf(k)' = "idle" /\ JobOf(k) = "idle"
  BY <1>2, <1>3 DEF JobOf, NoJobs
<1> QED BY <1>4 DEF Quiet, Finishes

LEMMA JobQuiet ==
  ASSUME drive \in Drives, drive # Nothing, NEW k \in Positions, Job(k, "refused"),
         drive.jobs[k] # "running", UNCHANGED <<durable, runs, crashes>>
  PROVE  Quiet
<1>1. /\ drive' # Nothing /\ drive'.jobs[k] = "refused"
      /\ \A j \in Positions : j # k => drive'.jobs[j] = drive.jobs[j]
  BY JobFields DEF JobStates
<1> QED BY <1>1 DEF Quiet, JobOf

LEMMA QuietSteps ==
  ASSUME Control,
         \/ Claim \/ Stale \/ DriveEnds \/ Request \/ StartWait \/ BeginTools \/ ReadPlacement
         \/ EndTools \/ RequestAbort \/ AbortMismatch
         \/ SummaryRequestIntent \/ SummaryRequest \/ SummaryAnswer
         \/ \E k \in Positions : Refuse(k) \/ NotExecuted(k)
  PROVE  Quiet
<1>1. \A k \in Positions : NoJobs[k] = "idle" BY DEF NoJobs
<1>2. CASE Claim
  <2>1. /\ drive = Nothing /\ (drive' = Nothing \/ drive'.jobs = NoJobs)
        /\ UNCHANGED <<durable, runs, crashes>>
    BY <1>2 DEF Claim
  <2> QED BY <1>1, <2>1 DEF Quiet, JobOf
<1>3. CASE Stale
  <2>1. PICK step \in {"finishing", "requesting", "timer", "summarizing", "asking", "answered"} :
          Standing(step)
    BY <1>3 DEF Stale
  <2>2. drive \in Drives /\ drive # Nothing /\ drive.jobs = NoJobs BY <2>1, Acting
  <2>3. drive' = Stepped(drive, "dispatch") /\ "dispatch" \in Steps BY <1>3, StaleControl DEF Steps
  <2> QED BY <1>3, <2>2, <2>3, StepQuiet DEF Stale, Local
<1>4. CASE DriveEnds
  <2>1. /\ drive' = Nothing /\ drive # Nothing /\ drive.step # "tools"
        /\ UNCHANGED <<durable, runs, crashes>>
    BY <1>4 DEF DriveEnds, Standing
  <2>2. drive.jobs = NoJobs BY <2>1 DEF Control, DriveInv, JobsAt
  <2> QED BY <1>1, <2>1, <2>2 DEF Quiet, JobOf
<1>5. CASE Request
  <2>1. Standing("requesting") /\ UNCHANGED <<durable, runs, crashes>>
    BY <1>5 DEF Request, Live, Local
  <2>2. drive \in Drives /\ drive # Nothing /\ drive.jobs = NoJobs BY <2>1, Acting
  <2>3. drive' = Stepped(drive, "streaming") /\ "streaming" \in Steps
    BY <1>5, RequestControl DEF Steps
  <2> QED BY <2>1, <2>2, <2>3, StepQuiet
<1>6. CASE StartWait
  <2>1. Standing("dispatch") /\ UNCHANGED <<durable, runs, crashes>> BY <1>6 DEF StartWait, Local
  <2>2. drive \in Drives /\ drive # Nothing /\ drive.jobs = NoJobs BY <2>1, Acting
  <2>3. PICK step \in {"waiting", "timer"} : drive' = Stepped(drive, step)
    BY <1>6, StartWaitControl
  <2>4. step \in Steps BY DEF Steps
  <2> QED BY <2>1, <2>2, <2>3, <2>4, StepQuiet
<1>7. CASE BeginTools
  <2>1. /\ drive' # Nothing /\ drive'.jobs = NoJobs /\ drive # Nothing /\ drive.jobs = NoJobs
        /\ UNCHANGED <<durable, runs, crashes>>
    BY <1>7, BeginToolsControl DEF BeginTools, Local
  <2> QED BY <1>1, <2>1 DEF Quiet, JobOf
<1>8. CASE ReadPlacement
  <2>1. /\ drive' # Nothing /\ drive'.jobs = drive.jobs /\ drive # Nothing
        /\ UNCHANGED <<durable, runs, crashes>>
    BY <1>8, ReadPlacementControl DEF ReadPlacement, Local
  <2> QED BY <2>1 DEF Quiet, JobOf
<1>9. CASE EndTools
  <2>1. Standing("tools") /\ op.at # "tools" /\ UNCHANGED <<durable, runs, crashes>>
    BY <1>9 DEF EndTools, Live, Local
  <2>2. drive \in Drives /\ drive # Nothing BY <2>1, Acting
  <2>3. drive' = Stepped(drive, "dispatch") /\ "dispatch" \in Steps BY <1>9, EndToolsControl DEF Steps
  <2> QED BY <2>1, <2>2, <2>3, StepQuiet
<1>10. CASE RequestAbort
  <2>1. /\ UNCHANGED <<durable, runs, crashes>>
        /\ drive' # Nothing => drive # Nothing /\ drive'.jobs = drive.jobs
        /\ drive # Nothing => drive' # Nothing
    BY <1>10, RequestAbortControl
  <2> QED BY <2>1 DEF Quiet, JobOf
<1>11. CASE AbortMismatch
  BY <1>11 DEF AbortMismatch, Quiet, JobOf
<1>12. ASSUME NEW k \in Positions, Refuse(k) PROVE Quiet
  <2>1. /\ Live("tools") /\ op.at = "tools" /\ drive.jobs[k] = "idle" BY <1>12, TurnCall DEF Refuse
  <2>2. drive \in Drives /\ drive # Nothing BY <2>1, Tooling
  <2> QED BY <1>12, <2>1, <2>2, JobQuiet DEF Refuse, Local
<1>13. ASSUME NEW k \in Positions, NotExecuted(k) PROVE Quiet
  <2>1. /\ Live("tools") /\ op.at = "tools" /\ drive.jobs[k] = "cleared"
    BY <1>13, NotExecutedControl DEF NotExecuted
  <2>2. drive \in Drives /\ drive # Nothing BY <2>1, Tooling
  <2> QED BY <1>13, <2>1, <2>2, JobQuiet DEF NotExecuted, Local
<1>14. CASE SummaryRequestIntent \/ SummaryRequest \/ SummaryAnswer
  <2>1. /\ drive \in Drives /\ drive # Nothing /\ drive.jobs = NoJobs
        /\ UNCHANGED <<durable, runs, crashes>>
    BY <1>14, SummaryStepsControl
  <2>2. PICK step \in {"asking", "answering", "answered"} : drive' = Stepped(drive, step)
    BY <1>14, SummaryStepsControl
  <2>3. step \in Steps BY DEF Steps
  <2> QED BY <2>1, <2>2, <2>3, StepQuiet
<1> QED BY <1>2, <1>3, <1>4, <1>5, <1>6, <1>7, <1>8, <1>9, <1>10, <1>11, <1>12, <1>13, <1>14

(* The shapes of a step.                                                   *)
Shapes ==
  \/ Onward \/ Ended \/ (\E count \in Positions : Enters(count)) \/ Quiet
  \/ \E i \in Items : Enqueue(i) \/ AppendIdle(i) \/ CancelQueued(i)
  \/ \E r \in Runs : Accept(r, <<Prompt(r)>>) \/ Accept(r, <<>>)
  \/ Frame \/ CommitPlacement \/ AbortCommits \/ Crash
  \/ \E k \in Positions :
       \/ ToolIntent(k) \/ Replay(k) \/ Execute(k) \/ ToolCheckpoint(k)
       \/ \E terminate \in BOOLEAN : PublishOutcome(k, terminate)

(* A step that publishes what the Drive has decided.                       *)
LEMMA DriveShapes ==
  ASSUME Control,
         \/ \E b \in BOOLEAN : StartRun(b) \/ RunCheckpoint(b) \/ FinishBoundary(b)
         \/ ConfigurationFails \/ GenerationIntent
         \/ \E answer \in Answers \ {"tools"} : Respond(answer, 0)
         \/ \E count \in Positions : Respond("tools", count)
         \/ RecoverGeneration \/ WaitEnds
         \/ \E choice \in {"decline", "hook", "make"} : DecideSummary(choice)
         \/ SummaryIntent \/ RecoverSummary \/ SummaryModelGone
         \/ \E outcome \in {"made", "retryable", "error"} : SummaryResult(outcome)
         \/ Reconcile
  PROVE  Onward \/ Ended \/ Finishes \/ \E count \in Positions : Enters(count)
<1>1. ASSUME NEW b \in BOOLEAN, StartRun(b) \/ RunCheckpoint(b) \/ FinishBoundary(b)
      PROVE  Onward \/ Ended \/ Finishes
  BY <1>1, StartRunMoves, RunCheckpointMoves, FinishBoundaryMoves
<1>2. ASSUME NEW answer \in Answers \ {"tools"}, Respond(answer, 0)
      PROVE  Onward \/ Ended
  BY <1>2, RespondMoves
<1>3. ASSUME NEW count \in Positions, Respond("tools", count)
      PROVE  Onward \/ Ended \/ Enters(count)
  <2>1. "tools" \in Answers BY DEF Answers
  <2> QED BY <1>3, <2>1, RespondMoves
<1>4. ASSUME NEW choice \in {"decline", "hook", "make"}, DecideSummary(choice)
      PROVE  Onward \/ Ended \/ Finishes
  BY <1>4, DecideSummaryMoves
<1>5. ASSUME NEW outcome \in {"made", "retryable", "error"}, SummaryResult(outcome)
      PROVE  Onward \/ Ended \/ Finishes
  BY <1>5, SummaryResultMoves
<1> QED BY <1>1, <1>2, <1>3, <1>4, <1>5, ConfigurationFailsMoves, GenerationIntentMoves,
          RecoverGenerationMoves, WaitEndsMoves, SummaryIntentMoves, RecoverSummaryMoves,
          SummaryModelGoneMoves, ReconcileMoves

LEMMA StepShapes ==
  ASSUME Control, Next
  PROVE  Shapes
<1>1. CASE Onward \/ Ended \/ Finishes \/ \E count \in Positions : Enters(count)
  BY <1>1, FinishesQuiet DEF Shapes
<1>2. CASE Quiet BY <1>2 DEF Shapes
<1> QED BY <1>1, <1>2, DriveShapes, QuietSteps DEF Next, Shapes, ToolStep

LEMMA NextControl ==
  ASSUME Control, Next
  PROVE  Control'
<1>1. CASE Onward \/ Ended \/ Finishes \/ \E count \in Positions : Enters(count)
  BY <1>1, OnwardControl, EndedControl, FinishesControl, EntersControl
<1>2. ASSUME NEW i \in Items, Enqueue(i) \/ AppendIdle(i) \/ CancelQueued(i) PROVE Control'
  BY <1>2, EnqueueControl, AppendIdleControl, CancelQueuedControl
<1>3. ASSUME NEW r \in Runs, Accept(r, <<Prompt(r)>>) \/ Accept(r, <<>>) PROVE Control'
  <2> DEFINE p == <<Prompt(r)>>
             q == <<>>
  <2>1. p \in {<<Prompt(r)>>, <<>>} /\ q \in {<<Prompt(r)>>, <<>>} OBVIOUS
  <2>2. Accept(r, p) \/ Accept(r, q) BY <1>3
  <2> HIDE DEF p, q
  <2> QED BY <2>1, <2>2, AcceptControl
<1>4. ASSUME NEW k \in Positions, ToolStep(k) PROVE Control'
  BY <1>4, RefuseControl, ToolIntentControl, ReplayControl, ExecuteControl, NotExecutedControl,
     ToolCheckpointControl, PublishOutcomeControl DEF ToolStep
<1>5. CASE Claim \/ Stale \/ DriveEnds \/ Request \/ StartWait \/ BeginTools \/ ReadPlacement
           \/ EndTools \/ RequestAbort \/ AbortMismatch \/ Frame \/ CommitPlacement
           \/ AbortCommits \/ Crash
           \/ SummaryRequestIntent \/ SummaryRequest \/ SummaryAnswer
  BY <1>5, SummaryStepsControl, ClaimControl, StaleControl, DriveEndsControl, RequestControl, StartWaitControl,
     BeginToolsControl, ReadPlacementControl, EndToolsControl, RequestAbortControl,
     AbortMismatchControl, FrameControl, CommitPlacementControl, AbortCommitsControl,
     CrashControl
<1> QED BY <1>1, <1>2, <1>3, <1>4, <1>5, DriveShapes DEF Next

LEMMA StutterControl ==
  ASSUME Control, UNCHANGED vars
  PROVE  Control'
<1>1. UNCHANGED <<branch, op, inbox, pending, owned, results, minted, asked, taken, runs, drive,
                  abort, crashes>>
  BY DEF vars, durable
<1> QED BY <1>1 DEF Control, LaneTypeOK, LeafInv, DriveInv, GateInv, BatchInv, Completed, Calls

LEMMA InitControl == Init => Control
<1> SUFFICES ASSUME Init PROVE Control OBVIOUS
<1> DEFINE e == <<>>
<1>1. e \in Seq(Entries) /\ e \in Seq(Items) OBVIOUS
<1>2. branch = e /\ inbox = e BY DEF Init
<1> HIDE DEF e
<1>3. branch \in Seq(Entries) /\ inbox \in Seq(Items) BY <1>1, <1>2
<1>4. LaneTypeOK
  <2>1. owned \in [args : SUBSET Entries, outputs : SUBSET Entries, frames : SUBSET Entries]
    BY DEF Init, NoValues
  <2>2. asked \in [1 .. MaxMinted -> 0 .. MaxCalls] BY BoundsAssumption DEF Init
  <2>3. runs \in [(1 .. MaxMinted) \X Positions -> Nat]
    <3>1. runs = [x \in (1 .. MaxMinted) \X Positions |-> 0] BY DEF Init, NoRuns
    <3> DEFINE D == (1 .. MaxMinted) \X Positions
    <3>2. runs = [x \in D |-> 0] BY <3>1
    <3> HIDE DEF D
    <3>3. runs \in [D -> Nat] BY <3>2
    <3> QED BY <3>3 DEF D
  <2>4. results \in [Runs -> {"none", "completed", "failed", "aborted"}] BY DEF Init
  <2>5. /\ minted \in 0 .. MaxMinted /\ crashes \in 0 .. MaxCrashes /\ op = Nothing
        /\ drive = Nothing /\ abort = Nothing /\ pending = {} /\ taken = {}
    BY BoundsAssumption DEF Init
  <2> QED BY <1>3, <2>1, <2>2, <2>3, <2>4, <2>5 DEF LaneTypeOK
<1>5. LeafInv /\ DriveInv /\ GateInv /\ BatchInv
  BY DEF Init, LeafInv, DriveInv, GateInv, BatchInv
<1> QED BY <1>4, <1>5 DEF Control

(* What a Drive believes of the durable leaf it steps over is true.        *)
THEOREM LaneControl == Spec => []Control
<1>1. Control /\ [Next]_vars => Control' BY NextControl, StutterControl
<1> QED BY <1>1, InitControl, PTL DEF Spec

(* What each leaf of an operation says of itself, whatever the Drive was   *)
(* doing when the process died or the run was cancelled.                   *)
THEOREM LaneTypes == Spec => []LaneTypeOK
<1>1. Control => LaneTypeOK BY DEF Control
<1> QED BY <1>1, LaneControl, PTL

-----------------------------------------------------------------------------
(* What a step may never do.                                               *)
LEMMA ResultsChange ==
  ASSUME Control, Next, results' # results
  PROVE  Ended
<1>1. Shapes BY StepShapes
<1>2. UNCHANGED results \/ Ended
  BY <1>1 DEF Shapes, Onward, Enters, Quiet, durable, Enqueue, AppendIdle, CancelQueued, Accept,
     Frame, CommitPlacement, AbortCommits, Crash, ToolIntent, Replay, Execute, ToolCheckpoint,
     PublishOutcome, NoTransfer
<1> QED BY <1>2

(* A run ends once: with "aborted" exactly when its cancellation was       *)
(* durable before, whatever the Drive was doing when the cancellation      *)
(* arrived.                                                                *)
THEOREM CancelledRunsEndAborted == Spec => CancellationDecidesTheEnd
<1> DEFINE A == \A r \in Runs : results'[r] # results[r] =>
                   /\ results[r] = "none" /\ op # Nothing /\ op.id = r
                   /\ (results'[r] = "aborted") <=> op.cancelled
<1>1. ASSUME Control, [Next]_vars PROVE A
  <2> SUFFICES ASSUME NEW r \in Runs, results'[r] # results[r]
               PROVE  /\ results[r] = "none" /\ op # Nothing /\ op.id = r
                      /\ (results'[r] = "aborted") <=> op.cancelled
    OBVIOUS
  <2>1. Next BY <1>1 DEF vars, durable
  <2>2. Ended BY <1>1, <2>1, ResultsChange
  <2>3. PICK status \in {"completed", "failed", "aborted"} :
          Settle(status) /\ (status = "aborted" <=> op.cancelled)
    BY <2>2 DEF Ended
  <2>4. op # Nothing /\ op.id \in Runs /\ results[op.id] = "none" /\ LaneTypeOK
    BY <1>1, <2>2, OutsideFacts DEF Ended
  <2>5. results' = [results EXCEPT ![op.id] = status] BY <2>3 DEF Settle
  <2>6. results \in [Runs -> {"none", "completed", "failed", "aborted"}] BY <2>4 DEF LaneTypeOK
  <2>7. r = op.id /\ results'[r] = status BY <2>4, <2>5, <2>6
  <2> QED BY <2>3, <2>4, <2>7
<1>2. Control /\ [Next]_vars => [A]_vars BY <1>1
<1> HIDE DEF A
<1>3. Spec => [][A]_vars BY <1>2, LaneControl, PTL DEF Spec
<1> QED BY <1>3 DEF CancellationDecidesTheEnd, A

LEMMA EffectStarts ==
  ASSUME Control, Next, runs' # runs
  PROVE  \E k \in Positions : Execute(k)
<1>1. Shapes BY StepShapes
<1>2. UNCHANGED runs \/ \E k \in Positions : Execute(k)
  BY <1>1 DEF Shapes, Onward, Ended, Adds, Enters, Quiet, Enqueue, AppendIdle, CancelQueued, Accept,
     Frame, CommitPlacement, AbortCommits, Crash, ToolIntent, Replay, ToolCheckpoint,
     PublishOutcome
<1> QED BY <1>2

Requests ==
  \/ Standing("requesting") /\ Standing("streaming")'
  \/ Standing("asking") /\ Standing("answering")'

LEMMA RequestStarts ==
  ASSUME Control, Next, Requests
  PROVE  Request \/ SummaryRequest
<1>1. /\ drive # Nothing /\ drive' # Nothing
      /\ \/ drive.step = "requesting" /\ drive'.step = "streaming"
         \/ drive.step = "asking" /\ drive'.step = "answering"
  BY DEF Requests, Standing
<1>2. ~Onward
  <2>1. Onward => Outside /\ Moves /\ op' \in Operations /\ op'.id = op.id BY DEF Onward, Turned
  <2>2. Outside /\ Moves /\ op' \in Operations /\ op'.id = op.id =>
          /\ drive'.step \notin {"asking", "answering"}
          /\ Standing("requesting") => ~Standing("streaming")'
    BY MovesDrive
  <2> QED BY <2>1, <2>2 DEF Requests, Standing
<1>3. drive \in Drives BY <1>1, Types DEF Control
<1>4. ~(Ended \/ Finishes \/ \E count \in Positions : Enters(count))
  <2>1. "settled" \in Steps /\ "dispatch" \in Steps BY DEF Steps
  <2>2. \A step \in Steps : Stepped(drive, step).step = step BY <1>3, SteppedFields
  <2>3. Ended => drive' = Stepped(drive, "settled") BY DEF Ended, Settle, Step, Stepped
  <2>4. \A count \in Positions : Enters(count) => drive' = Stepped(drive, "dispatch") BY DEF Enters
  <2>5. ~Finishes BY <1>1 DEF Finishes
  <2> QED BY <1>1, <2>1, <2>2, <2>3, <2>4, <2>5
<1>5. ~(Stale \/ DriveEnds \/ Claim \/ EndTools \/ StartWait \/ BeginTools \/ ReadPlacement
        \/ CommitPlacement \/ Crash)
  <2>1. "dispatch" \in Steps BY DEF Steps
  <2>2. Stale => drive'.step = "dispatch" BY <1>3, <2>1, StaleControl, SteppedFields
  <2>3. ~(DriveEnds \/ Claim \/ EndTools \/ StartWait \/ BeginTools \/ ReadPlacement
          \/ CommitPlacement \/ Crash)
    BY <1>1 DEF DriveEnds, Claim, EndTools, StartWait, BeginTools, ReadPlacement,
       CommitPlacement, Crash, Executing, Live, Standing
  <2> QED BY <1>1, <2>2, <2>3
<1>6. ~(RequestAbort \/ AbortMismatch \/ AbortCommits)
  <2>1. RequestAbort => drive'.step = drive.step BY <1>1, RequestAbortControl
  <2>2. AbortMismatch => drive'.step = drive.step BY DEF AbortMismatch
  <2>3. AbortCommits => drive'.step = drive.step BY <1>1, AbortCommitsFields
  <2> QED BY <1>1, <2>1, <2>2, <2>3
<1>7. ~(SummaryRequestIntent \/ SummaryAnswer)
  <2>1. "asking" \in Steps BY DEF Steps
  <2>2. SummaryRequestIntent => drive'.step = "asking"
    <3>1. SummaryRequestIntent => drive' = Stepped(drive, "asking")
      BY DEF SummaryRequestIntent, Step, Stepped
    <3> QED BY <1>3, <2>1, <3>1, SteppedFields
  <2>3. ~SummaryAnswer BY <1>1 DEF SummaryAnswer, Live, Standing
  <2> QED BY <1>1, <2>2, <2>3
<1>8. ASSUME NEW k \in Positions PROVE ~ToolStep(k)
  BY <1>1 DEF ToolStep, Refuse, Turn, ToolIntent, Replay, Execute, NotExecuted, ToolCheckpoint,
     PublishOutcome, Executing, Live, Standing
<1>9. ASSUME NEW i \in Items PROVE ~(Enqueue(i) \/ AppendIdle(i) \/ CancelQueued(i))
  BY <1>1 DEF Enqueue, AppendIdle, CancelQueued
<1>10. ASSUME NEW r \in Runs PROVE ~(Accept(r, <<Prompt(r)>>) \/ Accept(r, <<>>))
  BY <1>1 DEF Accept
<1>11. ~Frame BY <1>1 DEF Frame
<1> QED BY <1>2, <1>4, <1>5, <1>6, <1>7, <1>8, <1>9, <1>10, <1>11, DriveShapes DEF Next

(* No tool effect and no request to the model, for a reply or for a        *)
(* summary, starts once the cancellation is durable, also when the abort   *)
(* was asked for before there was a Drive.                                 *)
THEOREM CancelledStartsNothing == Spec => NothingStartsCancelled
<1>1. ASSUME Control, [Next]_vars PROVE Starts => ~op.cancelled
  <2>1. GateInv BY <1>1 DEF Control
  <2>2. CASE runs' # runs
    <3>1. Next BY <1>1, <2>2 DEF vars
    <3>2. PICK k \in Positions : Execute(k) BY <1>1, <2>2, <3>1, EffectStarts
    <3>3. Live("tools") /\ drive.jobs[k] = "cleared" /\ drive.gate = "open" BY <3>2 DEF Execute
    <3>4. drive # Nothing /\ op # Nothing /\ op.id = drive.id BY <1>1, <3>3, Acting DEF Live
    <3> QED BY <2>1, <3>3, <3>4 DEF GateInv
  <2>3. CASE Requests
    <3>1. Next BY <1>1, <2>3 DEF vars, Requests, Standing
    <3>2. Request \/ SummaryRequest BY <1>1, <2>3, <3>1, RequestStarts
    <3>3. PICK step \in {"requesting", "asking"} : Standing(step) /\ drive.gate = "open"
      BY <3>2 DEF Request, SummaryRequest, Live
    <3>4. drive # Nothing /\ op # Nothing /\ op.id = drive.id /\ drive.step = step
      BY <1>1, <3>3, Acting
    <3> QED BY <2>1, <3>3, <3>4 DEF GateInv
  <2> QED BY <2>2, <2>3 DEF Starts, Requests
<1>2. Control /\ [Next]_vars => [Starts => ~op.cancelled]_vars BY <1>1
<1>3. Spec => [][Starts => ~op.cancelled]_vars BY <1>2, LaneControl, PTL DEF Spec
<1> QED BY <1>3 DEF NothingStartsCancelled

-----------------------------------------------------------------------------
(* How often an effect was started.                                        *)
LEMMA RunsAre ==
  ASSUME LaneTypeOK
  PROVE  /\ crashes \in Nat
         /\ \A n \in 1 .. MaxMinted, k \in Positions : runs[<<n, k>>] \in Nat
BY BoundsAssumption DEF LaneTypeOK

(* A step that starts no effect, and opens no batch.                       *)
LEMMA RunsKept ==
  ASSUME Control, RunsInv, runs' = runs, crashes' = crashes, minted' \in Nat, minted' >= minted,
         op' # Nothing /\ op'.at \in Awaits =>
           \/ op # Nothing /\ op.at \in Awaits /\ op'.reserved = op.reserved
           \/ op'.reserved = minted + 1,
         op' # Nothing => op'.at # "tools"
  PROVE  RunsInv'
<1>1. minted \in Nat /\ MaxMinted \in Nat BY Types DEF Control
<1>2. EffectsAreNotRepeated' BY DEF RunsInv, EffectsAreNotRepeated
<1>3. ASSUME NEW n \in 1 .. MaxMinted, NEW k \in Positions, runs'[<<n, k>>] > 0
      PROVE  n <= minted' /\ (op' # Nothing /\ op'.reserved = n => op'.at \notin Awaits)
  <2>1. n <= minted /\ (op # Nothing /\ op.reserved = n => op.at \notin Awaits)
    BY <1>3 DEF RunsInv
  <2> QED BY <1>1, <2>1
<1> QED BY <1>2, <1>3 DEF RunsInv

(* A step inside the batch that starts no effect: a call leaves its state  *)
(* only for a later one.                                                   *)
LEMMA BatchRunsKept ==
  ASSUME Control, RunsInv, runs' = runs, crashes' = crashes, minted' = minted,
         op # Nothing, op' # Nothing, op'.at = op.at, op'.reserved = op.reserved,
         DOMAIN op'.calls = DOMAIN op.calls,
         op.at = "tools" => \A k \in Calls :
           /\ op'.calls[k] = "planned" => op.calls[k] = "planned"
           /\ op'.calls[k] = "effect_pending" =>
                \/ op.calls[k] = "planned"
                \/ /\ op.calls[k] = "effect_pending"
                   /\ JobOf(k) = "running" => JobOf(k)' = "running"
                   /\ JobOf(k)' = "cleared" => JobOf(k) = "cleared" \/ k \in Safe
  PROVE  RunsInv'
<1>1. EffectsAreNotRepeated' BY DEF RunsInv, EffectsAreNotRepeated
<1>2. \A n \in 1 .. MaxMinted, k \in Positions : runs'[<<n, k>>] > 0 =>
        n <= minted' /\ (op' # Nothing /\ op'.reserved = n => op'.at \notin Awaits)
  BY DEF RunsInv
<1>3. ASSUME op'.at = "tools", NEW k \in DOMAIN op'.calls
      PROVE  /\ op'.calls[k] = "planned" => runs[<<op.reserved, k>>] = 0
             /\ op'.calls[k] = "effect_pending" =>
                  IF k \in Safe
                  THEN JobOf(k)' # "running" => runs[<<op.reserved, k>>] <= crashes
                  ELSE JobOf(k)' = "cleared" => runs[<<op.reserved, k>>] = 0
  <2>1. k \in Calls /\ op.at = "tools" /\ crashes \in Nat BY <1>3, RunsAre DEF Calls, Control
  <2>2. /\ op.calls[k] = "planned" => runs[<<op.reserved, k>>] = 0
        /\ op.calls[k] = "effect_pending" =>
             IF k \in Safe
             THEN JobOf(k) # "running" => runs[<<op.reserved, k>>] <= crashes
             ELSE JobOf(k) = "cleared" => runs[<<op.reserved, k>>] = 0
    BY <2>1 DEF RunsInv
  <2>3. 0 <= crashes BY <2>1
  <2> HIDE DEF JobOf
  <2> QED BY <2>1, <2>2, <2>3
<1>4. op' # Nothing /\ op'.at = "tools" =>
        \A k \in DOMAIN op'.calls :
          /\ op'.calls[k] = "planned" => runs'[<<op'.reserved, k>>] = 0
          /\ op'.calls[k] = "effect_pending" =>
               IF k \in Safe
               THEN JobOf(k)' # "running" => runs'[<<op'.reserved, k>>] <= crashes'
               ELSE JobOf(k)' = "cleared" => runs'[<<op'.reserved, k>>] = 0
  BY <1>3
<1> QED BY <1>1, <1>2, <1>4 DEF RunsInv, Calls

LEMMA EntersRuns ==
  ASSUME Control, RunsInv, NEW count \in Positions, Enters(count)
  PROVE  RunsInv'
<1>1. /\ op # Nothing /\ op \in Operations /\ op.at \in Awaits /\ op.reserved >= 1
      /\ op' \in Operations /\ op'.at = "tools" /\ op'.reserved = op.reserved
      /\ op'.calls = [k \in 1 .. count |-> "planned"]
      /\ UNCHANGED <<runs, minted, crashes>>
  BY IdsAssumption DEF Enters, Outside, Awaits
<1>2. LaneTypeOK /\ op.reserved \in 1 .. MaxMinted BY <1>1, OperationFields DEF Control
<1>3. EffectsAreNotRepeated' BY <1>1 DEF RunsInv, EffectsAreNotRepeated
<1>4. \A n \in 1 .. MaxMinted, k \in Positions : runs[<<n, k>>] > 0 =>
        n <= minted /\ op.reserved # n
  BY <1>1 DEF RunsInv
<1>5. \A n \in 1 .. MaxMinted, k \in Positions : runs'[<<n, k>>] > 0 =>
        n <= minted' /\ (op' # Nothing /\ op'.reserved = n => op'.at \notin Awaits)
  BY <1>1, <1>4
<1>6. 1 .. count \subseteq Positions BY BoundsAssumption DEF Positions
<1>7. ASSUME NEW k \in 1 .. count PROVE runs[<<op.reserved, k>>] = 0
  BY <1>2, <1>4, <1>6, RunsAre
<1>8. DOMAIN op'.calls = 1 .. count /\ \A k \in 1 .. count : op'.calls[k] = "planned" BY <1>1
<1> QED BY <1>1, <1>3, <1>5, <1>7, <1>8 DEF RunsInv, Calls

LEMMA ExecuteRuns ==
  ASSUME Control, RunsInv, NEW k \in Positions, Execute(k)
  PROVE  RunsInv'
<1>1. /\ op.at = "tools" /\ k \in Calls /\ op.calls[k] = "effect_pending"
      /\ op.reserved \in 1 .. MaxMinted
  BY ExecuteControl
<1>2. /\ Live("tools") /\ drive.jobs[k] = "cleared" /\ Job(k, "running")
      /\ runs' = [runs EXCEPT ![<<op.reserved, k>>] = @ + 1]
      /\ op' = op /\ minted' = minted /\ crashes' = crashes
  BY DEF Execute, durable
<1>3. /\ LaneTypeOK /\ drive \in Drives /\ drive # Nothing /\ op # Nothing
      /\ Calls \subseteq Positions /\ op.reserved <= minted
  BY <1>1, <1>2, Tooling
<1>4. /\ drive' # Nothing /\ drive'.jobs[k] = "running"
      /\ \A j \in Positions : j # k => drive'.jobs[j] = drive.jobs[j]
  BY <1>2, <1>3, JobFields DEF JobStates
<1>5. /\ JobOf(k) = "cleared" /\ JobOf(k)' = "running"
      /\ \A j \in Positions : j # k => JobOf(j)' = JobOf(j)
  BY <1>2, <1>3, <1>4 DEF JobOf
<1>6. runs[<<op.reserved, k>>] \in Nat /\ crashes \in Nat BY <1>1, <1>3, RunsAre
<1>7. runs[<<op.reserved, k>>] <= IF k \in Safe THEN crashes ELSE 0
  BY <1>1, <1>3, <1>5, <1>6 DEF RunsInv
<1>8. ASSUME NEW n \in 1 .. MaxMinted, NEW j \in Positions
      PROVE  runs'[<<n, j>>] = IF n = op.reserved /\ j = k THEN runs[<<n, j>>] + 1 ELSE runs[<<n, j>>]
  <2> DEFINE D == (1 .. MaxMinted) \X Positions
             c == <<op.reserved, k>>
             e == <<n, j>>
  <2>1. runs \in [D -> Nat] BY <1>3 DEF LaneTypeOK
  <2>2. c \in D /\ e \in D /\ (e = c <=> n = op.reserved /\ j = k) BY <1>1
  <2>3. runs' = [runs EXCEPT ![c] = runs[c] + 1] BY <1>2
  <2> HIDE DEF c, e, D
  <2>4. runs'[e] = IF e = c THEN runs[e] + 1 ELSE runs[e] BY <2>1, <2>2, <2>3
  <2> QED BY <2>2, <2>4 DEF e
<1>9. ASSUME NEW n \in 1 .. MaxMinted, NEW j \in Positions
      PROVE  runs'[<<n, j>>] <= IF j \in Safe THEN 1 + crashes ELSE 1
  <2>1. runs[<<n, j>>] <= IF j \in Safe THEN 1 + crashes ELSE 1
    BY DEF RunsInv, EffectsAreNotRepeated
  <2>2. CASE n = op.reserved /\ j = k BY <1>6, <1>7, <1>8, <2>2
  <2>3. CASE ~(n = op.reserved /\ j = k) BY <1>8, <2>1, <2>3
  <2> QED BY <2>2, <2>3
<1>10. EffectsAreNotRepeated' BY <1>2, <1>9 DEF EffectsAreNotRepeated
<1>11. ASSUME NEW n \in 1 .. MaxMinted, NEW j \in Positions, runs'[<<n, j>>] > 0
       PROVE  n <= minted' /\ (op' # Nothing /\ op'.reserved = n => op'.at \notin Awaits)
  <2>1. CASE n = op.reserved BY <1>1, <1>2, <1>3, <2>1 DEF Awaits
  <2>2. CASE n # op.reserved
    <3>1. runs[<<n, j>>] > 0 BY <1>8, <1>11, <2>2
    <3> QED BY <1>2, <2>2, <3>1 DEF RunsInv
  <2> QED BY <2>1, <2>2
<1>12. ASSUME NEW j \in Calls
       PROVE  /\ op.calls[j] = "planned" => runs'[<<op.reserved, j>>] = 0
              /\ op.calls[j] = "effect_pending" =>
                  IF j \in Safe
                  THEN JobOf(j)' # "running" => runs'[<<op.reserved, j>>] <= crashes
                  ELSE JobOf(j)' = "cleared" => runs'[<<op.reserved, j>>] = 0
  <2>1. CASE j = k BY <1>1, <1>5, <2>1
  <2>2. CASE j # k
    <3>1. j \in Positions BY <1>3
    <3>2. runs'[<<op.reserved, j>>] = runs[<<op.reserved, j>>] /\ JobOf(j)' = JobOf(j)
      BY <1>1, <1>5, <1>8, <2>2, <3>1
    <3> QED BY <1>1, <1>3, <3>2 DEF RunsInv
  <2> QED BY <2>1, <2>2
<1> QED BY <1>2, <1>10, <1>11, <1>12 DEF RunsInv, Calls

LEMMA CommitRuns ==
  ASSUME Control, RunsInv, CommitPlacement
  PROVE  RunsInv'
<1>1. /\ Live("tools") /\ op.at = "tools" /\ UNCHANGED <<minted, runs, crashes>> BY CommitPlaces
<1>2. PICK c, b \in 0 .. Len(op.calls) : \E placed \in Seq(Entries), calls \in Seq(CallStates) :
         Placing(c, b, placed, calls)
  BY CommitPlaces
<1>3. PICK placed \in Seq(Entries), calls \in Seq(CallStates) : Placing(c, b, placed, calls)
  BY <1>2
<1>4. /\ op' # Nothing /\ op'.reserved = op.reserved
      /\ op'.at = "checkpoint" \/ (op'.at = "tools" /\ op'.calls = calls)
      /\ drive' # Nothing /\ drive'.jobs = drive.jobs
  BY <1>3, CommitFields
<1>5. /\ op # Nothing /\ drive # Nothing /\ minted \in Nat BY <1>1, Tooling, Types
<1>6. DOMAIN calls = Calls
      /\ \A k \in Calls : calls[k] = IF k \in c + 1 .. b THEN "completed" ELSE op.calls[k]
  BY <1>3 DEF Placing
<1>7. \A k : JobOf(k)' = JobOf(k) BY <1>4, <1>5 DEF JobOf
<1>8. CASE op'.at = "checkpoint" BY <1>1, <1>4, <1>5, <1>8, RunsKept DEF Awaits
<1>9. CASE op'.at = "tools" /\ op'.calls = calls
  <2>1. \A k \in Calls :
          /\ op'.calls[k] = "planned" => op.calls[k] = "planned"
          /\ op'.calls[k] = "effect_pending" => op.calls[k] = "effect_pending"
    BY <1>6, <1>9
  <2> QED BY <1>1, <1>4, <1>5, <1>6, <1>7, <1>9, <2>1, BatchRunsKept DEF Calls
<1> QED BY <1>4, <1>8, <1>9

LEMMA CrashRuns ==
  ASSUME Control, RunsInv, Crash
  PROVE  RunsInv'
<1>1. /\ crashes' = crashes + 1 /\ drive' = Nothing /\ op' = op /\ runs' = runs /\ minted' = minted
  BY DEF Crash, durable
<1>2. LaneTypeOK /\ crashes \in Nat BY RunsAre DEF Control
<1>3. \A n \in 1 .. MaxMinted, k \in Positions : runs[<<n, k>>] \in Nat BY <1>2, RunsAre
<1>4. EffectsAreNotRepeated'
  <2>1. ASSUME NEW n \in 1 .. MaxMinted, NEW k \in Positions
        PROVE  runs'[<<n, k>>] <= IF k \in Safe THEN 1 + crashes' ELSE 1
    <3>1. runs[<<n, k>>] <= IF k \in Safe THEN 1 + crashes ELSE 1
      BY DEF RunsInv, EffectsAreNotRepeated
    <3> QED BY <1>1, <1>2, <1>3, <3>1
  <2> QED BY <2>1 DEF EffectsAreNotRepeated
<1>5. ASSUME op # Nothing, op.at = "tools", NEW k \in Calls
      PROVE  /\ op.calls[k] = "planned" => runs[<<op.reserved, k>>] = 0
             /\ op.calls[k] = "effect_pending" =>
                  IF k \in Safe THEN runs[<<op.reserved, k>>] <= crashes' ELSE TRUE
  <2>1. op \in Operations /\ op.reserved \in 1 .. MaxMinted
    BY <1>2, <1>5, Types, OperationFields DEF Control, LeafInv
  <2>2. k \in Positions
    <3>1. Len(op.calls) <= MaxCalls /\ Calls = 1 .. Len(op.calls) /\ Len(op.calls) \in Nat
      BY <1>2, <1>5, <2>1, OperationFields DEF LaneTypeOK, Calls
    <3> QED BY <3>1, BoundsAssumption DEF Positions
  <2>3. k \in Safe => runs[<<op.reserved, k>>] <= 1 + crashes
    BY <2>1, <2>2 DEF RunsInv, EffectsAreNotRepeated
  <2> QED BY <1>1, <1>2, <1>5, <2>3 DEF RunsInv
<1>6. \A k \in Positions : JobOf(k)' = "idle" BY <1>1 DEF JobOf
<1>7. \A k \in Calls : JobOf(k)' # "cleared" BY <1>1 DEF JobOf
<1> QED BY <1>1, <1>4, <1>5, <1>7 DEF RunsInv, Calls

LEMMA ToolRuns ==
  ASSUME Control, RunsInv, NEW k \in Positions,
         \/ ToolIntent(k) \/ Replay(k) \/ ToolCheckpoint(k)
         \/ \E terminate \in BOOLEAN : PublishOutcome(k, terminate)
  PROVE  RunsInv'
<1>1. /\ Live("tools") /\ op.at = "tools" /\ UNCHANGED <<minted, runs, crashes>>
  BY TurnCall DEF ToolIntent, Replay, ToolCheckpoint, PublishOutcome, Executing, NoTransfer
<1>2. /\ drive \in Drives /\ drive # Nothing /\ op # Nothing /\ op \in Operations
      /\ Calls \subseteq Positions
  BY <1>1, Tooling
<1>3. ASSUME NEW j \in JobStates, Job(k, j)
      PROVE  JobOf(k)' = j /\ \A i \in Positions : i # k => JobOf(i)' = JobOf(i)
  BY <1>2, <1>3, JobFields DEF JobOf
<1>4. CASE ToolIntent(k)
  <2>1. k \in Calls /\ op' = [op EXCEPT !.calls[k] = "effect_pending"] /\ Job(k, "cleared")
        /\ op.calls[k] = "planned"
    BY <1>4, TurnCall DEF ToolIntent
  <2>2. CallTo(k, "effect_pending") BY <1>2, <2>1, CallChanges DEF Calls, CallStates
  <2>3. \A i \in Positions : i # k => JobOf(i)' = JobOf(i) BY <1>3, <2>1 DEF JobStates
  <2>4. /\ op' # Nothing /\ op'.at = op.at /\ op'.reserved = op.reserved
        /\ DOMAIN op'.calls = DOMAIN op.calls
        /\ op'.calls[k] = "effect_pending"
        /\ \A i \in Calls : i # k => op'.calls[i] = op.calls[i]
    BY <2>2, IdsAssumption DEF CallTo, Calls
  <2>5. \A i \in Calls :
          /\ op'.calls[i] = "planned" => op.calls[i] = "planned"
          /\ op'.calls[i] = "effect_pending" =>
               op.calls[i] = "planned"
               \/ (op.calls[i] = "effect_pending" /\ JobOf(i)' = JobOf(i))
    BY <1>2, <2>1, <2>3, <2>4
  <2> QED BY <1>1, <1>2, <2>4, <2>5, BatchRunsKept
<1>5. CASE Replay(k)
  <2>1. k \in Calls /\ op' = op /\ Job(k, "cleared") /\ k \in Safe /\ drive.jobs[k] = "idle"
    BY <1>5, TurnCall DEF Replay
  <2>2. \A i \in Positions : i # k => JobOf(i)' = JobOf(i) BY <1>3, <2>1 DEF JobStates
  <2>3. JobOf(k) # "running" BY <1>2, <2>1 DEF JobOf
  <2>4. \A i \in Calls :
          /\ JobOf(i) = "running" => JobOf(i)' = "running"
          /\ JobOf(i)' = "cleared" => JobOf(i) = "cleared" \/ i \in Safe
    BY <1>2, <2>1, <2>2, <2>3
  <2>5. \A i \in Calls : op.calls[i] = "effect_pending" \/ op.calls[i] = "planned"
                         \/ op.calls[i] \notin {"planned", "effect_pending"}
    OBVIOUS
  <2> QED BY <1>1, <1>2, <2>1, <2>4, <2>5, BatchRunsKept
<1>6. CASE ToolCheckpoint(k)
  <2>1. op' = op /\ drive' = drive BY <1>6 DEF ToolCheckpoint
  <2>2. \A i : JobOf(i)' = JobOf(i) BY <2>1 DEF JobOf
  <2> QED BY <1>1, <1>2, <2>1, <2>2, BatchRunsKept
<1>7. ASSUME NEW terminate \in BOOLEAN, PublishOutcome(k, terminate)
      PROVE  RunsInv'
  <2>1. k \in Calls /\ CallTo(k, "outcome_ready") BY <1>7, PublishOutcomeControl
  <2>2. Job(k, "idle") BY <1>7 DEF PublishOutcome
  <2>3. \A i \in Positions : i # k => JobOf(i)' = JobOf(i) BY <1>3, <2>2 DEF JobStates
  <2>4. /\ op' # Nothing /\ op'.at = op.at /\ op'.reserved = op.reserved
        /\ DOMAIN op'.calls = DOMAIN op.calls
        /\ op'.calls[k] = "outcome_ready"
        /\ \A i \in Calls : i # k => op'.calls[i] = op.calls[i]
    BY <2>1, IdsAssumption DEF CallTo, Calls
  <2>5. \A i \in Calls :
          /\ op'.calls[i] = "planned" => op.calls[i] = "planned"
          /\ op'.calls[i] = "effect_pending" =>
               op.calls[i] = "effect_pending" /\ JobOf(i)' = JobOf(i)
    BY <1>2, <2>3, <2>4
  <2> QED BY <1>1, <1>2, <2>4, <2>5, BatchRunsKept
<1> QED BY <1>4, <1>5, <1>6, <1>7

LEMMA NextRunsInv ==
  ASSUME Control, RunsInv, Next
  PROVE  RunsInv'
<1>1. Shapes BY StepShapes
<1>2. minted \in Nat BY Types DEF Control
<1>3. CASE Onward
  <2>1. /\ Outside /\ Adds /\ Turned BY <1>3 DEF Onward
  <2>2. /\ runs' = runs /\ crashes' = crashes /\ minted' \in Nat /\ minted' >= minted
    BY <2>1, AddsTypes, BoundsAssumption DEF Adds
  <2>3. op # Nothing BY <2>1, OutsideFacts
  <2> QED BY <2>1, <2>2, <2>3, RunsKept DEF Turned
<1>4. CASE Ended
  <2>1. /\ Outside /\ Adds /\ op' = Nothing BY <1>4 DEF Ended, Settle
  <2>2. /\ runs' = runs /\ crashes' = crashes /\ minted' \in Nat /\ minted' >= minted
    BY <2>1, AddsTypes, BoundsAssumption DEF Adds
  <2> QED BY <2>1, <2>2, RunsKept
<1>5. CASE Quiet
  <2>1. /\ op' = op /\ runs' = runs /\ crashes' = crashes /\ minted' = minted
    BY <1>5 DEF Quiet, durable
  <2>2. CASE op # Nothing
    <3>1. op.at = "tools" => Calls \subseteq Positions
      <4>1. op \in Operations /\ Len(op.calls) <= MaxCalls BY <2>2, Types DEF Control, LaneTypeOK
      <4>2. Calls = 1 .. Len(op.calls) /\ Len(op.calls) \in Nat
        BY <4>1, OperationFields DEF Calls
      <4> QED BY <4>1, <4>2, BoundsAssumption DEF Positions
    <3>2. op.at = "tools" => \A k \in Calls :
            /\ JobOf(k) = "running" => JobOf(k)' = "running"
            /\ JobOf(k)' = "cleared" => JobOf(k) = "cleared"
      BY <1>5, <3>1 DEF Quiet
    <3> QED BY <2>1, <2>2, <3>2, BatchRunsKept
  <2>3. CASE op = Nothing BY <1>2, <2>1, <2>3, RunsKept
  <2> QED BY <2>2, <2>3
<1>6. ASSUME UNCHANGED <<op, runs, minted, crashes, drive>> PROVE RunsInv'
  BY <1>6 DEF RunsInv, EffectsAreNotRepeated, JobOf, Calls
<1>7. ASSUME NEW i \in Items, Enqueue(i) \/ AppendIdle(i) \/ CancelQueued(i) PROVE RunsInv'
  BY <1>6, <1>7 DEF Enqueue, AppendIdle, CancelQueued
<1>8. ASSUME NEW r \in Runs, Accept(r, <<Prompt(r)>>) \/ Accept(r, <<>>) PROVE RunsInv'
  <2>1. op' = Started(r) /\ UNCHANGED <<runs, minted, crashes>> BY <1>8 DEF Accept
  <2>2. op'.at = "starting" BY <2>1, StartedFields
  <2>3. op'.at \notin Awaits /\ op'.at # "tools" /\ minted' \in Nat /\ minted' >= minted
    BY <1>2, <2>1, <2>2 DEF Awaits
  <2> QED BY <2>1, <2>3, RunsKept
<1>9. CASE Frame BY <1>6, <1>9 DEF Frame
<1>10. CASE AbortCommits
  <2>1. /\ op # Nothing /\ op' # Nothing /\ op'.at = op.at /\ op'.reserved = op.reserved
        /\ op'.calls = op.calls /\ UNCHANGED <<minted, runs, crashes>>
        /\ drive = Nothing => drive' = Nothing
        /\ drive # Nothing => drive' # Nothing /\ drive'.jobs = drive.jobs
    BY <1>10, AbortCommitsFields
  <2>2. \A k : JobOf(k)' = JobOf(k) BY <2>1 DEF JobOf
  <2> QED BY <2>1, <2>2, BatchRunsKept DEF Calls
<1> QED BY <1>1, <1>3, <1>4, <1>5, <1>7, <1>8, <1>9, <1>10, EntersRuns, CommitRuns, CrashRuns,
          ExecuteRuns, ToolRuns DEF Shapes

LEMMA InitRuns == Init => RunsInv
<1> SUFFICES ASSUME Init PROVE RunsInv OBVIOUS
<1>1. \A n \in 1 .. MaxMinted, k \in Positions : runs[<<n, k>>] = 0
  <2> DEFINE D == (1 .. MaxMinted) \X Positions
  <2>1. runs = [c \in D |-> 0] BY DEF Init, NoRuns
  <2>2. \A n \in 1 .. MaxMinted, k \in Positions : <<n, k>> \in D OBVIOUS
  <2> HIDE DEF D
  <2> QED BY <2>1, <2>2
<1>2. op = Nothing /\ crashes = 0 BY DEF Init
<1> QED BY <1>1, <1>2 DEF RunsInv, EffectsAreNotRepeated

(* The effect of a tool that may not be replayed starts at most once,      *)
(* however often the process dies; one that may starts at most once per    *)
(* process.                                                                *)
THEOREM EffectsStartOnce == Spec => []EffectsAreNotRepeated
<1>1. ASSUME Control, RunsInv, [Next]_vars PROVE RunsInv'
  <2>1. CASE Next BY <1>1, <2>1, NextRunsInv
  <2>2. CASE UNCHANGED vars
    BY <1>1, <2>2 DEF RunsInv, EffectsAreNotRepeated, JobOf, Calls, vars, durable
  <2> QED BY <1>1, <2>1, <2>2
<1>2. Control /\ RunsInv /\ [Next]_vars => RunsInv' BY <1>1
<1>3. RunsInv => EffectsAreNotRepeated BY DEF RunsInv
<1> QED BY <1>2, <1>3, InitRuns, LaneControl, PTL DEF Spec

-----------------------------------------------------------------------------
(* What an operation owns.                                                 *)
InState(states) == {Id(k) : k \in {j \in Calls : op.calls[j] \in states}}

OwnedOpen ==
  /\ InState({"effect_pending"}) \subseteq owned.args
  /\ owned.args \subseteq InState({"effect_pending", "outcome_ready", "completed"})
  /\ owned.outputs \subseteq InState({"effect_pending"})
  /\ owned.frames # {} => op.at = "assistant.effect_pending" /\ owned.frames = {Reply(op.reserved)}

LEMMA OwnedIs ==
  /\ OwnedAsNeeded <=> IF op = Nothing THEN owned = NoValues ELSE OwnedOpen
  /\ OwnedAsNeeded' <=> IF op' = Nothing THEN owned' = NoValues ELSE OwnedOpen'
BY DEF OwnedAsNeeded, OwnedOpen, InState

LEMMA InStateIs ==
  ASSUME NEW states
  PROVE  /\ \A x : x \in InState(states) <=> \E k \in Calls : op.calls[k] \in states /\ x = Id(k)
         /\ \A x : x \in InState(states)' <=> \E k \in Calls' : op'.calls[k] \in states /\ x = Id(k)'
BY DEF InState

LEMMA OwnedFields ==
  ASSUME LaneTypeOK
  PROVE  /\ owned \in [args : SUBSET Entries, outputs : SUBSET Entries, frames : SUBSET Entries]
         /\ \A x : [owned EXCEPT !.args = x].args = x
         /\ \A x : [owned EXCEPT !.outputs = x].outputs = x
         /\ \A x : [owned EXCEPT !.frames = x].frames = x
         /\ \A x : /\ [owned EXCEPT !.args = x].outputs = owned.outputs
                   /\ [owned EXCEPT !.args = x].frames = owned.frames
                   /\ [owned EXCEPT !.outputs = x].args = owned.args
                   /\ [owned EXCEPT !.outputs = x].frames = owned.frames
                   /\ [owned EXCEPT !.frames = x].args = owned.args
                   /\ [owned EXCEPT !.frames = x].outputs = owned.outputs
BY DEF LaneTypeOK

(* Before a batch is open nothing but frames is owned.                     *)
LEMMA OwnedOutside ==
  ASSUME Control, OwnedAsNeeded, Outside
  PROVE  /\ owned.args = {} /\ owned.outputs = {} /\ owned.frames \subseteq {Reply(op.reserved)}
         /\ op.at # "assistant.effect_pending" => owned.frames = {}
<1>1. op # Nothing /\ Calls = {} BY OutsideFacts, NoElements DEF Outside, Calls
<1>2. OwnedOpen BY <1>1, OwnedIs
<1> QED BY <1>1, <1>2 DEF OwnedOpen, InState

LEMMA OwnedLater ==
  ASSUME Control, OwnedAsNeeded, Outside, op' # Nothing,
         op'.calls = <<>> \/ \A k \in DOMAIN op'.calls : op'.calls[k] = "planned",
         \/ owned' = owned /\ op.at # "assistant.effect_pending"
         \/ owned' = [owned EXCEPT !.frames = @ \ {Reply(op.reserved)}]
  PROVE  OwnedAsNeeded'
<1>1. LaneTypeOK BY DEF Control
<1>2. owned'.args = {} /\ owned'.outputs = {} /\ owned'.frames = {}
  BY <1>1, OwnedOutside, OwnedFields
<1>3. InState({"effect_pending"})' = {}
  <2>1. CASE op'.calls = <<>> BY <2>1, NoElements DEF InState, Calls
  <2>2. CASE \A k \in DOMAIN op'.calls : op'.calls[k] = "planned"
    BY <2>2 DEF InState, Calls
  <2> QED BY <2>1, <2>2
<1>4. OwnedOpen' BY <1>2, <1>3 DEF OwnedOpen
<1> QED BY <1>4, OwnedIs

LEMMA OwnedUntouched ==
  ASSUME OwnedAsNeeded, owned' = owned,
         \/ op' = op
         \/ /\ op # Nothing /\ op' # Nothing /\ op'.calls = op.calls /\ op'.at = op.at
            /\ op'.reserved = op.reserved
  PROVE  OwnedAsNeeded'
<1>1. CASE op' = op BY <1>1 DEF OwnedAsNeeded, Calls, Id
<1>2. CASE /\ op # Nothing /\ op' # Nothing /\ op'.calls = op.calls /\ op'.at = op.at
           /\ op'.reserved = op.reserved
  <2>1. OwnedOpen BY <1>2, OwnedIs
  <2>2. \A s : InState(s)' = InState(s) BY <1>2 DEF InState, Calls, Id
  <2>3. OwnedOpen' BY <1>2, <2>1, <2>2 DEF OwnedOpen
  <2> QED BY <1>2, <2>3, OwnedIs
<1> QED BY <1>1, <1>2

LEMMA FrameOwned ==
  ASSUME Control, OwnedAsNeeded, Frame
  PROVE  OwnedAsNeeded'
<1>1. op.at = "assistant.effect_pending" /\ op # Nothing /\ op' = op
      /\ owned' = [owned EXCEPT !.frames = @ \cup {Reply(op.reserved)}]
  BY FrameControl DEF Frame
<1>2. OwnedOpen /\ LaneTypeOK BY <1>1, OwnedIs DEF Control
<1>3. \A s : InState(s)' = InState(s) BY <1>1 DEF InState, Calls, Id
<1>4. /\ owned'.args = owned.args /\ owned'.outputs = owned.outputs
      /\ owned'.frames = owned.frames \cup {Reply(op.reserved)}
  BY <1>1, <1>2, OwnedFields
<1>5. owned'.frames = {Reply(op.reserved)} BY <1>2, <1>4 DEF OwnedOpen
<1>6. OwnedOpen' BY <1>1, <1>2, <1>3, <1>4, <1>5 DEF OwnedOpen
<1> QED BY <1>1, <1>6, OwnedIs

(* One call of the open batch changes its state.                           *)
LEMMA CallOwned ==
  ASSUME Control, Live("tools"), op.at = "tools", NEW k \in Calls, NEW s, CallTo(k, s)
  PROVE  /\ op' # Nothing /\ op'.at = "tools" /\ \A j : Id(j)' = Id(j)
         /\ \A i, j : Id(i) = Id(j) => i = j
         /\ \A states, x : x \in InState(states)' <=>
              \E i \in Calls : (IF i = k THEN s ELSE op.calls[i]) \in states /\ x = Id(i)
<1>1. /\ op' # Nothing /\ op'.at = "tools" /\ \A j : Id(j)' = Id(j)
      /\ Calls' = Calls /\ \A i \in Calls : op'.calls[i] = IF i = k THEN s ELSE op.calls[i]
  BY IdsAssumption DEF CallTo, Id, Calls
<1>2. \A i, j : Id(i) = Id(j) => i = j BY IdsDiffer DEF Id
<1>3. ASSUME NEW states, NEW x
      PROVE  x \in InState(states)' <=>
               \E i \in Calls : (IF i = k THEN s ELSE op.calls[i]) \in states /\ x = Id(i)
  <2>1. x \in InState(states)' <=> \E i \in Calls' : op'.calls[i] \in states /\ x = Id(i)'
    BY InStateIs
  <2> QED BY <1>1, <2>1
<1> QED BY <1>1, <1>2, <1>3

LEMMA ToolOwned ==
  ASSUME Control, OwnedAsNeeded, NEW k \in Positions,
         \/ ToolIntent(k) \/ Replay(k) \/ ToolCheckpoint(k)
         \/ \E terminate \in BOOLEAN : PublishOutcome(k, terminate)
  PROVE  OwnedAsNeeded'
<1>1. /\ Live("tools") /\ op.at = "tools" /\ k \in Calls
  BY TurnCall, ToolCheckpointControl, PublishOutcomeControl
  DEF ToolIntent, Replay, PublishOutcome, Executing
<1>2. op # Nothing /\ op \in Operations /\ LaneTypeOK BY <1>1, Tooling
<1>3. OwnedOpen BY <1>2, OwnedIs
<1> DEFINE E == {"effect_pending"}
           A == {"effect_pending", "outcome_ready", "completed"}
<1>4. /\ \A x : x \in InState(E) <=> \E i \in Calls : op.calls[i] \in E /\ x = Id(i)
      /\ \A x : x \in InState(A) <=> \E i \in Calls : op.calls[i] \in A /\ x = Id(i)
  BY InStateIs
<1>5. /\ InState(E) \subseteq owned.args /\ owned.args \subseteq InState(A)
      /\ owned.outputs \subseteq InState(E) /\ owned.frames = {}
  BY <1>1, <1>3 DEF OwnedOpen
<1>6. ASSUME op' # Nothing, op'.at = "tools",
             InState(E)' \subseteq owned'.args, owned'.args \subseteq InState(A)',
             owned'.outputs \subseteq InState(E)', owned'.frames = {}
      PROVE  OwnedAsNeeded'
  <2>1. OwnedOpen' BY <1>6 DEF OwnedOpen
  <2> QED BY <1>6, <2>1, OwnedIs
<1>7. CASE ToolIntent(k)
  <2>1. /\ op' = [op EXCEPT !.calls[k] = "effect_pending"] /\ op.calls[k] = "planned"
        /\ owned' = [owned EXCEPT !.args = @ \cup {Id(k)}]
    BY <1>7 DEF ToolIntent
  <2>2. CallTo(k, "effect_pending") BY <1>1, <1>2, <2>1, CallChanges DEF Calls, CallStates
  <2>3. /\ owned'.args = owned.args \cup {Id(k)} /\ owned'.outputs = owned.outputs
        /\ owned'.frames = owned.frames
    BY <1>2, <2>1, OwnedFields
  <2>4. /\ op' # Nothing /\ op'.at = "tools"
        /\ \A x : x \in InState(E)' <=>
             \E i \in Calls : (IF i = k THEN "effect_pending" ELSE op.calls[i]) \in E /\ x = Id(i)
        /\ \A x : x \in InState(A)' <=>
             \E i \in Calls : (IF i = k THEN "effect_pending" ELSE op.calls[i]) \in A /\ x = Id(i)
    BY <1>1, <2>2, CallOwned
  <2>5. InState(E)' \subseteq owned'.args BY <1>4, <1>5, <2>3, <2>4
  <2>6. owned'.args \subseteq InState(A)' BY <1>1, <1>4, <1>5, <2>1, <2>3, <2>4
  <2>7. owned'.outputs \subseteq InState(E)' BY <1>4, <1>5, <2>1, <2>3, <2>4
  <2> QED BY <1>5, <1>6, <2>3, <2>4, <2>5, <2>6, <2>7
<1>8. CASE Replay(k)
  <2>1. /\ op' = op /\ owned' = [owned EXCEPT !.outputs = @ \ {Id(k)}] BY <1>8 DEF Replay
  <2>2. /\ owned'.args = owned.args /\ owned'.outputs = owned.outputs \ {Id(k)}
        /\ owned'.frames = owned.frames
    BY <1>2, <2>1, OwnedFields
  <2>3. \A s : InState(s)' = InState(s) BY <2>1 DEF InState, Calls, Id
  <2> QED BY <1>1, <1>2, <1>5, <1>6, <2>1, <2>2, <2>3
<1>9. CASE ToolCheckpoint(k)
  <2>1. /\ op' = op /\ owned' = [owned EXCEPT !.outputs = @ \cup {Id(k)}]
    BY <1>9 DEF ToolCheckpoint
  <2>2. op.calls[k] = "effect_pending" BY <1>9, ToolCheckpointControl
  <2>3. /\ owned'.args = owned.args /\ owned'.outputs = owned.outputs \cup {Id(k)}
        /\ owned'.frames = owned.frames
    BY <1>2, <2>1, OwnedFields
  <2>4. \A s : InState(s)' = InState(s) BY <2>1 DEF InState, Calls, Id
  <2>5. Id(k) \in InState(E) BY <1>1, <1>4, <2>2
  <2> QED BY <1>1, <1>2, <1>5, <1>6, <2>1, <2>3, <2>4, <2>5
<1>10. ASSUME NEW terminate \in BOOLEAN, PublishOutcome(k, terminate)
       PROVE  OwnedAsNeeded'
  <2>1. /\ CallTo(k, "outcome_ready") /\ op.calls[k] \in {"planned", "effect_pending"}
        /\ owned' = [owned EXCEPT !.outputs = @ \ {Id(k)}]
    BY <1>10, PublishOutcomeControl DEF PublishOutcome
  <2>2. /\ owned'.args = owned.args /\ owned'.outputs = owned.outputs \ {Id(k)}
        /\ owned'.frames = owned.frames
    BY <1>2, <2>1, OwnedFields
  <2>3. /\ op' # Nothing /\ op'.at = "tools" /\ \A i, j : Id(i) = Id(j) => i = j
        /\ \A x : x \in InState(E)' <=>
             \E i \in Calls : (IF i = k THEN "outcome_ready" ELSE op.calls[i]) \in E /\ x = Id(i)
        /\ \A x : x \in InState(A)' <=>
             \E i \in Calls : (IF i = k THEN "outcome_ready" ELSE op.calls[i]) \in A /\ x = Id(i)
    BY <1>1, <2>1, CallOwned
  <2>4. InState(E)' \subseteq owned'.args BY <1>4, <1>5, <2>2, <2>3
  <2>5. owned'.args \subseteq InState(A)' BY <1>1, <1>4, <1>5, <2>2, <2>3
  <2>6. owned'.outputs \subseteq InState(E)' BY <1>4, <1>5, <2>2, <2>3
  <2> QED BY <1>5, <1>6, <2>2, <2>3, <2>4, <2>5, <2>6
<1> QED BY <1>7, <1>8, <1>9, <1>10

LEMMA CommitOwned ==
  ASSUME Control, OwnedAsNeeded, CommitPlacement
  PROVE  OwnedAsNeeded'
<1>1. Live("tools") /\ op.at = "tools" BY CommitPlaces
<1>2. PICK c, b \in 0 .. Len(op.calls) : \E placed \in Seq(Entries), calls \in Seq(CallStates) :
         Placing(c, b, placed, calls)
  BY CommitPlaces
<1>3. PICK placed \in Seq(Entries), calls \in Seq(CallStates) : Placing(c, b, placed, calls)
  BY <1>2
<1>4. /\ op' # Nothing /\ op'.reserved = op.reserved
      /\ \/ b = Len(op.calls) /\ op'.at = "checkpoint" /\ op'.calls = <<>>
         \/ b < Len(op.calls) /\ op'.at = "tools" /\ op'.calls = calls
  BY <1>3, CommitFields
<1>5. /\ op # Nothing /\ LaneTypeOK /\ Calls = 1 .. Len(op.calls) /\ Len(op.calls) \in Nat
  BY <1>1, Tooling
<1>6. /\ c < b /\ Completed(c) /\ \A k \in c + 1 .. b : op.calls[k] = "outcome_ready"
      /\ DOMAIN calls = Calls
      /\ \A k \in Calls : calls[k] = IF k \in c + 1 .. b THEN "completed" ELSE op.calls[k]
      /\ \/ b = Len(op.calls) /\ owned' = [owned EXCEPT !.args = {}]
         \/ b < Len(op.calls) /\ owned' = owned
  BY <1>3 DEF Placing
<1>7. OwnedOpen BY <1>5, OwnedIs
<1>8. owned.frames = {} BY <1>1, <1>7 DEF OwnedOpen
<1>9. CASE b = Len(op.calls)
  <2>1. owned' = [owned EXCEPT !.args = {}] /\ op'.calls = <<>> BY <1>4, <1>5, <1>6, <1>9
  <2>2. \A k \in Calls : op.calls[k] # "effect_pending"
    BY <1>2, <1>5, <1>6, <1>9 DEF Completed
  <2>3. owned.outputs = {} BY <1>7, <2>2 DEF OwnedOpen, InState
  <2>4. owned'.args = {} /\ owned'.outputs = {} /\ owned'.frames = {}
    BY <1>5, <1>8, <2>1, <2>3, OwnedFields
  <2>5. InState({"effect_pending"})' = {} BY <2>1, NoElements DEF InState, Calls
  <2>6. OwnedOpen' BY <2>4, <2>5 DEF OwnedOpen
  <2> QED BY <1>4, <2>6, OwnedIs
<1>10. CASE b < Len(op.calls)
  <2>1. owned' = owned /\ op'.calls = calls /\ op'.at = "tools" BY <1>2, <1>4, <1>5, <1>6, <1>10
  <2>2. Calls' = Calls /\ \A k : Id(k)' = Id(k) BY <1>4, <1>6, <2>1 DEF Calls, Id
  <2>3. /\ \A k \in Calls : calls[k] = "effect_pending" <=> op.calls[k] = "effect_pending"
        /\ \A k \in Calls : calls[k] \in {"effect_pending", "outcome_ready", "completed"}
                              <=> op.calls[k] \in {"effect_pending", "outcome_ready", "completed"}
    BY <1>6
  <2>4. /\ InState({"effect_pending"})' = InState({"effect_pending"})
        /\ InState({"effect_pending", "outcome_ready", "completed"})'
             = InState({"effect_pending", "outcome_ready", "completed"})
    BY <2>1, <2>2, <2>3 DEF InState
  <2>5. OwnedOpen' BY <1>7, <1>8, <2>1, <2>4 DEF OwnedOpen
  <2> QED BY <1>4, <2>5, OwnedIs
<1> QED BY <1>4, <1>9, <1>10

LEMMA NextOwned ==
  ASSUME Control, OwnedAsNeeded, Next
  PROVE  OwnedAsNeeded'
<1>1. Shapes BY StepShapes
<1>2. CASE Onward
  <2>1. Outside /\ op' # Nothing /\ op'.calls = <<>>
    BY <1>2, IdsAssumption DEF Onward, Turned
  <2>2. \/ owned' = owned /\ op.at # "assistant.effect_pending"
        \/ owned' = [owned EXCEPT !.frames = @ \ {Reply(op.reserved)}]
    BY <1>2 DEF Onward
  <2> QED BY <2>1, <2>2, OwnedLater
<1>3. CASE Ended
  <2>1. op' = Nothing /\ owned' = NoValues BY <1>3 DEF Ended, Settle
  <2> QED BY <2>1, OwnedIs
<1>4. ASSUME NEW count \in Positions, Enters(count) PROVE OwnedAsNeeded'
  <2>1. /\ Outside /\ op' # Nothing /\ op'.calls = [k \in 1 .. count |-> "planned"]
        /\ owned' = [owned EXCEPT !.frames = @ \ {Reply(op.reserved)}]
    BY <1>4, IdsAssumption DEF Enters
  <2>2. \A k \in DOMAIN op'.calls : op'.calls[k] = "planned" BY <2>1
  <2> QED BY <2>1, <2>2, OwnedLater
<1>5. CASE Quiet
  <2>1. op' = op /\ owned' = owned BY <1>5 DEF Quiet, durable
  <2> QED BY <2>1, OwnedUntouched
<1>6. ASSUME NEW i \in Items, Enqueue(i) \/ AppendIdle(i) \/ CancelQueued(i)
      PROVE  OwnedAsNeeded'
  <2>1. op' = op /\ owned' = owned BY <1>6 DEF Enqueue, AppendIdle, CancelQueued
  <2> QED BY <2>1, OwnedUntouched
<1>7. ASSUME NEW r \in Runs, Accept(r, <<Prompt(r)>>) \/ Accept(r, <<>>) PROVE OwnedAsNeeded'
  <2>1. op = Nothing /\ op' = Started(r) /\ owned' = owned BY <1>7 DEF Accept
  <2>2. op' # Nothing /\ op'.calls = <<>> BY <2>1, StartedFields, IdsAssumption
  <2>3. owned' = NoValues BY <2>1, OwnedIs
  <2>4. InState({"effect_pending"})' = {} BY <2>2, NoElements DEF InState, Calls
  <2>5. OwnedOpen' BY <2>3, <2>4 DEF OwnedOpen, NoValues
  <2> QED BY <2>2, <2>5, OwnedIs
<1>8. CASE AbortCommits BY <1>8, AbortCommitsFields, OwnedUntouched
<1>9. CASE Crash
  <2>1. op' = op /\ owned' = owned BY <1>9 DEF Crash, durable
  <2> QED BY <2>1, OwnedUntouched
<1>10. ASSUME NEW k \in Positions, Execute(k) PROVE OwnedAsNeeded'
  <2>1. op' = op /\ owned' = owned BY <1>10 DEF Execute, durable
  <2> QED BY <2>1, OwnedUntouched
<1> QED BY <1>1, <1>2, <1>3, <1>4, <1>5, <1>6, <1>7, <1>8, <1>9, <1>10, FrameOwned, CommitOwned,
          ToolOwned DEF Shapes

(* What an operation owns goes with the state that needs it, and nothing   *)
(* is left behind by an operation that ended.                              *)
THEOREM OwnedWithItsState == Spec => []OwnedAsNeeded
<1>1. ASSUME Control, OwnedAsNeeded, [Next]_vars PROVE OwnedAsNeeded'
  <2>1. CASE Next BY <1>1, <2>1, NextOwned
  <2>2. CASE UNCHANGED vars
    <3>1. op' = op /\ owned' = owned BY <2>2 DEF vars, durable
    <3> QED BY <1>1, <3>1, OwnedUntouched
  <2> QED BY <1>1, <2>1, <2>2
<1>2. Control /\ OwnedAsNeeded /\ [Next]_vars => OwnedAsNeeded' BY <1>1
<1>3. Init => OwnedAsNeeded BY DEF Init, OwnedAsNeeded
<1> QED BY <1>2, <1>3, LaneControl, PTL DEF Spec

-----------------------------------------------------------------------------
(* Ids and payloads.                                                       *)
LEMMA StagedIs ==
  ASSUME Control
  PROVE  /\ \A x : x \in Staged <=>
              op # Nothing /\ \E k \in Calls : op.calls[k] = "outcome_ready" /\ x = Id(k)
         /\ Staged \cap Items = {}
         /\ op # Nothing /\ op.calls = <<>> => Staged = {}
<1>1. \A x : x \in Staged <=>
        op # Nothing /\ \E k \in Calls : op.calls[k] = "outcome_ready" /\ x = Id(k)
  BY DEF Staged
<1>2. op # Nothing /\ op.calls = <<>> => Staged = {} BY NoElements DEF Staged, Calls
<1>3. ASSUME NEW x \in Staged PROVE x \notin Items
  <2>1. PICK k \in Calls : op.calls[k] = "outcome_ready" /\ x = Id(k) BY <1>1
  <2>2. op # Nothing /\ op \in Operations /\ op.calls # <<>>
    <3>1. op # Nothing /\ op \in Operations BY <1>1, Types DEF Control
    <3>2. op.calls # <<>> BY <2>1, NoElements DEF Calls
    <3> QED BY <3>1, <3>2
  <2>3. op.at = "tools" /\ Len(op.calls) <= MaxCalls BY <2>2 DEF Control, LaneTypeOK
  <2>4. op.reserved \in 1 .. MaxMinted BY <2>2, <2>3, OperationFields DEF Control, LeafInv
  <2>5. k \in Positions
    <3>1. Calls = 1 .. Len(op.calls) /\ Len(op.calls) \in Nat BY <2>2, OperationFields DEF Calls
    <3> QED BY <2>3, <3>1, BoundsAssumption DEF Positions
  <2> QED BY <2>1, <2>4, <2>5, MadeIds DEF Id
<1> QED BY <1>1, <1>2, <1>3

LEMMA GrowsOnce ==
  ASSUME Control, EveryEntryOnce, NEW P, NEW M, Grows(P, M),
         M \cap (ToSet(branch) \cup ToSet(inbox) \cup taken) = {},
         Staged = {}, Staged' = {}, taken' = taken
  PROVE  EveryEntryOnce'
<1>1. LaneTypeOK BY DEF Control
<1>2. PICK new \in Seq(Entries) :
        /\ Extends(branch', branch, new) /\ ToSet(new) = P \cup M
        /\ IsInjective(inbox) /\ M \cap ToSet(inbox) = {} => IsInjective(new)
  BY DEF Grows
<1>3. /\ P \subseteq ToSet(inbox) /\ ToSet(inbox') = ToSet(inbox) \ P
      /\ IsInjective(inbox) => IsInjective(inbox')
      /\ pending' = pending \ P
  BY DEF Grows
<1>4. /\ IsInjective(branch) /\ IsInjective(inbox) /\ pending = ToSet(inbox)
      /\ pending \cap ToSet(branch) = {} /\ taken \cap (pending \cup ToSet(branch)) = {}
  BY DEF EveryEntryOnce
<1>5. ToSet(branch') = ToSet(branch) \cup P \cup M BY <1>1, Grown
<1>6. IsInjective(branch')
  <2>1. branch \in Seq(Entries) BY <1>1 DEF LaneTypeOK
  <2>2. IsInjective(new) /\ ToSet(branch) \cap ToSet(new) = {} BY <1>2, <1>3, <1>4
  <2> DEFINE w == branch \o new
  <2>3. IsInjective(w) BY <1>4, <2>1, <2>2, ConcatElements
  <2>4. branch' = w BY <1>2 DEF Extends
  <2> HIDE DEF w
  <2> QED BY <2>3, <2>4
<1>7. pending' = ToSet(inbox') \cup Staged' BY <1>3, <1>4
<1>8. /\ pending' \cap ToSet(branch') = {}
      /\ taken' \cap (pending' \cup ToSet(branch')) = {}
  BY <1>3, <1>4, <1>5
<1> QED BY <1>3, <1>4, <1>6, <1>7, <1>8 DEF EveryEntryOnce

LEMMA OnceStays ==
  ASSUME EveryEntryOnce, UNCHANGED <<branch, inbox, pending, taken>>, Staged' = Staged
  PROVE  EveryEntryOnce'
BY DEF EveryEntryOnce

LEMMA WithdrawnOnce ==
  ASSUME Control, EveryEntryOnce, NEW D \in SUBSET ToSet(inbox),
         inbox' = Keep(inbox, ToSet(inbox) \ D), pending' = pending \ D, taken' = taken \cup D,
         branch' = branch, Staged' = Staged
  PROVE  EveryEntryOnce'
<1>1. inbox \in Seq(Items) BY Types DEF Control
<1>2. ToSet(inbox') = ToSet(inbox) \ D /\ (IsInjective(inbox) => IsInjective(inbox'))
  BY <1>1, KeepFacts
<1>3. D \subseteq Items /\ D \cap Staged = {} BY <1>1, ElementsAre, StagedIs
<1>4. /\ IsInjective(branch) /\ IsInjective(inbox) /\ pending = ToSet(inbox) \cup Staged
      /\ pending \cap ToSet(branch) = {} /\ taken \cap (pending \cup ToSet(branch)) = {}
  BY DEF EveryEntryOnce
<1>5. pending' = ToSet(inbox') \cup Staged' BY <1>2, <1>3, <1>4
<1>6. /\ pending' \cap ToSet(branch') = {}
      /\ taken' \cap (pending' \cup ToSet(branch')) = {}
  BY <1>3, <1>4
<1> QED BY <1>2, <1>4, <1>5, <1>6 DEF EveryEntryOnce

LEMMA EnqueueOnce ==
  ASSUME Control, EveryEntryOnce, NEW i \in Items, Enqueue(i)
  PROVE  EveryEntryOnce'
<1>1. /\ i \notin ToSet(branch) \cup ToSet(inbox) \cup taken
      /\ inbox' = Append(inbox, i) /\ pending' = pending \cup {i}
      /\ UNCHANGED <<branch, op, taken>>
  BY DEF Enqueue, Unqueued
<1>2. inbox \in Seq(Items) BY Types DEF Control
<1>3. IsInjective(inbox) => ToSet(inbox') = ToSet(inbox) \cup {i} /\ IsInjective(inbox')
  <2> DEFINE w == Append(inbox, i)
  <2>1. ToSet(w) = ToSet(inbox) \cup {i} /\ (IsInjective(inbox) => IsInjective(w))
    BY <1>1, <1>2, AppendElements
  <2>2. inbox' = w BY <1>1
  <2> HIDE DEF w
  <2> QED BY <2>1, <2>2
<1>4. Staged' = Staged BY <1>1 DEF Staged, Calls, Id
<1> QED BY <1>1, <1>3, <1>4 DEF EveryEntryOnce

(* No id is used again.                                                    *)
LEMMA IdsStay ==
  ASSUME IdsInv, UNCHANGED <<branch, minted, results>>,
         \/ op' = op
         \/ /\ op # Nothing /\ op' # Nothing /\ op'.id = op.id /\ op'.at = op.at
            /\ op'.reserved = op.reserved /\ DOMAIN op'.calls = DOMAIN op.calls
            /\ \A k \in Calls : op.calls[k] = "completed" => op'.calls[k] = "completed"
  PROVE  IdsInv'
<1>1. CASE op' = op BY <1>1 DEF IdsInv, Calls, Id
<1>2. CASE /\ op # Nothing /\ op' # Nothing /\ op'.id = op.id /\ op'.at = op.at
           /\ op'.reserved = op.reserved /\ DOMAIN op'.calls = DOMAIN op.calls
           /\ \A k \in Calls : op.calls[k] = "completed" => op'.calls[k] = "completed"
  <2>1. \A n \in 1 .. MaxMinted : ToSet(branch') \cap Uses(n) # {} =>
          n <= minted' /\ (op' # Nothing /\ op'.reserved = n => op'.at \notin Awaits)
    BY <1>2 DEF IdsInv
  <2>2. op'.at = "tools" =>
          \A k \in DOMAIN op'.calls : Id(k)' \in ToSet(branch') => op'.calls[k] = "completed"
    BY <1>2 DEF IdsInv, Calls, Id
  <2>3. \A r \in Runs : Prompt(r) \in ToSet(branch') =>
          results'[r] # "none" \/ (op' # Nothing /\ op'.id = r)
    BY <1>2 DEF IdsInv
  <2> QED BY <2>1, <2>2, <2>3 DEF IdsInv, Calls
<1> QED BY <1>1, <1>2

LEMMA GrowsIds ==
  ASSUME Control, IdsInv, NEW P, NEW M, Grows(P, M), minted' \in Nat, minted' >= minted,
         \A n \in 1 .. MaxMinted : M \cap Uses(n) # {} =>
           n <= minted' /\ (op' # Nothing /\ op'.reserved = n => op'.at \notin Awaits),
         op' # Nothing /\ op'.at \in Awaits =>
           \/ op # Nothing /\ op.at \in Awaits /\ op'.reserved = op.reserved
           \/ op'.reserved = minted + 1,
         op' # Nothing /\ op'.at = "tools" => \A k \in Calls' : Id(k)' \notin ToSet(branch'),
         \A r \in Runs : Prompt(r) \in M => op' # Nothing /\ op'.id = r,
         \A r \in Runs : results[r] # "none" \/ (op # Nothing /\ op.id = r) =>
           results'[r] # "none" \/ (op' # Nothing /\ op'.id = r)
  PROVE  IdsInv'
<1>1. LaneTypeOK /\ minted \in Nat BY Types DEF Control
<1>2. ToSet(branch') = ToSet(branch) \cup P \cup M /\ P \subseteq Items BY <1>1, Grown
<1>3. ASSUME NEW n \in 1 .. MaxMinted, ToSet(branch') \cap Uses(n) # {}
      PROVE  n <= minted' /\ (op' # Nothing /\ op'.reserved = n => op'.at \notin Awaits)
  <2>1. P \cap Uses(n) = {} BY <1>2, UsesDiffer
  <2>2. CASE M \cap Uses(n) # {} BY <2>2
  <2>3. CASE ToSet(branch) \cap Uses(n) # {}
    <3>1. n <= minted /\ (op # Nothing /\ op.reserved = n => op.at \notin Awaits)
      BY <2>3 DEF IdsInv
    <3> QED BY <1>1, <3>1
  <2> QED BY <1>2, <1>3, <2>1, <2>2, <2>3
<1>4. ASSUME NEW r \in Runs, Prompt(r) \in ToSet(branch')
      PROVE  results'[r] # "none" \/ (op' # Nothing /\ op'.id = r)
  <2>1. Prompt(r) \notin P BY <1>2, MadeIds
  <2>2. CASE Prompt(r) \in M BY <2>2
  <2>3. CASE Prompt(r) \in ToSet(branch) BY <2>3 DEF IdsInv
  <2> QED BY <1>2, <1>4, <2>1, <2>2, <2>3
<1> QED BY <1>3, <1>4 DEF IdsInv

LEMMA FreshIsNew ==
  ASSUME Control, IdsInv, op # Nothing, NEW M, Fresh(M)
  PROVE  /\ M \cap (ToSet(branch) \cup ToSet(inbox) \cup taken) = {}
         /\ \A n \in 1 .. MaxMinted : M \cap Uses(n) # {} =>
              n <= minted' /\ (op' # Nothing /\ op'.reserved = n => op'.at \notin Awaits)
         /\ \A r : Prompt(r) \notin M
         /\ \A n \in 1 .. MaxMinted : Reply(n) \in M => asked'[n] = 0
<1>1. CASE M = {} BY <1>1
<1>2. ASSUME NEW m \in 1 .. MaxMinted,
             M \in {{Reply(m)}, {Summary(m)}, {HookMessage(m)}},
             m > minted \/ (op.at \in Awaits /\ m = op.reserved),
             m <= minted' /\ (op' # Nothing /\ op'.reserved = m => op'.at \notin Awaits),
             M = {Reply(m)} => asked'[m] = 0
      PROVE  /\ M \cap (ToSet(branch) \cup ToSet(inbox) \cup taken) = {}
             /\ \A n \in 1 .. MaxMinted : M \cap Uses(n) # {} =>
                  n <= minted' /\ (op' # Nothing /\ op'.reserved = n => op'.at \notin Awaits)
             /\ \A r : Prompt(r) \notin M
             /\ \A n \in 1 .. MaxMinted : Reply(n) \in M => asked'[n] = 0
  <2>1. M \subseteq Uses(m) BY <1>2 DEF Uses
  <2>2. minted \in Nat /\ ToSet(inbox) \subseteq Items /\ taken \subseteq Items
    BY Types, ElementsAre DEF Control, LaneTypeOK
  <2>3. ToSet(branch) \cap Uses(m) = {} BY <1>2, <2>2 DEF IdsInv
  <2>4. Uses(m) \cap Items = {} /\ \A r : Prompt(r) \notin Uses(m) BY UsesDiffer
  <2>5. \A n \in 1 .. MaxMinted : M \cap Uses(n) # {} => n = m BY <2>1, UsesDiffer
  <2>6. \A n \in 1 .. MaxMinted : Reply(n) \in M => n = m /\ M = {Reply(m)}
    BY <1>2, IdsDiffer
  <2> QED BY <1>2, <2>1, <2>2, <2>3, <2>4, <2>5, <2>6
<1> QED BY <1>1, <1>2 DEF Fresh

LEMMA StagedNone ==
  ASSUME op' = Nothing \/ \A k \in DOMAIN op'.calls : op'.calls[k] # "outcome_ready"
  PROVE  Staged' = {}
BY DEF Staged, Calls

LEMMA OutsideOnce ==
  ASSUME Control, EveryEntryOnce, IdsInv, Onward \/ Ended
  PROVE  EveryEntryOnce' /\ IdsInv'
<1>1. Outside /\ Adds BY DEF Onward, Ended
<1>2. PICK P, M : Grows(P, M) /\ Fresh(M) BY <1>1 DEF Adds
<1>3. /\ minted' \in Nat /\ minted' >= minted /\ taken' = taken BY <1>1 DEF Adds
<1>4. op # Nothing /\ op.calls = <<>> /\ op.id \in Runs /\ results[op.id] = "none"
  BY <1>1, OutsideFacts DEF Outside
<1>5. /\ M \cap (ToSet(branch) \cup ToSet(inbox) \cup taken) = {}
      /\ \A n \in 1 .. MaxMinted : M \cap Uses(n) # {} =>
           n <= minted' /\ (op' # Nothing /\ op'.reserved = n => op'.at \notin Awaits)
      /\ \A r : Prompt(r) \notin M
  BY <1>2, <1>4, FreshIsNew
<1>6. Staged = {} BY <1>4, StagedIs
<1>7. /\ op' = Nothing \/ op'.calls = <<>>
      /\ op' # Nothing => op'.at # "tools"
      /\ op' # Nothing /\ op'.at \in Awaits =>
           \/ op # Nothing /\ op.at \in Awaits /\ op'.reserved = op.reserved
           \/ op'.reserved = minted + 1
      /\ \A r \in Runs : results[r] # "none" \/ (op # Nothing /\ op.id = r) =>
           results'[r] # "none" \/ (op' # Nothing /\ op'.id = r)
  <2>1. CASE Onward
    <3>1. op' # Nothing BY <2>1, IdsAssumption DEF Onward, Turned
    <3>2. op'.calls = <<>> /\ op'.at # "tools" /\ op'.id = op.id /\ results' = results
      BY <2>1 DEF Onward, Turned
    <3>3. op'.at \in Awaits => \/ op.at \in Awaits /\ op'.reserved = op.reserved
                              \/ op'.reserved = minted + 1
      BY <2>1 DEF Onward, Turned
    <3> QED BY <1>4, <3>1, <3>2, <3>3
  <2>2. CASE Ended
    <3>1. PICK status \in {"completed", "failed", "aborted"} : Settle(status)
      BY <2>2 DEF Ended
    <3>2. op' = Nothing /\ results' = [results EXCEPT ![op.id] = status]
      BY <3>1 DEF Settle
    <3>3. results \in [Runs -> {"none", "completed", "failed", "aborted"}]
      BY DEF Control, LaneTypeOK
    <3>4. \A r \in Runs : results'[r] = IF r = op.id THEN status ELSE results[r]
      BY <3>2, <3>3
    <3> QED BY <3>2, <3>4
  <2> QED BY <2>1, <2>2
<1>8. Staged' = {} BY <1>7, NoElements, StagedNone
<1>9. EveryEntryOnce' BY <1>2, <1>3, <1>5, <1>6, <1>8, GrowsOnce
<1>10. IdsInv' BY <1>2, <1>3, <1>5, <1>7, GrowsIds
<1> QED BY <1>9, <1>10

LEMMA AwaitedIsNew ==
  ASSUME Control, IdsInv, Outside, op.at \in Awaits
  PROVE  /\ op.reserved \in 1 .. MaxMinted /\ op.reserved <= minted
         /\ ToSet(branch) \cap Uses(op.reserved) = {}
<1>1. op # Nothing /\ op \in Operations /\ op.reserved >= 1 BY OutsideFacts DEF Outside
<1>2. op.reserved \in 1 .. MaxMinted /\ op.reserved <= minted
  BY <1>1, OperationFields DEF Control, LaneTypeOK
<1> QED BY <1>1, <1>2 DEF IdsInv

LEMMA EntersOnce ==
  ASSUME Control, EveryEntryOnce, IdsInv, NEW count \in Positions, Enters(count)
  PROVE  EveryEntryOnce' /\ IdsInv'
<1> DEFINE M == {Reply(op.reserved)}
<1>1. /\ Outside /\ op.at \in Awaits /\ Grows({}, M)
      /\ op' # Nothing /\ op'.id = op.id /\ op'.at = "tools" /\ op'.reserved = op.reserved
      /\ op'.calls = [k \in 1 .. count |-> "planned"]
      /\ UNCHANGED <<results, minted, taken>>
  BY IdsAssumption DEF Enters, Awaits
<1>2. /\ op.reserved \in 1 .. MaxMinted /\ op.reserved <= minted
      /\ ToSet(branch) \cap Uses(op.reserved) = {}
  BY <1>1, AwaitedIsNew
<1>3. LaneTypeOK /\ op # Nothing /\ op.calls = <<>> BY <1>1, OutsideFacts DEF Outside
<1>4. ToSet(inbox) \subseteq Items /\ taken \subseteq Items /\ minted \in Nat
  BY Types, ElementsAre, <1>3 DEF LaneTypeOK
<1>5. Reply(op.reserved) \in Uses(op.reserved) /\ Uses(op.reserved) \cap Items = {}
  BY <1>2, UsesDiffer DEF Uses
<1>6. M \cap (ToSet(branch) \cup ToSet(inbox) \cup taken) = {} BY <1>2, <1>4, <1>5
<1>7. Staged = {} BY <1>3, StagedIs
<1>8. Staged' = {}
  <2>1. \A k \in DOMAIN op'.calls : op'.calls[k] = "planned" BY <1>1
  <2> QED BY <2>1, StagedNone
<1>9. EveryEntryOnce' BY <1>1, <1>6, <1>7, <1>8, GrowsOnce
<1>10. \A n \in 1 .. MaxMinted : M \cap Uses(n) # {} =>
         n <= minted' /\ (op' # Nothing /\ op'.reserved = n => op'.at \notin Awaits)
  <2>1. \A n \in 1 .. MaxMinted : M \cap Uses(n) # {} => n = op.reserved
    BY <1>2, <1>5, UsesDiffer
  <2>2. "tools" \notin Awaits BY DEF Awaits
  <2> QED BY <1>1, <1>2, <2>1, <2>2
<1>11. \A k \in Calls' : Id(k)' \notin ToSet(branch')
  <2>1. Calls' = 1 .. count BY <1>1 DEF Calls
  <2>2. 1 .. count \subseteq Positions BY BoundsAssumption DEF Positions
  <2>3. \A k \in Positions : Result(op.reserved, k) \in Uses(op.reserved) BY DEF Uses
  <2>4. ToSet(branch') = ToSet(branch) \cup {} \cup M BY <1>1, <1>3, Grown
  <2>5. \A k : Id(k)' = Result(op.reserved, k) BY <1>1 DEF Id
  <2>6. \A k : Result(op.reserved, k) \notin M BY IdsDiffer
  <2> HIDE DEF M
  <2> QED BY <1>2, <2>1, <2>2, <2>3, <2>4, <2>5, <2>6
<1>12. \A r \in Runs : Prompt(r) \notin M BY IdsDiffer
<1>13. "tools" \notin Awaits BY DEF Awaits
<1>14. minted' \in Nat /\ minted' >= minted BY <1>1, <1>4
<1> HIDE DEF M
<1>15. IdsInv' BY <1>1, <1>3, <1>10, <1>11, <1>12, <1>13, <1>14, GrowsIds
<1> QED BY <1>9, <1>15

LEMMA UntouchedOnce ==
  ASSUME EveryEntryOnce, IdsInv,
         UNCHANGED <<branch, op, inbox, pending, results, minted, taken>>
  PROVE  EveryEntryOnce' /\ IdsInv'
<1>1. Staged' = Staged BY DEF Staged, Calls, Id
<1> QED BY <1>1, OnceStays, IdsStay

LEMMA InboxOnce ==
  ASSUME Control, EveryEntryOnce, IdsInv, NEW i \in Items,
         Enqueue(i) \/ AppendIdle(i) \/ CancelQueued(i)
  PROVE  EveryEntryOnce' /\ IdsInv'
<1>1. LaneTypeOK BY DEF Control
<1>2. CASE Enqueue(i)
  <2>1. UNCHANGED <<branch, op, minted, results>> BY <1>2 DEF Enqueue
  <2> QED BY <1>2, <2>1, EnqueueOnce, IdsStay
<1>3. CASE CancelQueued(i)
  <2> DEFINE D == {i}
  <2>1. /\ D \in SUBSET ToSet(inbox) /\ inbox' = Keep(inbox, ToSet(inbox) \ D)
        /\ pending' = pending \ D /\ taken' = taken \cup D
        /\ UNCHANGED <<branch, op, minted, results>>
    BY <1>3 DEF CancelQueued
  <2>2. Staged' = Staged BY <2>1 DEF Staged, Calls, Id
  <2> HIDE DEF D
  <2> QED BY <2>1, <2>2, WithdrawnOnce, IdsStay
<1>4. CASE AppendIdle(i)
  <2> DEFINE M == {i}
  <2>1. PICK P : Grows(P, M) BY <1>1, <1>4, AppendIdleGrows
  <2>2. /\ i \notin ToSet(branch) \cup ToSet(inbox) \cup taken /\ op = Nothing
        /\ UNCHANGED <<op, results, minted, taken>>
    BY <1>1, <1>4, AppendIdleGrows
  <2>3. Staged = {} /\ Staged' = {} BY <2>2, StagedNone DEF Staged
  <2>4. M \cap (ToSet(branch) \cup ToSet(inbox) \cup taken) = {} BY <2>2
  <2>5. \A n \in 1 .. MaxMinted : M \cap Uses(n) = {} BY UsesDiffer
  <2>6. \A r \in Runs : Prompt(r) \notin M BY MadeIds
  <2>7. minted' \in Nat /\ minted' >= minted BY <1>1, <2>2, Types
  <2> HIDE DEF M
  <2>8. EveryEntryOnce' BY <2>1, <2>2, <2>3, <2>4, GrowsOnce
  <2>9. IdsInv' BY <2>1, <2>2, <2>5, <2>6, <2>7, GrowsIds
  <2> QED BY <2>8, <2>9
<1> QED BY <1>2, <1>3, <1>4

LEMMA AcceptOnce ==
  ASSUME Control, EveryEntryOnce, IdsInv, NEW r \in Runs,
         Accept(r, <<Prompt(r)>>) \/ Accept(r, <<>>)
  PROVE  EveryEntryOnce' /\ IdsInv'
<1>1. LaneTypeOK BY DEF Control
<1>2. /\ \E P, M : Grows(P, M) /\ M \in {{Prompt(r)}, {}}
      /\ op = Nothing /\ results[r] = "none" /\ op' = Started(r)
      /\ UNCHANGED <<results, minted, taken>>
  <2> DEFINE p == <<Prompt(r)>>
             q == <<>>
  <2>1. p \in {<<Prompt(r)>>, <<>>} /\ q \in {<<Prompt(r)>>, <<>>} OBVIOUS
  <2>2. Accept(r, p) \/ Accept(r, q) OBVIOUS
  <2> HIDE DEF p, q
  <2> QED BY <1>1, <2>1, <2>2, AcceptGrows
<1>3. PICK P, M : Grows(P, M) /\ M \in {{Prompt(r)}, {}} BY <1>2
<1>4. /\ op' # Nothing /\ op'.id = r /\ op'.at = "starting" /\ op'.calls = <<>>
  BY <1>2, StartedFields, IdsAssumption
<1>5. Staged = {} /\ Staged' = {} BY <1>2, <1>4, NoElements, StagedNone DEF Staged
<1>6. Prompt(r) \notin ToSet(branch) BY <1>2 DEF IdsInv
<1>7. ToSet(inbox) \subseteq Items /\ taken \subseteq Items /\ minted \in Nat
  BY <1>1, Types, ElementsAre DEF LaneTypeOK
<1>8. M \cap (ToSet(branch) \cup ToSet(inbox) \cup taken) = {} BY <1>3, <1>6, <1>7, MadeIds
<1>9. \A n \in 1 .. MaxMinted : M \cap Uses(n) = {} BY <1>3, UsesDiffer
<1>10. \A s \in Runs : Prompt(s) \in M => op' # Nothing /\ op'.id = s BY <1>3, <1>4, IdsDiffer
<1>11. "starting" \notin Awaits /\ "starting" # "tools" BY DEF Awaits
<1>12. minted' \in Nat /\ minted' >= minted BY <1>2, <1>7
<1>13. EveryEntryOnce' BY <1>2, <1>3, <1>5, <1>8, GrowsOnce
<1>14. IdsInv' BY <1>2, <1>3, <1>4, <1>9, <1>10, <1>11, <1>12, GrowsIds
<1> QED BY <1>13, <1>14

LEMMA AbortOnce ==
  ASSUME Control, EveryEntryOnce, IdsInv, AbortCommits
  PROVE  EveryEntryOnce' /\ IdsInv'
<1>1. /\ op # Nothing /\ op' # Nothing /\ op'.id = op.id /\ op'.at = op.at
      /\ op'.reserved = op.reserved /\ op'.calls = op.calls
      /\ UNCHANGED <<branch, results, minted>>
  BY AbortCommitsFields
<1>2. PICK drained \in SUBSET ToSet(inbox) :
        /\ inbox' = Keep(inbox, ToSet(inbox) \ drained)
        /\ pending' = pending \ drained /\ taken' = taken \cup drained
  BY AbortCommitsFields
<1>3. Staged' = Staged BY <1>1 DEF Staged, Calls, Id
<1>4. EveryEntryOnce' BY <1>1, <1>2, <1>3, WithdrawnOnce
<1>5. DOMAIN op'.calls = DOMAIN op.calls /\ \A k \in Calls : op'.calls[k] = op.calls[k] BY <1>1
<1>6. IdsInv' BY <1>1, <1>5, IdsStay
<1> QED BY <1>4, <1>6

(* A call of the open batch changes its state before it is completed.      *)
LEMMA CallStaged ==
  ASSUME Control, op # Nothing, NEW k \in Calls, NEW s, CallTo(k, s),
         op.calls[k] \in {"planned", "effect_pending"}
  PROVE  Staged' = IF s = "outcome_ready" THEN Staged \cup {Id(k)} ELSE Staged
<1>1. /\ op' # Nothing /\ \A j : Id(j)' = Id(j) /\ Calls' = Calls
      /\ \A i \in Calls : op'.calls[i] = IF i = k THEN s ELSE op.calls[i]
  BY IdsAssumption DEF CallTo, Id, Calls
<1>2. \A x : x \in Staged <=> \E i \in Calls : op.calls[i] = "outcome_ready" /\ x = Id(i)
  BY StagedIs
<1>3. \A x : x \in Staged' <=> \E i \in Calls' : op'.calls[i] = "outcome_ready" /\ x = Id(i)'
  BY <1>1 DEF Staged
<1>4. \A x : x \in Staged' <=>
        \E i \in Calls : (IF i = k THEN s ELSE op.calls[i]) = "outcome_ready" /\ x = Id(i)
  BY <1>1, <1>3
<1>5. op.calls[k] # "outcome_ready" OBVIOUS
<1>6. CASE s = "outcome_ready"
  <2>1. \A x : x \in Staged' <=> x \in Staged \/ x = Id(k) BY <1>2, <1>4, <1>5, <1>6
  <2> QED BY <1>6, <2>1
<1>7. CASE s # "outcome_ready"
  <2>1. \A x : x \in Staged' <=> x \in Staged BY <1>2, <1>4, <1>5, <1>7
  <2> QED BY <1>7, <2>1
<1> QED BY <1>6, <1>7

LEMMA CallIds ==
  ASSUME IdsInv, op # Nothing, NEW k \in Calls, NEW s, CallTo(k, s),
         op.calls[k] \in {"planned", "effect_pending"},
         UNCHANGED <<branch, minted, results>>
  PROVE  IdsInv'
<1>1. /\ op' # Nothing /\ op'.id = op.id /\ op'.at = op.at /\ op'.reserved = op.reserved
      /\ DOMAIN op'.calls = DOMAIN op.calls
      /\ \A i \in Calls : op.calls[i] = "completed" => op'.calls[i] = "completed"
  BY IdsAssumption DEF CallTo, Calls
<1> QED BY <1>1, IdsStay

LEMMA ToolOnce ==
  ASSUME Control, EveryEntryOnce, IdsInv, NEW k \in Positions,
         \/ ToolIntent(k) \/ Replay(k) \/ Execute(k) \/ ToolCheckpoint(k)
         \/ \E terminate \in BOOLEAN : PublishOutcome(k, terminate)
  PROVE  EveryEntryOnce' /\ IdsInv'
<1>1. CASE Replay(k) \/ Execute(k) \/ ToolCheckpoint(k)
  <2>1. UNCHANGED <<branch, op, inbox, pending, results, minted, taken>>
    BY <1>1 DEF Replay, Execute, ToolCheckpoint, NoTransfer, durable
  <2> QED BY <2>1, UntouchedOnce
<1>2. CASE ToolIntent(k)
  <2>1. /\ Live("tools") /\ op.at = "tools" /\ k \in Calls
        /\ op.calls[k] \in {"planned", "effect_pending"}
    BY <1>2, TurnCall DEF ToolIntent
  <2>2. op # Nothing /\ op \in Operations BY <2>1, Tooling
  <2>3. /\ op' = [op EXCEPT !.calls[k] = "effect_pending"]
        /\ UNCHANGED <<branch, inbox, pending, results, minted, taken>>
    BY <1>2 DEF ToolIntent, NoTransfer
  <2>4. "effect_pending" \in CallStates /\ {} \in SUBSET Positions BY DEF CallStates
  <2>5. CallTo(k, "effect_pending") BY <2>1, <2>2, <2>3, <2>4, CallChanges DEF Calls
  <2>6. Staged' = Staged BY <2>1, <2>2, <2>5, CallStaged
  <2> QED BY <2>1, <2>2, <2>3, <2>5, <2>6, CallIds, OnceStays
<1>3. ASSUME NEW terminate \in BOOLEAN, PublishOutcome(k, terminate)
      PROVE  EveryEntryOnce' /\ IdsInv'
  <2>1. /\ CallTo(k, "outcome_ready") /\ k \in Calls
        /\ op.calls[k] \in {"planned", "effect_pending"}
    BY <1>3, PublishOutcomeControl
  <2>2. /\ Live("tools") /\ op.at = "tools" /\ pending' = pending \cup {Id(k)}
        /\ UNCHANGED <<branch, inbox, results, minted, taken>>
    BY <1>3 DEF PublishOutcome, Executing, NoTransfer
  <2>3. op # Nothing /\ op.reserved \in 1 .. MaxMinted /\ LaneTypeOK BY <2>2, Tooling
  <2>4. Staged' = Staged \cup {Id(k)} BY <2>1, <2>3, CallStaged
  <2>5. Id(k) \notin ToSet(branch) BY <2>1, <2>2, <2>3 DEF IdsInv
  <2>6. Id(k) \notin taken
    <3>1. Id(k) \in Made BY <2>3, MadeIds DEF Id
    <3> QED BY <2>3, <3>1, MadeIds DEF LaneTypeOK
  <2>7. EveryEntryOnce' BY <2>2, <2>4, <2>5, <2>6 DEF EveryEntryOnce
  <2> QED BY <2>1, <2>2, <2>3, <2>7, CallIds
<1> QED BY <1>1, <1>2, <1>3

LEMMA CommitStaged ==
  ASSUME Control, CommitPlacement, NEW c \in 0 .. Len(op.calls), NEW b \in 0 .. Len(op.calls),
         NEW placed \in Seq(Entries), NEW calls \in Seq(CallStates), Placing(c, b, placed, calls)
  PROVE  ToSet(placed) \subseteq Staged /\ Staged' = Staged \ ToSet(placed)
<1>1. Live("tools") /\ op.at = "tools" BY CommitPlaces
<1>2. op # Nothing /\ Calls = 1 .. Len(op.calls) /\ Len(op.calls) \in Nat BY <1>1, Tooling
<1>3. /\ c < b /\ Completed(c) /\ \A k \in c + 1 .. b : op.calls[k] = "outcome_ready"
      /\ ToSet(placed) = {Id(k) : k \in c + 1 .. b} /\ DOMAIN calls = Calls
      /\ \A k \in Calls : calls[k] = IF k \in c + 1 .. b THEN "completed" ELSE op.calls[k]
  BY DEF Placing
<1>4. /\ op' # Nothing /\ op'.reserved = op.reserved
      /\ \/ b = Len(op.calls) /\ op'.calls = <<>>
         \/ b < Len(op.calls) /\ op'.calls = calls
  BY CommitFields
<1>5. \A x : x \in Staged <=> \E k \in Calls : op.calls[k] = "outcome_ready" /\ x = Id(k)
  BY <1>2, StagedIs
<1>6. \A i, j : Id(i) = Id(j) => i = j BY IdsDiffer DEF Id
<1>7. c + 1 .. b \subseteq Calls BY <1>2
<1>8. ToSet(placed) \subseteq Staged BY <1>3, <1>5, <1>7
<1>9. CASE b = Len(op.calls)
  <2>1. op'.calls = <<>> BY <1>2, <1>4, <1>9
  <2>2. Staged' = {} BY <2>1, NoElements, StagedNone
  <2>3. ASSUME NEW k \in Calls, op.calls[k] = "outcome_ready" PROVE k \in c + 1 .. b
    <3>1. ~(k <= c) BY <1>3, <2>3 DEF Completed
    <3> QED BY <1>2, <1>9, <3>1
  <2>4. Staged \subseteq ToSet(placed) BY <1>3, <1>5, <2>3
  <2> QED BY <1>8, <2>2, <2>4
<1>10. CASE b < Len(op.calls)
  <2>1. op'.calls = calls BY <1>2, <1>4, <1>10
  <2>2. Calls' = Calls /\ \A k : Id(k)' = Id(k) BY <1>3, <1>4, <2>1 DEF Calls, Id
  <2>3. \A x : x \in Staged' <=> \E k \in Calls : calls[k] = "outcome_ready" /\ x = Id(k)
    BY <1>4, <2>1, <2>2 DEF Staged
  <2>4. \A k \in Calls : calls[k] = "outcome_ready" <=>
          op.calls[k] = "outcome_ready" /\ k \notin c + 1 .. b
    BY <1>3
  <2>5. ASSUME NEW x PROVE x \in Staged' <=> x \in Staged /\ x \notin ToSet(placed)
    BY <1>3, <1>5, <1>6, <2>3, <2>4
  <2> QED BY <1>8, <2>5
<1> QED BY <1>4, <1>8, <1>9, <1>10

LEMMA CommitOnce ==
  ASSUME Control, EveryEntryOnce, IdsInv, CommitPlacement
  PROVE  EveryEntryOnce' /\ IdsInv'
<1>1. /\ Live("tools") /\ op.at = "tools" /\ UNCHANGED <<inbox, results, minted, taken>>
  BY CommitPlaces
<1>2. PICK c, b \in 0 .. Len(op.calls) : \E placed \in Seq(Entries), calls \in Seq(CallStates) :
         Placing(c, b, placed, calls)
  BY CommitPlaces
<1>3. PICK placed \in Seq(Entries), calls \in Seq(CallStates) : Placing(c, b, placed, calls)
  BY <1>2
<1>4. ToSet(placed) \subseteq Staged /\ Staged' = Staged \ ToSet(placed) BY <1>3, CommitStaged
<1>5. /\ ToSet(branch') = ToSet(branch) \cup ToSet(placed)
      /\ op' # Nothing /\ op'.id = op.id /\ op'.reserved = op.reserved
      /\ \/ b = Len(op.calls) /\ op'.at = "checkpoint" /\ op'.calls = <<>>
         \/ b < Len(op.calls) /\ op'.at = "tools" /\ op'.calls = calls
  BY <1>3, CommitFields
<1>6. /\ c < b /\ Completed(c) /\ DOMAIN calls = Calls
      /\ Extends(branch', branch, placed) /\ pending' = pending \ ToSet(placed)
      /\ ToSet(placed) = {Id(k) : k \in c + 1 .. b} /\ IsInjective(placed)
      /\ \A k \in Calls : calls[k] = IF k \in c + 1 .. b THEN "completed" ELSE op.calls[k]
  BY <1>3 DEF Placing
<1>7. /\ LaneTypeOK /\ op # Nothing /\ Calls = 1 .. Len(op.calls) /\ Len(op.calls) \in Nat
      /\ Calls \subseteq Positions /\ op.reserved \in 1 .. MaxMinted /\ op.reserved <= minted
  BY <1>1, Tooling
<1>8. /\ IsInjective(branch) /\ IsInjective(inbox) /\ pending = ToSet(inbox) \cup Staged
      /\ pending \cap ToSet(branch) = {} /\ taken \cap (pending \cup ToSet(branch)) = {}
  BY DEF EveryEntryOnce
<1>9. ToSet(placed) \cap ToSet(branch) = {} /\ ToSet(placed) \cap taken = {} BY <1>4, <1>8
<1>10. ToSet(placed) \cap ToSet(inbox) = {}
  <2>1. ToSet(inbox) \subseteq Items BY <1>7, Types, ElementsAre
  <2> QED BY <1>4, <2>1, StagedIs
<1>11. IsInjective(branch')
  <2>1. branch \in Seq(Entries) BY <1>7 DEF LaneTypeOK
  <2> DEFINE w == branch \o placed
  <2>2. IsInjective(w) BY <1>6, <1>8, <1>9, <2>1, ConcatElements
  <2>3. branch' = w BY <1>6 DEF Extends
  <2> HIDE DEF w
  <2> QED BY <2>2, <2>3
<1>12. pending' = ToSet(inbox') \cup Staged' BY <1>1, <1>4, <1>6, <1>8, <1>10
<1>13. EveryEntryOnce' BY <1>1, <1>5, <1>6, <1>8, <1>9, <1>11, <1>12 DEF EveryEntryOnce
<1>14. c + 1 .. b \subseteq Calls BY <1>7
<1>15. ToSet(placed) \subseteq Uses(op.reserved)
  BY <1>6, <1>7, <1>14 DEF Uses, Id
<1>16. op'.at \notin Awaits BY <1>5 DEF Awaits
<1>17. ASSUME NEW n \in 1 .. MaxMinted, ToSet(branch') \cap Uses(n) # {}
       PROVE  n <= minted' /\ (op' # Nothing /\ op'.reserved = n => op'.at \notin Awaits)
  <2>1. CASE n = op.reserved BY <1>1, <1>7, <1>16, <2>1
  <2>2. CASE n # op.reserved
    <3>1. ToSet(placed) \cap Uses(n) = {} BY <1>7, <1>15, <2>2, UsesDiffer
    <3>2. ToSet(branch) \cap Uses(n) # {} BY <1>5, <1>17, <3>1
    <3>3. n <= minted BY <3>2 DEF IdsInv
    <3> QED BY <1>1, <1>5, <2>2, <3>3
  <2> QED BY <2>1, <2>2
<1>18. ASSUME op'.at = "tools", NEW k \in Calls', Id(k)' \in ToSet(branch')
       PROVE  op'.calls[k] = "completed"
  <2>1. op'.calls = calls /\ k \in Calls /\ Id(k)' = Id(k) BY <1>5, <1>6, <1>18 DEF Calls, Id
  <2>2. CASE k \in c + 1 .. b BY <1>6, <2>1, <2>2
  <2>3. CASE k \notin c + 1 .. b
    <3>1. Id(k) \notin ToSet(placed) BY <1>6, <2>3, IdsDiffer DEF Id
    <3>2. Id(k) \in ToSet(branch) BY <1>5, <1>18, <2>1, <3>1
    <3>3. op.calls[k] = "completed" BY <1>1, <1>7, <2>1, <3>2 DEF IdsInv
    <3> QED BY <1>6, <2>1, <2>3, <3>3
  <2> QED BY <2>2, <2>3
<1>19. ASSUME NEW r \in Runs, Prompt(r) \in ToSet(branch')
       PROVE  results'[r] # "none" \/ (op' # Nothing /\ op'.id = r)
  <2>1. Prompt(r) \notin ToSet(placed) BY <1>7, <1>15, UsesDiffer
  <2>2. Prompt(r) \in ToSet(branch) BY <1>5, <1>19, <2>1
  <2>3. results[r] # "none" \/ (op # Nothing /\ op.id = r) BY <2>2 DEF IdsInv
  <2> QED BY <1>1, <1>5, <2>3
<1>20. IdsInv' BY <1>17, <1>18, <1>19 DEF IdsInv
<1> QED BY <1>13, <1>20

LEMMA NextOnce ==
  ASSUME Control, EveryEntryOnce, IdsInv, Next
  PROVE  EveryEntryOnce' /\ IdsInv'
<1>1. Shapes BY StepShapes
<1>2. CASE Quiet \/ Frame \/ Crash
  <2>1. UNCHANGED <<branch, op, inbox, pending, results, minted, taken>>
    BY <1>2 DEF Quiet, Frame, Crash, durable
  <2> QED BY <2>1, UntouchedOnce
<1> QED BY <1>1, <1>2, OutsideOnce, EntersOnce, InboxOnce, AcceptOnce, AbortOnce, ToolOnce,
          CommitOnce DEF Shapes

(* Every item and every result has one place, and a payload is stored as   *)
(* long as something refers to it, whoever moves them and in whatever      *)
(* order the commits arrive.                                               *)
THEOREM EntriesPlacedOnce == Spec => []EveryEntryOnce
<1>1. ASSUME Control, EveryEntryOnce, IdsInv, [Next]_vars PROVE EveryEntryOnce' /\ IdsInv'
  <2>1. CASE Next BY <1>1, <2>1, NextOnce
  <2>2. CASE UNCHANGED vars
    <3>1. UNCHANGED <<branch, op, inbox, pending, results, minted, taken>>
      BY <2>2 DEF vars, durable
    <3> QED BY <1>1, <3>1, UntouchedOnce
  <2> QED BY <1>1, <2>1, <2>2
<1>2. Control /\ (EveryEntryOnce /\ IdsInv) /\ [Next]_vars => (EveryEntryOnce /\ IdsInv)'
  BY <1>1
<1>3. Init => EveryEntryOnce /\ IdsInv
  <2> SUFFICES ASSUME Init PROVE EveryEntryOnce /\ IdsInv OBVIOUS
  <2>1. /\ branch = <<>> /\ inbox = <<>> /\ pending = {} /\ op = Nothing /\ taken = {}
    BY DEF Init
  <2>2. ToSet(branch) = {} /\ ToSet(inbox) = {} /\ IsInjective(branch) /\ IsInjective(inbox)
    BY <2>1, NoElements
  <2> QED BY <2>1, <2>2 DEF EveryEntryOnce, IdsInv, Staged
<1> QED BY <1>2, <1>3, LaneControl, PTL DEF Spec

-----------------------------------------------------------------------------
(* Results behind their reply.                                             *)
OpenBatch(n) == op # Nothing /\ op.at = "tools" /\ op.reserved = n
Due(n) == IF OpenBatch(n) THEN Cardinality({k \in Calls : op.calls[k] = "completed"})
          ELSE asked[n]
Followed(j, n) ==
  /\ Len(branch) >= j + Due(n) /\ \A k \in 1 .. Due(n) : branch[j + k] = Result(n, k)
  /\ OpenBatch(n) => Len(branch) = j + Due(n)
FollowInv == \A j \in 1 .. Len(branch) : \A n \in 1 .. minted : branch[j] = Reply(n) => Followed(j, n)

LEMMA FollowIs ==
  ASSUME LaneTypeOK
  PROVE  ResultsFollowTheReply <=> FollowInv
<1>1. DOMAIN branch = 1 .. Len(branch) BY Types
<1> QED BY <1>1 DEF ResultsFollowTheReply, FollowInv, Followed, Due, OpenBatch

LEMMA CompletedCount ==
  ASSUME Control, op # Nothing, NEW c \in Nat, Completed(c), c <= Len(op.calls)
  PROVE  Cardinality({k \in Calls : op.calls[k] = "completed"}) = c
<1>1. op \in Operations BY Types DEF Control
<1>2. Calls = 1 .. Len(op.calls) /\ Len(op.calls) \in Nat BY <1>1, OperationFields DEF Calls
<1>3. {k \in Calls : op.calls[k] = "completed"} = 1 .. c BY <1>2 DEF Completed
<1>4. Cardinality(1 .. c) = IF 1 > c THEN 0 ELSE c - 1 + 1 BY FS_Interval
<1>5. Cardinality(1 .. c) = c BY <1>4
<1> QED BY <1>3, <1>5

LEMMA DueIs ==
  ASSUME Control, NEW n \in 1 .. MaxMinted
  PROVE  Due(n) \in Nat
<1>1. CASE OpenBatch(n)
  <2>1. PICK c \in 0 .. Len(op.calls) : Completed(c)
    BY <1>1 DEF Control, BatchInv, OpenBatch
  <2>2. op # Nothing /\ op \in Operations BY <1>1, Types DEF Control, OpenBatch
  <2>3. Calls = 1 .. Len(op.calls) /\ Len(op.calls) \in Nat BY <2>2, OperationFields DEF Calls
  <2>4. c \in Nat /\ c <= Len(op.calls) BY <2>1, <2>3
  <2> QED BY <1>1, <2>1, <2>2, <2>4, CompletedCount DEF Due
<1>2. CASE ~OpenBatch(n)
  <2>1. asked[n] \in Nat BY BoundsAssumption DEF Control, LaneTypeOK
  <2> QED BY <1>2, <2>1 DEF Due
<1> QED BY <1>1, <1>2

(* What is in the branch stays where it is, and what is asked for later    *)
(* stays as it is.                                                         *)
LEMMA GrowsFollow ==
  ASSUME Control, IdsInv, FollowInv, NEW P, NEW M, Grows(P, M), minted' \in 0 .. MaxMinted,
         \A n \in 1 .. MaxMinted : Reply(n) \in ToSet(branch) =>
           ~OpenBatch(n) /\ ~OpenBatch(n)' /\ asked'[n] = asked[n],
         \A n \in 1 .. MaxMinted : Reply(n) \in M =>
           /\ Due(n)' = 0
           /\ OpenBatch(n)' => \A j \in Len(branch) + 1 .. Len(branch') : j = Len(branch')
  PROVE  FollowInv'
<1>1. LaneTypeOK BY DEF Control
<1>2. /\ branch' \in Seq(Entries) /\ ToSet(branch') = ToSet(branch) \cup P \cup M
      /\ P \subseteq Items /\ Len(branch') \in Nat /\ Len(branch') >= Len(branch)
      /\ \A j \in 1 .. Len(branch) : branch'[j] = branch[j]
  BY <1>1, Grown
<1>3. branch \in Seq(Entries) /\ Len(branch) \in Nat BY <1>1, Types
<1>4. minted \in Nat /\ MaxMinted \in Nat BY <1>1, Types, BoundsAssumption
<1>5. ASSUME NEW j \in 1 .. Len(branch'), j > Len(branch) PROVE branch'[j] \in P \cup M
  <2>1. PICK new \in Seq(Entries) : Extends(branch', branch, new) /\ ToSet(new) = P \cup M
    BY DEF Grows
  <2> DEFINE w == branch \o new
             i == j - Len(branch)
  <2>2. /\ Len(w) = Len(branch) + Len(new) /\ Len(new) \in Nat
        /\ \A k \in 1 .. Len(new) : w[Len(branch) + k] = new[k]
    BY <1>3, ConcatElements
  <2>3. branch' = w BY <2>1 DEF Extends
  <2> HIDE DEF w
  <2>4. i \in 1 .. Len(new) /\ Len(branch) + i = j BY <1>3, <1>5, <2>2, <2>3
  <2> HIDE DEF i
  <2>5. branch'[j] = new[i] BY <2>2, <2>3, <2>4
  <2> QED BY <2>1, <2>4, <2>5, ElementsAre
<1>6. ASSUME NEW j \in 1 .. Len(branch'), NEW n \in 1 .. minted', branch'[j] = Reply(n)
      PROVE  Followed(j, n)'
  <2>1. n \in 1 .. MaxMinted BY <1>4
  <2>2. CASE j <= Len(branch)
    <3>1. j \in 1 .. Len(branch) /\ branch[j] = Reply(n) BY <1>2, <1>3, <1>6, <2>2
    <3>2. Reply(n) \in ToSet(branch) BY <1>3, <3>1, ElementsAre
    <3>3. n \in 1 .. minted
      <4>1. n <= minted BY <2>1, <3>2 DEF IdsInv, Uses
      <4> QED BY <1>4, <2>1, <4>1
    <3>4. Followed(j, n) BY <3>1, <3>3 DEF FollowInv
    <3>5. ~OpenBatch(n) /\ ~OpenBatch(n)' /\ asked'[n] = asked[n] BY <2>1, <3>2
    <3>6. Due(n) = asked[n] /\ Due(n)' = asked[n] /\ Due(n) \in Nat
      BY <2>1, <3>5, DueIs DEF Due
    <3> DEFINE p == asked[n]
    <3>7. /\ p \in Nat /\ Len(branch) >= j + p /\ \A k \in 1 .. p : branch[j + k] = Result(n, k)
      BY <3>4, <3>6 DEF Followed
    <3> HIDE DEF p
    <3>8. Len(branch') >= j + p BY <1>2, <1>3, <3>1, <3>7
    <3>9. \A k \in 1 .. p : branch'[j + k] = Result(n, k)
      <4>1. ASSUME NEW k \in 1 .. p PROVE j + k \in 1 .. Len(branch) BY <1>3, <3>1, <3>7
      <4> QED BY <1>2, <3>7, <4>1
    <3>10. Due(n)' = p BY <3>6 DEF p
    <3> QED BY <3>5, <3>8, <3>9, <3>10 DEF Followed
  <2>3. CASE j > Len(branch)
    <3>1. Reply(n) \in M
      <4>1. branch'[j] \in P \cup M BY <1>2, <1>3, <1>5, <2>3
      <4>2. Reply(n) \notin Items BY <2>1, MadeIds
      <4> QED BY <1>2, <1>6, <4>1, <4>2
    <3>2. Due(n)' = 0 BY <2>1, <3>1
    <3>3. OpenBatch(n)' => j = Len(branch') BY <1>2, <1>3, <2>1, <2>3, <3>1
    <3> QED BY <1>2, <1>6, <3>2, <3>3 DEF Followed
  <2> QED BY <1>3, <2>2, <2>3
<1> QED BY <1>6 DEF FollowInv

LEMMA OutsideFollows ==
  ASSUME Control, IdsInv, FollowInv, Onward \/ Ended
  PROVE  FollowInv' /\ AskedInv'
<1>1. Outside /\ Adds BY DEF Onward, Ended
<1>2. PICK P, M : Grows(P, M) /\ Fresh(M) BY <1>1 DEF Adds
<1>3. /\ minted' \in 0 .. MaxMinted
      /\ \/ asked' = asked
         \/ op.at = "assistant.effect_pending" /\ asked' = [asked EXCEPT ![op.reserved] = 0]
  BY <1>1 DEF Adds
<1>4. op # Nothing /\ op.at # "tools" /\ asked \in [1 .. MaxMinted -> 0 .. MaxCalls]
  BY <1>1, OutsideFacts DEF Outside, LaneTypeOK
<1>5. op' = Nothing \/ op'.at # "tools" BY DEF Onward, Turned, Ended, Settle
<1>6. \A n : ~OpenBatch(n) /\ ~OpenBatch(n)' BY <1>4, <1>5 DEF OpenBatch
<1>7. ASSUME NEW n \in 1 .. MaxMinted, Reply(n) \in ToSet(branch)
      PROVE  asked'[n] = asked[n]
  <2>1. CASE asked' = asked BY <2>1
  <2>2. CASE op.at = "assistant.effect_pending" /\ asked' = [asked EXCEPT ![op.reserved] = 0]
    <3>1. ToSet(branch) \cap Uses(op.reserved) = {} BY <1>1, <2>2, AwaitedIsNew DEF Awaits
    <3>2. n # op.reserved BY <1>7, <3>1 DEF Uses
    <3> QED BY <1>4, <2>2, <3>2
  <2> QED BY <1>3, <2>1, <2>2
<1>8. \A n \in 1 .. MaxMinted : Reply(n) \in M => Due(n)' = 0
  <2>1. \A n \in 1 .. MaxMinted : Reply(n) \in M => asked'[n] = 0 BY <1>2, <1>4, FreshIsNew
  <2> QED BY <1>6, <2>1 DEF Due
<1>9. FollowInv' BY <1>2, <1>3, <1>6, <1>7, <1>8, GrowsFollow
<1>10. AskedInv' BY <1>5 DEF AskedInv
<1> QED BY <1>9, <1>10

LEMMA EntersFollows ==
  ASSUME Control, IdsInv, FollowInv, EveryEntryOnce', NEW count \in Positions, Enters(count)
  PROVE  FollowInv' /\ AskedInv'
<1> DEFINE M == {Reply(op.reserved)}
<1>1. /\ Outside /\ op.at \in Awaits /\ Grows({}, M)
      /\ op' # Nothing /\ op'.at = "tools" /\ op'.reserved = op.reserved
      /\ op'.calls = [k \in 1 .. count |-> "planned"]
      /\ asked' = [asked EXCEPT ![op.reserved] = count] /\ minted' = minted
  BY IdsAssumption DEF Enters, Awaits
<1>2. /\ op.reserved \in 1 .. MaxMinted /\ ToSet(branch) \cap Uses(op.reserved) = {}
  BY <1>1, AwaitedIsNew
<1>3. LaneTypeOK /\ op.at # "tools" BY <1>1, OutsideFacts DEF Outside
<1>4. minted' \in 0 .. MaxMinted /\ asked \in [1 .. MaxMinted -> 0 .. MaxCalls]
  BY <1>1, <1>3 DEF LaneTypeOK
<1>5. \A n : ~OpenBatch(n) /\ (OpenBatch(n)' <=> n = op.reserved)
  BY <1>1, <1>3 DEF OpenBatch
<1>6. ASSUME NEW n \in 1 .. MaxMinted, Reply(n) \in ToSet(branch)
      PROVE  n # op.reserved /\ asked'[n] = asked[n]
  <2>1. n # op.reserved BY <1>2, <1>6 DEF Uses
  <2> QED BY <1>1, <1>4, <2>1
<1>7. ASSUME NEW n \in 1 .. MaxMinted, n = op.reserved PROVE Due(n)' = 0
  <2>1. {k \in DOMAIN op'.calls : op'.calls[k] = "completed"} = {} BY <1>1
  <2>2. Cardinality({}) = 0 BY FS_EmptySet
  <2>3. OpenBatch(n)' BY <1>5, <1>7
  <2>4. Due(n)' = Cardinality({k \in DOMAIN op'.calls : op'.calls[k] = "completed"})
    BY <2>3 DEF Due, Calls
  <2> QED BY <2>1, <2>2, <2>4
<1>8. ASSUME NEW j \in Len(branch) + 1 .. Len(branch') PROVE j = Len(branch')
  <2>1. PICK new \in Seq(Entries) : Extends(branch', branch, new) /\ ToSet(new) = {} \cup M
    BY <1>1 DEF Grows
  <2> DEFINE w == branch \o new
  <2>2. branch \in Seq(Entries) /\ Len(branch) \in Nat /\ Len(new) \in Nat BY <1>3, Types
  <2>3. /\ w \in Seq(Entries) /\ Len(w) = Len(branch) + Len(new)
        /\ \A k \in 1 .. Len(new) : w[Len(branch) + k] = new[k]
    BY <2>2, ConcatElements
  <2>4. branch' = w BY <2>1 DEF Extends
  <2> HIDE DEF w
  <2>5. \A k \in 1 .. Len(new) : branch'[Len(branch) + k] = Reply(op.reserved)
    <3>1. \A k \in 1 .. Len(new) : new[k] \in M BY <2>1, ElementsAre
    <3> QED BY <2>3, <2>4, <3>1
  <2> DEFINE i == j - Len(branch)
             m == Len(new)
  <2>6. i \in 1 .. m /\ m \in 1 .. m /\ Len(branch) + i = j /\ Len(branch) + m = Len(branch')
    BY <2>2, <2>3, <2>4
  <2>7. branch'[j] = branch'[Len(branch')] BY <2>5, <2>6
  <2>8. j \in DOMAIN branch' /\ Len(branch') \in DOMAIN branch' BY <2>2, <2>3, <2>4, <2>6
  <2> QED BY <2>7, <2>8 DEF EveryEntryOnce, IsInjective
<1>9. \A n \in 1 .. MaxMinted : Reply(n) \in M =>
        /\ Due(n)' = 0
        /\ OpenBatch(n)' => \A j \in Len(branch) + 1 .. Len(branch') : j = Len(branch')
  <2>1. \A n \in 1 .. MaxMinted : Reply(n) \in M => n = op.reserved BY IdsDiffer
  <2> HIDE DEF M
  <2> QED BY <1>7, <1>8, <2>1
<1>10. \A n \in 1 .. MaxMinted : Reply(n) \in ToSet(branch) =>
         ~OpenBatch(n) /\ ~OpenBatch(n)' /\ asked'[n] = asked[n]
  BY <1>5, <1>6
<1>11. AskedInv'
  <2>1. Len(op'.calls) = count /\ asked'[op.reserved] = count
    BY <1>1, <1>2, <1>4, BoundsAssumption DEF Positions
  <2> QED BY <1>1, <2>1 DEF AskedInv
<1> HIDE DEF M
<1>12. FollowInv' BY <1>1, <1>4, <1>9, <1>10, GrowsFollow
<1> QED BY <1>11, <1>12

LEMMA FollowStays ==
  ASSUME FollowInv, AskedInv, UNCHANGED <<branch, minted, asked>>,
         \/ op' = op
         \/ /\ op # Nothing /\ op' # Nothing /\ op'.at = op.at /\ op'.reserved = op.reserved
            /\ DOMAIN op'.calls = DOMAIN op.calls /\ Len(op'.calls) = Len(op.calls)
            /\ \A k \in Calls : op.calls[k] = "completed" <=> op'.calls[k] = "completed"
  PROVE  FollowInv' /\ AskedInv'
<1>1. CASE op' = op
  <2>1. \A n : (OpenBatch(n)' <=> OpenBatch(n)) /\ Due(n)' = Due(n)
    BY <1>1 DEF Due, OpenBatch, Calls
  <2>2. FollowInv' BY <2>1 DEF FollowInv, Followed
  <2> QED BY <1>1, <2>2 DEF AskedInv
<1>2. CASE /\ op # Nothing /\ op' # Nothing /\ op'.at = op.at /\ op'.reserved = op.reserved
           /\ DOMAIN op'.calls = DOMAIN op.calls /\ Len(op'.calls) = Len(op.calls)
           /\ \A k \in Calls : op.calls[k] = "completed" <=> op'.calls[k] = "completed"
  <2>1. \A n : OpenBatch(n)' <=> OpenBatch(n) BY <1>2 DEF OpenBatch
  <2>2. {k \in Calls : op.calls[k] = "completed"}
          = {k \in DOMAIN op'.calls : op'.calls[k] = "completed"}
    BY <1>2 DEF Calls
  <2>3. \A n : Due(n)' = Due(n) BY <2>1, <2>2 DEF Due, Calls
  <2>4. FollowInv' BY <2>1, <2>3 DEF FollowInv, Followed
  <2> QED BY <1>2, <2>4 DEF AskedInv
<1> QED BY <1>1, <1>2

LEMMA CommitFollows ==
  ASSUME Control, IdsInv, FollowInv, AskedInv, CommitPlacement
  PROVE  FollowInv' /\ AskedInv'
<1>1. /\ Live("tools") /\ op.at = "tools" /\ UNCHANGED <<minted, asked>> BY CommitPlaces
<1>2. PICK c, b \in 0 .. Len(op.calls) : \E placed \in Seq(Entries), calls \in Seq(CallStates) :
         Placing(c, b, placed, calls)
  BY CommitPlaces
<1>3. PICK placed \in Seq(Entries), calls \in Seq(CallStates) : Placing(c, b, placed, calls)
  BY <1>2
<1>4. /\ Len(branch') = Len(branch) + (b - c)
      /\ \A j \in 1 .. Len(branch) : branch'[j] = branch[j]
      /\ \A i \in 1 .. b - c : branch'[Len(branch) + i] = Id(c + i)
      /\ op' # Nothing /\ op'.reserved = op.reserved
      /\ \/ b = Len(op.calls) /\ op'.at = "checkpoint" /\ op'.calls = <<>>
         \/ b < Len(op.calls) /\ op'.at = "tools" /\ op'.calls = calls
  BY <1>3, CommitFields
<1>5. /\ c < b /\ Completed(c) /\ DOMAIN calls = Calls /\ Len(calls) = Len(op.calls)
      /\ \A k \in Calls : calls[k] = IF k \in c + 1 .. b THEN "completed" ELSE op.calls[k]
  BY <1>3 DEF Placing
<1>6. /\ LaneTypeOK /\ op # Nothing /\ Calls = 1 .. Len(op.calls) /\ Len(op.calls) \in Nat
      /\ op.reserved \in 1 .. MaxMinted
  BY <1>1, Tooling
<1>7. c \in Nat /\ b \in Nat /\ c <= Len(op.calls) /\ Len(branch) \in Nat /\ minted \in Nat
      /\ minted <= MaxMinted /\ MaxMinted \in Nat
  BY <1>6, Types, BoundsAssumption
<1>8. ASSUME NEW n \in 1 .. MaxMinted, n = op.reserved
      PROVE  /\ OpenBatch(n) /\ Due(n) = c /\ Due(n)' = b
             /\ OpenBatch(n)' => b < Len(op.calls)
  <2>1. OpenBatch(n) BY <1>1, <1>6, <1>8 DEF OpenBatch
  <2>2. Due(n) = c BY <1>5, <1>6, <1>7, <2>1, CompletedCount DEF Due
  <2>3. CASE b = Len(op.calls)
    <3>1. ~OpenBatch(n)' BY <1>4, <1>6, <2>3 DEF OpenBatch
    <3>2. asked[n] = b BY <1>1, <1>6, <1>8, <2>3 DEF AskedInv
    <3> QED BY <1>1, <2>1, <2>2, <3>1, <3>2 DEF Due
  <2>4. CASE b < Len(op.calls)
    <3>1. op'.calls = calls /\ op'.at = "tools" BY <1>4, <1>6, <2>4
    <3>2. OpenBatch(n)' BY <1>4, <1>8, <3>1 DEF OpenBatch
    <3>3. \A k \in Calls : calls[k] = "completed" <=> k <= b
      BY <1>5, <1>6, <1>7 DEF Completed
    <3>4. {k \in Calls : calls[k] = "completed"} = 1 .. b BY <1>6, <1>7, <2>4, <3>3
    <3>5. Cardinality(1 .. b) = IF 1 > b THEN 0 ELSE b - 1 + 1 BY <1>7, FS_Interval
    <3>6. Cardinality(1 .. b) = b BY <1>7, <3>5
    <3>7. {k \in DOMAIN op'.calls : op'.calls[k] = "completed"}
            = {k \in Calls : calls[k] = "completed"}
      BY <1>5, <3>1
    <3>8. Due(n)' = Cardinality({k \in DOMAIN op'.calls : op'.calls[k] = "completed"})
      BY <3>2 DEF Due, Calls
    <3>9. Due(n)' = b BY <3>4, <3>6, <3>7, <3>8
    <3> QED BY <2>1, <2>2, <2>4, <3>9
  <2> QED BY <1>4, <2>3, <2>4
<1>9. ASSUME NEW n \in 1 .. MaxMinted, n # op.reserved
      PROVE  ~OpenBatch(n)' /\ ~OpenBatch(n) /\ Due(n)' = Due(n)
  <2>1. ~OpenBatch(n)' /\ ~OpenBatch(n) BY <1>4, <1>9 DEF OpenBatch
  <2> QED BY <1>1, <2>1 DEF Due
<1>10. ASSUME NEW j \in 1 .. Len(branch'), NEW n \in 1 .. minted', branch'[j] = Reply(n)
       PROVE  Followed(j, n)'
  <2>1. n \in 1 .. MaxMinted /\ n \in 1 .. minted BY <1>1, <1>7
  <2>2. j \in 1 .. Len(branch)
    <3>1. SUFFICES ASSUME ~(j <= Len(branch)) PROVE FALSE BY <1>7
    <3> DEFINE i == j - Len(branch)
    <3>2. i \in 1 .. b - c /\ Len(branch) + i = j BY <1>4, <1>5, <1>7, <3>1
    <3> HIDE DEF i
    <3>3. branch'[j] = Id(c + i) BY <1>4, <3>2
    <3> QED BY <1>10, <3>3, IdsDiffer DEF Id
  <2>3. branch[j] = Reply(n) BY <1>4, <1>10, <2>2
  <2>4. Followed(j, n) BY <2>1, <2>2, <2>3 DEF FollowInv
  <2>5. CASE n # op.reserved
    <3> DEFINE p == Due(n)
    <3>1. p \in Nat /\ Due(n)' = p /\ ~OpenBatch(n)' BY <1>9, <2>1, <2>5, DueIs
    <3>2. Len(branch) >= j + p /\ \A k \in 1 .. p : branch[j + k] = Result(n, k)
      BY <2>4 DEF Followed
    <3> HIDE DEF p
    <3>3. \A k \in 1 .. p : j + k \in 1 .. Len(branch) BY <1>7, <2>2, <3>1, <3>2
    <3>4. \A k \in 1 .. p : branch'[j + k] = Result(n, k) BY <1>4, <3>2, <3>3
    <3>5. Len(branch') >= j + p BY <1>4, <1>5, <1>7, <2>2, <3>1, <3>2
    <3> QED BY <3>1, <3>4, <3>5 DEF Followed
  <2>6. CASE n = op.reserved
    <3>1. /\ OpenBatch(n) /\ Due(n) = c /\ Due(n)' = b BY <1>8, <2>1, <2>6
    <3>2. Len(branch) = j + c /\ \A k \in 1 .. c : branch[j + k] = Result(n, k)
      BY <2>4, <3>1 DEF Followed
    <3>3. Len(branch') = j + b BY <1>4, <1>7, <2>2, <3>2
    <3>4. ASSUME NEW k \in 1 .. b PROVE branch'[j + k] = Result(n, k)
      <4>1. CASE k <= c
        <5>1. k \in 1 .. c /\ j + k \in 1 .. Len(branch) BY <1>7, <2>2, <3>2, <4>1
        <5> QED BY <1>4, <3>2, <5>1
      <4>2. CASE ~(k <= c)
        <5> DEFINE i == k - c
        <5>1. i \in 1 .. b - c /\ c + i = k /\ Len(branch) + i = j + k
          BY <1>5, <1>7, <2>2, <3>2, <4>2
        <5> HIDE DEF i
        <5>2. branch'[j + k] = Id(k) BY <1>4, <5>1
        <5> QED BY <2>6, <5>2 DEF Id
      <4> QED BY <4>1, <4>2
    <3> QED BY <1>7, <2>2, <3>1, <3>3, <3>4 DEF Followed
  <2> QED BY <2>5, <2>6
<1>11. FollowInv' BY <1>10 DEF FollowInv
<1>12. AskedInv' BY <1>1, <1>4, <1>5, <1>6 DEF AskedInv
<1> QED BY <1>11, <1>12

LEMMA AroundFollows ==
  ASSUME Control, IdsInv, FollowInv, AskedInv, op = Nothing, NEW P, NEW M, Grows(P, M),
         \A n : Reply(n) \notin M, op' = Nothing \/ op'.at = "starting",
         UNCHANGED <<minted, asked>>
  PROVE  FollowInv' /\ AskedInv'
<1>1. \A n : ~OpenBatch(n) /\ ~OpenBatch(n)' BY DEF OpenBatch
<1>2. minted' \in 0 .. MaxMinted BY DEF Control, LaneTypeOK
<1>3. FollowInv' BY <1>1, <1>2, GrowsFollow
<1>4. AskedInv' BY DEF AskedInv
<1> QED BY <1>3, <1>4

LEMMA NextFollows ==
  ASSUME Control, IdsInv, FollowInv, AskedInv, EveryEntryOnce', Next
  PROVE  FollowInv' /\ AskedInv'
<1>1. Shapes /\ LaneTypeOK BY StepShapes DEF Control
<1>2. CASE Quiet \/ Frame \/ Crash
  <2>1. UNCHANGED <<branch, op, minted, asked>> BY <1>2 DEF Quiet, Frame, Crash, durable
  <2> QED BY <2>1, FollowStays
<1>3. ASSUME NEW i \in Items, Enqueue(i) \/ CancelQueued(i)
      PROVE  FollowInv' /\ AskedInv'
  <2>1. UNCHANGED <<branch, op, minted, asked>> BY <1>3 DEF Enqueue, CancelQueued
  <2> QED BY <2>1, FollowStays
<1>4. ASSUME NEW i \in Items, AppendIdle(i) PROVE FollowInv' /\ AskedInv'
  <2> DEFINE M == {i}
  <2>1. PICK P : Grows(P, M) BY <1>1, <1>4, AppendIdleGrows
  <2>2. op = Nothing /\ UNCHANGED <<op, minted, asked>> BY <1>1, <1>4, AppendIdleGrows
  <2>3. \A n \in 1 .. MaxMinted : Reply(n) \notin M BY MadeIds
  <2>4. \A n : ~OpenBatch(n) /\ ~OpenBatch(n)' BY <2>2 DEF OpenBatch
  <2>5. minted' \in 0 .. MaxMinted BY <1>1, <2>2 DEF LaneTypeOK
  <2> HIDE DEF M
  <2>6. FollowInv' BY <2>1, <2>2, <2>3, <2>4, <2>5, GrowsFollow
  <2>7. AskedInv' BY <2>2 DEF AskedInv
  <2> QED BY <2>6, <2>7
<1>5. ASSUME NEW r \in Runs, Accept(r, <<Prompt(r)>>) \/ Accept(r, <<>>)
      PROVE  FollowInv' /\ AskedInv'
  <2> DEFINE p == <<Prompt(r)>>
             q == <<>>
  <2>1. p \in {<<Prompt(r)>>, <<>>} /\ q \in {<<Prompt(r)>>, <<>>} OBVIOUS
  <2>2. Accept(r, p) \/ Accept(r, q) BY <1>5
  <2> HIDE DEF p, q
  <2>3. /\ \E P, M : Grows(P, M) /\ M \in {{Prompt(r)}, {}}
        /\ op = Nothing /\ op' = Started(r) /\ UNCHANGED <<minted, asked>>
    BY <1>1, <2>1, <2>2, AcceptGrows
  <2>4. PICK P, M : Grows(P, M) /\ M \in {{Prompt(r)}, {}} BY <2>3
  <2>5. \A n : Reply(n) \notin M BY <2>4, IdsDiffer
  <2>6. op'.at = "starting" BY <2>3, StartedFields
  <2> QED BY <2>3, <2>4, <2>5, <2>6, AroundFollows
<1>6. CASE AbortCommits
  <2>1. /\ op # Nothing /\ op' # Nothing /\ op'.at = op.at /\ op'.reserved = op.reserved
        /\ op'.calls = op.calls /\ UNCHANGED <<branch, minted, asked>>
    BY <1>6, AbortCommitsFields
  <2> QED BY <2>1, FollowStays
<1>7. ASSUME NEW k \in Positions, Replay(k) \/ Execute(k) \/ ToolCheckpoint(k)
      PROVE  FollowInv' /\ AskedInv'
  <2>1. UNCHANGED <<branch, op, minted, asked>>
    BY <1>7 DEF Replay, Execute, ToolCheckpoint, NoTransfer, durable
  <2> QED BY <2>1, FollowStays
<1>8. ASSUME NEW k \in Positions,
             ToolIntent(k) \/ \E terminate \in BOOLEAN : PublishOutcome(k, terminate)
      PROVE  FollowInv' /\ AskedInv'
  <2>1. PICK s \in {"effect_pending", "outcome_ready"} : CallTo(k, s) /\ k \in Calls
                       /\ op.calls[k] \in {"planned", "effect_pending"}
    <3>1. CASE ToolIntent(k)
      <4>1. /\ Live("tools") /\ op.at = "tools" /\ k \in Calls
            /\ op.calls[k] \in {"planned", "effect_pending"}
            /\ op' = [op EXCEPT !.calls[k] = "effect_pending"]
        BY <3>1, TurnCall DEF ToolIntent
      <4>2. op \in Operations BY <4>1, Tooling
      <4>3. "effect_pending" \in CallStates /\ {} \in SUBSET Positions BY DEF CallStates
      <4> QED BY <4>1, <4>2, <4>3, CallChanges DEF Calls
    <3>2. ASSUME NEW terminate \in BOOLEAN, PublishOutcome(k, terminate)
          PROVE  /\ CallTo(k, "outcome_ready") /\ k \in Calls
                 /\ op.calls[k] \in {"planned", "effect_pending"}
      BY <3>2, PublishOutcomeControl
    <3> QED BY <1>8, <3>1, <3>2
  <2>2. UNCHANGED <<branch, minted, asked>> /\ op # Nothing
    <3>1. UNCHANGED <<branch, minted, asked>> BY <1>8 DEF ToolIntent, PublishOutcome, NoTransfer
    <3>2. Live("tools") /\ op.at = "tools"
      BY <1>8, TurnCall DEF ToolIntent, PublishOutcome, Executing
    <3> QED BY <3>1, <3>2, Tooling
  <2>3. /\ op' # Nothing /\ op'.at = op.at /\ op'.reserved = op.reserved
        /\ DOMAIN op'.calls = DOMAIN op.calls /\ Len(op'.calls) = Len(op.calls)
        /\ \A j \in Calls : op.calls[j] = "completed" <=> op'.calls[j] = "completed"
    BY <2>1, IdsAssumption DEF CallTo, Calls
  <2> QED BY <2>2, <2>3, FollowStays
<1> QED BY <1>1, <1>2, <1>3, <1>4, <1>5, <1>6, <1>7, <1>8, OutsideFollows, EntersFollows,
          CommitFollows DEF Shapes

(* However a batch of tool calls was run, replayed, refused or swept, its  *)
(* results stand behind their reply, in source order and without a gap.    *)
THEOREM ResultsBehindTheirReply == Spec => []ResultsFollowTheReply
<1> DEFINE Inv == EveryEntryOnce /\ IdsInv /\ FollowInv /\ AskedInv
<1>1. ASSUME Control, Inv, [Next]_vars PROVE Inv'
  <2>1. CASE Next BY <1>1, <2>1, NextOnce, NextFollows
  <2>2. CASE UNCHANGED vars
    <3>1. UNCHANGED <<branch, op, inbox, pending, results, minted, asked, taken>>
      BY <2>2 DEF vars, durable
    <3> QED BY <1>1, <3>1, UntouchedOnce, FollowStays
  <2> QED BY <1>1, <2>1, <2>2
<1>2. Control /\ Inv /\ [Next]_vars => Inv' BY <1>1
<1>3. Init => Inv
  <2> SUFFICES ASSUME Init PROVE Inv OBVIOUS
  <2>1. /\ branch = <<>> /\ inbox = <<>> /\ pending = {} /\ op = Nothing /\ taken = {}
    BY DEF Init
  <2>2. ToSet(branch) = {} /\ ToSet(inbox) = {} /\ IsInjective(branch) /\ IsInjective(inbox)
        /\ Len(branch) = 0
    BY <2>1, NoElements
  <2> QED BY <2>1, <2>2 DEF EveryEntryOnce, IdsInv, Staged, FollowInv, AskedInv
<1>4. Control /\ Inv => ResultsFollowTheReply BY FollowIs DEF Control
<1> HIDE DEF Inv
<1> QED BY <1>2, <1>3, <1>4, LaneControl, PTL DEF Spec

=============================================================================
