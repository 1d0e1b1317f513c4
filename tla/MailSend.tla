------------------------------ MODULE MailSend ------------------------------
(***************************************************************************)
(* Sending a letter: SendCoordinator (Prepare, Confirm, SendAsync and the  *)
(* recovery at start-up), OutreachService (Edit, ReconcileAsync, recovery) *)
(* and the Gmail transport they drive, over the tables Outreach,           *)
(* SendConfirmation and SendAttempt.  A transaction is one action; an      *)
(* asynchronous operation is a call that takes one action per transaction  *)
(* and per await.  Calls interleave freely (double clicks), the process    *)
(* may crash between any two steps, and Gmail may process a request the    *)
(* caller has given up on.                                                 *)
(*                                                                         *)
(* A confirmation c stands for its MIME artifact, with its fixed RFC       *)
(* Message-ID, and for its only possible SendAttempt (ConfirmationId is    *)
(* UNIQUE).  The text of a draft is identified with its revision.          *)
(***************************************************************************)
EXTENDS Naturals, FiniteSets

CONSTANTS
  Drafts,      \* Outreach rows
  Confs,       \* SendConfirmation rows, in no particular order
  Calls,       \* asynchronous operations in progress at one time
  Accounts,    \* Gmail accounts the user may connect
  NoDraft, NoConf, NoAccount,
  MaxRevision  \* bound on Outreach.Revision

ASSUME NoDraftAssumption     == NoDraft \notin Drafts
ASSUME NoConfAssumption      == NoConf \notin Confs
ASSUME NoAccountAssumption   == NoAccount \notin Accounts
ASSUME MaxRevisionAssumption == MaxRevision \in Nat \ {0}

VARIABLES
  app,      \* the desktop process: down, in one of two recoveries, or up
  account,  \* GmailAuth.Account
  draft,    \* draft[d]: the Outreach row
  conf,     \* conf[c]: the SendConfirmation row
  attempt,  \* attempt[c]: state of the SendAttempt of confirmation c
  call,     \* call[k]: local state of an asynchronous operation
  wire,     \* requests <<c, a>> posted with a token of account a, unprocessed
  copies    \* copies[c][a]: messages with the Message-ID of c in a's Sent folder

rows   == <<draft, conf, attempt>>
vars   == <<app, account, draft, conf, attempt, call, wire, copies>>

Revisions     == 1 .. MaxRevision
DraftStates   == {"Draft", "Sending", "Sent", "Failed", "Unknown"}
ConfStates    == {"unused", "reading", "open", "expired", "consumed"}
AttemptStates == {"None", "Sending", "Transmitting", "Sent", "Failed", "Unknown"}
Pending       == {"Sending", "Transmitting", "Unknown"}
Phases == {"idle", "read", "claimed", "token", "posted", "accepted", "rejected", "unclear", "checking"}

Row(d)       == [state |-> "Draft", revision |-> 1, snapshot |-> NoConf]
NewConf(c)   == [state |-> "unused", draft |-> NoDraft, revision |-> 1, sender |-> NoAccount]
IdleCall     == [phase |-> "idle", letter |-> NoConf]

Init ==
  /\ app = "up" /\ account = NoAccount
  /\ draft   = [d \in Drafts |-> Row(d)]
  /\ conf    = [c \in Confs |-> NewConf(c)]
  /\ attempt = [c \in Confs |-> "None"]
  /\ call    = [k \in Calls |-> IdleCall]
  /\ wire = {} /\ copies = [c \in Confs |-> [a \in Accounts |-> 0]]

-----------------------------------------------------------------------------
(* The user edits and prepares *)

Idle == \A k \in Calls : call[k].phase = "idle"

(* ConnectGmailAsync is enabled only while no mail operation is running    *)
(* (mailBusy).                                                             *)
ConnectAnytime(a) ==
  /\ app = "up" /\ account' = a
  /\ UNCHANGED <<app, rows, call, wire, copies>>

Connect(a) ==
  /\ app = "up" /\ Idle /\ account' = a
  /\ UNCHANGED <<app, rows, call, wire, copies>>

EditableUnlessSent(d) == draft[d].state \notin {"Sending", "Sent"}
Editable(d) == draft[d].state \in {"Draft", "Failed"}

(* Edit refuses an expectedRevision that is not the current one: no step.  *)
Edit(d) ==
  /\ app = "up" /\ Editable(d) /\ draft[d].revision < MaxRevision
  /\ draft' = [draft EXCEPT ![d] = [state |-> "Draft", revision |-> @.revision + 1,
                                    snapshot |-> NoConf]]
  /\ UNCHANGED <<app, account, conf, attempt, call, wire, copies>>

NothingPending(d) == \A c \in Confs : conf[c].draft = d => attempt[c] \notin Pending

(* Prepare reads the draft outside the transaction that stores the         *)
(* confirmation, so an edit may come between the two.                      *)
PrepareRead(c, d) ==
  /\ app = "up" /\ account # NoAccount /\ conf[c].state = "unused"
  /\ draft[d].state \in {"Draft", "Failed"} /\ NothingPending(d)
  /\ conf' = [conf EXCEPT ![c] = [state |-> "reading", draft |-> d,
                                  revision |-> draft[d].revision, sender |-> account]]
  /\ UNCHANGED <<app, account, draft, attempt, call, wire, copies>>

PrepareStore(c) ==
  /\ app = "up" /\ conf[c].state = "reading"
  /\ conf' = [conf EXCEPT ![c] = IF NothingPending(@.draft) THEN [@ EXCEPT !.state = "open"]
                                                           ELSE NewConf(c)]
  /\ UNCHANGED <<app, account, draft, attempt, call, wire, copies>>

Expire(c) ==
  /\ conf[c].state = "open"
  /\ conf' = [conf EXCEPT ![c].state = "expired"]
  /\ UNCHANGED <<app, account, draft, attempt, call, wire, copies>>

(* SEND_SNAPSHOT_STALE unless the draft is what the preview showed.        *)
SnapshotIgnored(c) == draft[conf[c].draft].state \in {"Draft", "Failed"}
SnapshotFresh(c) ==
  /\ draft[conf[c].draft].state \in {"Draft", "Failed"}
  /\ draft[conf[c].draft].revision = conf[c].revision

Confirm(c) ==
  /\ app = "up" /\ conf[c].state = "open" /\ conf[c].sender = account
  /\ SnapshotFresh(c)
  /\ NothingPending(conf[c].draft)          \* UX_SendAttempt_DraftPending
  /\ attempt' = [attempt EXCEPT ![c] = "Sending"]
  /\ conf'    = [conf EXCEPT ![c].state = "consumed"]
  /\ draft'   = [draft EXCEPT ![conf[c].draft].state = "Sending",
                              ![conf[c].draft].snapshot = c]
  /\ UNCHANGED <<app, account, call, wire, copies>>

-----------------------------------------------------------------------------
(* SendCoordinator.SendAsync and GmailService.SendAsync *)

Advance(k, phase) == call' = [call EXCEPT ![k].phase = phase]
Return(k)         == call' = [call EXCEPT ![k] = IdleCall]

SendRead(k, c) ==
  /\ app = "up" /\ call[k].phase = "idle"
  /\ attempt[c] = "Sending" /\ conf[c].sender = account
  /\ call' = [call EXCEPT ![k] = [phase |-> "read", letter |-> c]]
  /\ UNCHANGED <<app, account, rows, wire, copies>>

Claimable(c) == attempt[c] = "Sending"

(* SEND_ATTEMPT_NOT_SENDABLE when another call was faster. *)
Claim(k) ==
  /\ call[k].phase = "read"
  /\ LET c == call[k].letter IN
     IF Claimable(c)
     THEN attempt' = [attempt EXCEPT ![c] = "Transmitting"] /\ Advance(k, "claimed")
     ELSE Return(k) /\ UNCHANGED attempt
  /\ UNCHANGED <<app, account, draft, conf, wire, copies>>

(* The transport compares the account and then awaits a token. *)
EnterTransport(k) ==
  /\ call[k].phase = "claimed"
  /\ Advance(k, IF conf[call[k].letter].sender = account THEN "token" ELSE "rejected")
  /\ UNCHANGED <<app, account, rows, wire, copies>>

TokenRefused(k) ==
  /\ call[k].phase = "token"
  /\ Advance(k, "rejected")
  /\ UNCHANGED <<app, account, rows, wire, copies>>

Post(k) ==
  /\ call[k].phase = "token"
  /\ wire' = wire \cup {<<call[k].letter, account>>}
  /\ Advance(k, "posted")
  /\ UNCHANGED <<app, account, rows, copies>>

(* A response reaches the call that still waits for it, or nobody. *)
Answer(c, phase) ==
  call' = [k \in Calls |-> IF call[k].phase = "posted" /\ call[k].letter = c
                           THEN [call[k] EXCEPT !.phase = phase] ELSE call[k]]

(* Gmail: accept the message, refuse it (4xx), or never see it. *)
Accept(c, a) ==
  /\ <<c, a>> \in wire /\ wire' = wire \ {<<c, a>>}
  /\ copies' = [copies EXCEPT ![c][a] = @ + 1]
  /\ Answer(c, "accepted")
  /\ UNCHANGED <<app, account, rows>>

Refuse(c, a) ==
  /\ <<c, a>> \in wire /\ wire' = wire \ {<<c, a>>}
  /\ Answer(c, "rejected")
  /\ UNCHANGED <<app, account, rows, copies>>

Vanish(c, a) ==
  /\ <<c, a>> \in wire /\ wire' = wire \ {<<c, a>>}
  /\ UNCHANGED <<app, account, rows, call, copies>>

(* Timeout, broken connection, 408 or 5xx; or a receipt that cannot be     *)
(* parsed or stored.                                                       *)
LoseReceiptOnly(k) ==
  /\ call[k].phase = "accepted"
  /\ Advance(k, "unclear")
  /\ UNCHANGED <<app, account, rows, wire, copies>>

LoseResult(k) ==
  /\ call[k].phase \in {"posted", "accepted"}
  /\ Advance(k, "unclear")
  /\ UNCHANGED <<app, account, rows, wire, copies>>

StoreReceipt(k) ==
  /\ call[k].phase = "accepted"
  /\ LET c == call[k].letter  d == conf[c].draft IN
     IF attempt[c] = "Transmitting" /\ draft[d].state = "Sending"
     THEN /\ attempt' = [attempt EXCEPT ![c] = "Sent"]
          /\ draft'   = [draft EXCEPT ![d].state = "Sent"]
          /\ Return(k)
     ELSE Advance(k, "unclear") /\ UNCHANGED <<attempt, draft>>   \* SEND_STATE_CONFLICT
  /\ UNCHANGED <<app, account, conf, wire, copies>>

OutcomeAlwaysFailed(phase) == "Failed"
Outcome(phase) == IF phase = "rejected" THEN "Failed" ELSE "Unknown"

StoreOutcome(k) ==
  /\ call[k].phase \in {"rejected", "unclear"}
  /\ LET c == call[k].letter  d == conf[c].draft  result == Outcome(call[k].phase) IN
     /\ attempt' = [attempt EXCEPT ![c] = IF @ = "Transmitting" THEN result ELSE @]
     /\ draft'   = [draft EXCEPT ![d].state = IF @ = "Sending" THEN result ELSE @]
  /\ Return(k)
  /\ UNCHANGED <<app, account, conf, wire, copies>>

(* The transaction that records the outcome may fail as well. *)
OutcomeNotStored(k) ==
  /\ call[k].phase \in {"rejected", "unclear"}
  /\ Return(k)
  /\ UNCHANGED <<app, account, rows, wire, copies>>

-----------------------------------------------------------------------------
(* OutreachService.ReconcileAsync *)

ReconcileRead(k, d) ==
  /\ app = "up" /\ call[k].phase = "idle"
  /\ draft[d].state = "Unknown" /\ conf[draft[d].snapshot].sender = account
  /\ call' = [call EXCEPT ![k] = [phase |-> "checking", letter |-> draft[d].snapshot]]
  /\ UNCHANGED <<app, account, rows, wire, copies>>

(* One message found: the draft and its Unknown attempts become Sent. *)
FoundDraftOnly(c) ==
  /\ draft' = [draft EXCEPT ![conf[c].draft].state = "Sent"]
  /\ UNCHANGED attempt

Found(c) ==
  /\ draft'   = [draft EXCEPT ![conf[c].draft].state = "Sent"]
  /\ attempt' = [e \in Confs |-> IF conf[e].draft = conf[c].draft /\ attempt[e] = "Unknown"
                                 THEN "Sent" ELSE attempt[e]]

ReconcileFound(k) ==
  /\ call[k].phase = "checking"
  /\ LET c == call[k].letter IN
     /\ copies[c][account] = 1
     /\ IF draft[conf[c].draft].state = "Unknown" THEN Found(c)
                                                 ELSE UNCHANGED <<draft, attempt>>
  /\ Return(k)
  /\ UNCHANGED <<app, account, conf, wire, copies>>

(* Nothing found (yet), several found, or the search failed: a             *)
(* DeliveryCheck row is all that is written.                               *)
ReconcileInconclusive(k) ==
  /\ call[k].phase = "checking"
  /\ Return(k)
  /\ UNCHANGED <<app, account, rows, wire, copies>>

-----------------------------------------------------------------------------
(* Crash and start-up: OutreachService's recovery, then SendCoordinator's. *)

Crash ==
  /\ app # "down" /\ app' = "down"
  /\ call' = [k \in Calls |-> IdleCall]
  /\ conf' = [c \in Confs |-> IF conf[c].state = "reading" THEN NewConf(c) ELSE conf[c]]
  /\ UNCHANGED <<account, draft, attempt, wire, copies>>

Boot ==
  /\ app = "down" /\ app' = "drafts"
  /\ UNCHANGED <<account, rows, call, wire, copies>>

RecoverDrafts ==
  /\ app = "drafts" /\ app' = "attempts"
  /\ draft' = [d \in Drafts |-> IF draft[d].state = "Sending"
                                THEN [draft[d] EXCEPT !.state = "Unknown"] ELSE draft[d]]
  /\ UNCHANGED <<account, conf, attempt, call, wire, copies>>

InterruptedClaimed == {"Transmitting"}
Interrupted == {"Sending", "Transmitting"}

RecoverAttempts ==
  /\ app = "attempts" /\ app' = "up"
  /\ draft' = [d \in Drafts |->
                 IF /\ draft[d].state = "Sending"
                    /\ \E c \in Confs : conf[c].draft = d /\ attempt[c] \in Interrupted
                 THEN [draft[d] EXCEPT !.state = "Unknown"] ELSE draft[d]]
  /\ attempt' = [c \in Confs |-> IF attempt[c] \in Interrupted THEN "Unknown" ELSE attempt[c]]
  /\ UNCHANGED <<account, conf, call, wire, copies>>

-----------------------------------------------------------------------------
SendStep(k) ==
  \/ Claim(k) \/ EnterTransport(k) \/ TokenRefused(k) \/ Post(k) \/ LoseResult(k)
  \/ StoreReceipt(k) \/ StoreOutcome(k) \/ OutcomeNotStored(k)
  \/ ReconcileFound(k) \/ ReconcileInconclusive(k)

UserStep ==
  \/ \E a \in Accounts : Connect(a)
  \/ \E d \in Drafts : Edit(d)
  \/ \E c \in Confs, d \in Drafts : PrepareRead(c, d)
  \/ \E c \in Confs : PrepareStore(c) \/ Confirm(c)
  \/ \E k \in Calls, c \in Confs : SendRead(k, c)
  \/ \E k \in Calls, d \in Drafts : ReconcileRead(k, d)

GmailStep == \E c \in Confs, a \in Accounts : Accept(c, a) \/ Refuse(c, a) \/ Vanish(c, a)

Next ==
  \/ UserStep
  \/ GmailStep
  \/ \E k \in Calls : SendStep(k)
  \/ \E c \in Confs : Expire(c)
  \/ Crash \/ Boot \/ RecoverDrafts \/ RecoverAttempts

(* An asynchronous operation is resumed after each await: HttpClient       *)
(* times out even when Gmail never answers.                                *)
Spec == Init /\ [][Next]_vars /\ \A k \in Calls : WF_vars(SendStep(k))

-----------------------------------------------------------------------------
(* Properties *)

(* Types of the tables and of the calls. *)
TypeOK ==
  /\ app \in {"down", "drafts", "attempts", "up"} /\ account \in Accounts \cup {NoAccount}
  /\ draft \in [Drafts -> [state : DraftStates, revision : Revisions, snapshot : Confs \cup {NoConf}]]
  /\ conf \in [Confs -> [state : ConfStates, draft : Drafts \cup {NoDraft},
                         revision : Revisions, sender : Accounts \cup {NoAccount}]]
  /\ attempt \in [Confs -> AttemptStates]
  /\ call \in [Calls -> [phase : Phases, letter : Confs \cup {NoConf}]]
  /\ wire \subseteq Confs \X Accounts /\ copies \in [Confs -> [Accounts -> 0 .. 1]]

AttemptsOf(d) == {c \in Confs : conf[c].draft = d /\ attempt[c] # "None"}

(* While the process serves the user, Outreach and SendAttempt tell the    *)
(* same story: the draft is Sending, Unknown or Sent exactly when one of    *)
(* its attempts is in flight, Unknown or Sent, it is the attempt of the     *)
(* draft's snapshot, and every other attempt of the draft has Failed.      *)
Story(d) ==
  LET live == {c \in AttemptsOf(d) : attempt[c] # "Failed"} IN
  IF draft[d].state \in {"Draft", "Failed"} THEN live = {}
  ELSE /\ live = {draft[d].snapshot}
       /\ attempt[draft[d].snapshot] \in
            CASE draft[d].state = "Sending" -> {"Sending", "Transmitting"}
              [] draft[d].state = "Unknown" -> {"Unknown"}
              [] draft[d].state = "Sent"    -> {"Sent"}

RowsAgree == app = "up" => \A d \in Drafts : Story(d)

(* What the rows say happened did happen: Sent means the letter is in the  *)
(* sender's Sent folder; Failed, and a confirmation nobody consumed, mean  *)
(* that it is not there and will not get there later.                      *)
RecordsAreTrue ==
  \A c \in Confs :
    /\ attempt[c] = "Sent" => copies[c][conf[c].sender] = 1
    /\ attempt[c] \in {"None", "Sending", "Failed"} =>
         \A a \in Accounts : copies[c][a] = 0 /\ <<c, a>> \notin wire

(* The confirmation and the account of every copy of d. *)
Delivered(d) ==
  {ca \in Confs \X Accounts : conf[ca[1]].draft = d /\ copies[ca[1]][ca[2]] > 0}

(* Never two copies: over all confirmations, attempts, restarts and late    *)
(* deliveries, a draft is in the Sent folders at most once.                 *)
AtMostOneCopy ==
  \A d \in Drafts :
    Cardinality(Delivered(d)) <= 1 /\ \A ca \in Delivered(d) : copies[ca[1]][ca[2]] = 1

(* Whatever is on its way or delivered is what the user reviewed, sent     *)
(* from the account the preview named, and the draft still shows it.        *)
SentAsReviewed ==
  \A c \in Confs, a \in Accounts :
    (copies[c][a] > 0 \/ <<c, a>> \in wire) =>
      /\ a = conf[c].sender
      /\ draft[conf[c].draft].revision = conf[c].revision
      /\ draft[conf[c].draft].state \notin {"Draft", "Failed"}

(* Every send and every reconciliation returns, even when Gmail never      *)
(* answers or the outcome cannot be stored.                                 *)
CallsReturn == \A k \in Calls : call[k].phase # "idle" ~> call[k].phase = "idle"

-----------------------------------------------------------------------------
(* Refinement: the tables and the wire implement Correspondence. *)
Letters == INSTANCE Correspondence WITH
  text      <- [d \in Drafts |-> draft[d].revision],
  committed <- [d \in Drafts |-> IF Editable(d) THEN {} ELSE {conf[draft[d].snapshot].sender}],
  arrived   <- [d \in Drafts |->
                  {<<ca[2], conf[ca[1]].revision>> : ca \in Delivered(d)}]

(* A letter, once confirmed, is frozen and arrives at most once from the   *)
(* confirmed account; it is released for editing only when it certainly    *)
(* did not arrive.                                                          *)
ImplementsCorrespondence == Letters!Spec
=============================================================================
