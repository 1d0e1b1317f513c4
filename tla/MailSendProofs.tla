--------------------------- MODULE MailSendProofs ---------------------------
(***************************************************************************)
(* Safety of MailSend for every set of drafts, confirmations, calls and    *)
(* accounts and every bound on revisions.  The argument: a live attempt is *)
(* the attempt of its draft's snapshot (DraftOK), so a draft has one at    *)
(* most; one call at a time works on a live attempt (Distinct); and what   *)
(* a call may conclude from its phase is true of the wire and of the Sent  *)
(* folder (CallOK, Delivery).                                              *)
(***************************************************************************)
EXTENDS MailSend, FiniteSetTheorems, TLAPS

DraftRow == [state : DraftStates, revision : Revisions, snapshot : Confs \cup {NoConf}]
ConfRow  == [state : ConfStates, draft : Drafts \cup {NoDraft},
             revision : Revisions, sender : Accounts \cup {NoAccount}]
CallRow  == [phase : Phases, letter : Confs \cup {NoConf}]

Over  == {"None", "Failed"}                                       \* no live attempt
InAir == {"Transmitting", "Unknown", "Sent"}                      \* may have been posted
Busy  == {"claimed", "token", "posted", "accepted", "rejected", "unclear"}
Silent == {"claimed", "token", "rejected"}                        \* certainly not posted

(* The states a live attempt may have, given the state of its draft. *)
Live == [s \in {"Sending", "Unknown", "Sent"} |->
           CASE s = "Sending" -> {"Sending", "Transmitting"}
             [] s = "Unknown" -> {"Sending", "Transmitting", "Unknown"}
             [] s = "Sent"    -> {"Sent"}]

ConfOK(c) ==
  /\ conf[c].state = "consumed" <=> attempt[c] # "None"
  /\ conf[c].state # "unused" => conf[c].draft \in Drafts /\ conf[c].sender \in Accounts
  /\ attempt[c] \notin Over => draft[conf[c].draft].revision = conf[c].revision

DraftOK(d) ==
  /\ draft[d].state \in {"Draft", "Failed"} =>
       \A c \in Confs : conf[c].draft = d => attempt[c] \in Over
  /\ draft[d].state \notin {"Draft", "Failed"} =>
       /\ draft[d].snapshot \in Confs
       /\ conf[draft[d].snapshot].draft = d
       /\ attempt[draft[d].snapshot] \in Live[draft[d].state]
       /\ \A c \in Confs : conf[c].draft = d /\ c # draft[d].snapshot => attempt[c] \in Over
  /\ app = "up" /\ draft[d].state = "Unknown" => attempt[draft[d].snapshot] = "Unknown"
  /\ app = "attempts" => draft[d].state # "Sending"

Delivery(c) ==
  /\ \A a \in Accounts : copies[c][a] > 0 \/ <<c, a>> \in wire =>
       a = conf[c].sender /\ attempt[c] \in InAir
  /\ \A a \in Accounts : <<c, a>> \in wire => copies[c][a] = 0
  /\ attempt[c] = "Sent" => copies[c][conf[c].sender] = 1

CallOK(k) ==
  /\ call[k].phase # "idle" => app = "up" /\ call[k].letter \in Confs
  /\ call[k].phase \in Busy => attempt[call[k].letter] = "Transmitting"
  /\ call[k].phase \in Silent =>
       \A a \in Accounts : copies[call[k].letter][a] = 0 /\ <<call[k].letter, a>> \notin wire
  /\ call[k].phase \in {"token", "checking"} => conf[call[k].letter].sender = account
  /\ call[k].phase = "accepted" => copies[call[k].letter][conf[call[k].letter].sender] = 1
  /\ call[k].phase = "checking" => attempt[call[k].letter] \in {"Unknown", "Sent"}

Distinct ==
  \A k, l \in Calls :
    k # l /\ call[k].phase \in Busy /\ call[l].phase \in Busy => call[k].letter # call[l].letter

IInv ==
  /\ TypeOK
  /\ \A c \in Confs : ConfOK(c) /\ Delivery(c)
  /\ \A d \in Drafts : DraftOK(d)
  /\ \A k \in Calls : CallOK(k)
  /\ Distinct

-----------------------------------------------------------------------------
(* What the phase of a call says of its letter. *)
LEMMA CallHolds ==
  ASSUME IInv, NEW k \in Calls
  PROVE  /\ call[k].phase # "idle" => app = "up" /\ call[k].letter \in Confs
         /\ call[k].phase \in Busy => /\ attempt[call[k].letter] = "Transmitting"
                                      /\ conf[call[k].letter].draft \in Drafts
<1>1. /\ call[k].phase # "idle" => app = "up" /\ call[k].letter \in Confs
      /\ call[k].phase \in Busy => attempt[call[k].letter] = "Transmitting"
  BY DEF IInv, CallOK
<1>2. call[k].phase \in Busy => call[k].letter \in Confs BY <1>1 DEF Busy
<1>3. \A c \in Confs : attempt[c] # "None" => conf[c].draft \in Drafts
  BY DEF IInv, ConfOK
<1> QED BY <1>1, <1>2, <1>3

-----------------------------------------------------------------------------
(* Rows *)

USE DEF DraftStates, ConfStates, AttemptStates, Phases, Revisions, rows

(* Writing a state into a row, or a phase into a call, keeps its type. *)
LEMMA RowUpdates ==
  ASSUME TypeOK
  PROVE  /\ draft \in [Drafts -> DraftRow] /\ conf \in [Confs -> ConfRow] /\ call \in [Calls -> CallRow]
         /\ \A d \in Drafts, s \in DraftStates :
              /\ [draft[d] EXCEPT !.state = s] \in DraftRow
              /\ \A c \in Confs : [draft[d] EXCEPT !.state = s, !.snapshot = c] \in DraftRow
         /\ \A c \in Confs, s \in ConfStates : [conf[c] EXCEPT !.state = s] \in ConfRow
         /\ \A k \in Calls, p \in Phases : [call[k] EXCEPT !.phase = p] \in CallRow
<1>1. draft \in [Drafts -> DraftRow] /\ conf \in [Confs -> ConfRow] /\ call \in [Calls -> CallRow]
  BY DEF TypeOK, DraftRow, ConfRow, CallRow
<1>2. \A r \in DraftRow, s \in DraftStates :
        /\ [r EXCEPT !.state = s] \in DraftRow
        /\ \A c \in Confs : [r EXCEPT !.state = s, !.snapshot = c] \in DraftRow
  BY DEF DraftRow
<1>3. \A r \in ConfRow, s \in ConfStates : [r EXCEPT !.state = s] \in ConfRow
  BY DEF ConfRow
<1>4. \A r \in CallRow, p \in Phases : [r EXCEPT !.phase = p] \in CallRow
  BY DEF CallRow
<1> QED BY <1>1, <1>2, <1>3, <1>4

(* Advancing or returning keeps the type of the calls. *)
LEMMA CallUpdates ==
  ASSUME TypeOK, NEW k \in Calls
  PROVE  /\ \A p \in Phases : Advance(k, p) => call' \in [Calls -> CallRow]
         /\ Return(k) => call' \in [Calls -> CallRow]
<1>1. IdleCall \in CallRow
  BY DEF IdleCall, CallRow
<1>2. ASSUME NEW p \in Phases, Advance(k, p) PROVE call' \in [Calls -> CallRow]
  <2>1. call' = [call EXCEPT ![k] = [call[k] EXCEPT !.phase = p]]
    BY <1>2, RowUpdates DEF Advance
  <2>2. [call[k] EXCEPT !.phase = p] \in CallRow
    BY RowUpdates
  <2> QED BY <2>1, <2>2, RowUpdates
<1>3. Return(k) => call' \in [Calls -> CallRow]
  BY <1>1, RowUpdates DEF Return
<1> QED BY <1>2, <1>3

(* The values of Live, one by one. *)
LEMMA LiveValues ==
  /\ Live["Sending"] = {"Sending", "Transmitting"}
  /\ Live["Unknown"] = {"Sending", "Transmitting", "Unknown"}
  /\ Live["Sent"] = {"Sent"}
  BY DEF Live

(* What a draft that is not editable points at. *)
LEMMA FrozenTypes ==
  ASSUME IInv, NEW f \in Drafts, draft[f].state \notin {"Draft", "Failed"}
  PROVE  /\ draft[f].snapshot \in Confs /\ draft[f].state \in {"Sending", "Unknown", "Sent"}
         /\ attempt[draft[f].snapshot] # "None"
         /\ app = "up" /\ attempt[draft[f].snapshot] = "Sending" => draft[f].state = "Sending"
<1>1. draft[f] \in DraftRow BY RowUpdates DEF IInv
<1>2. draft[f].state \in {"Sending", "Unknown", "Sent"} BY <1>1 DEF DraftRow
<1>3. /\ draft[f].snapshot \in Confs /\ attempt[draft[f].snapshot] \in Live[draft[f].state]
      /\ app = "up" /\ draft[f].state = "Unknown" => attempt[draft[f].snapshot] = "Unknown"
  BY DEF IInv, DraftOK
<1> QED BY <1>2, <1>3, LiveValues

(* A live attempt is the attempt of its draft's snapshot. *)
LEMMA LiveAttempt ==
  ASSUME IInv, NEW c \in Confs, attempt[c] \notin Over
  PROVE  /\ conf[c].draft \in Drafts /\ draft[conf[c].draft].snapshot = c
         /\ draft[conf[c].draft].state \in {"Sending", "Unknown", "Sent"}
         /\ attempt[c] \in Live[draft[conf[c].draft].state]
         /\ \A e \in Confs : conf[e].draft = conf[c].draft /\ e # c => attempt[e] \in Over
         /\ app = "up" /\ attempt[c] \in {"Sending", "Transmitting"} => draft[conf[c].draft].state = "Sending"
<1>1. conf[c].draft \in Drafts
  BY DEF IInv, ConfOK, Over
<1>2. draft[conf[c].draft].state \in {"Sending", "Unknown", "Sent"}
  BY <1>1 DEF IInv, TypeOK, DraftStates, DraftOK
<1>3. draft[conf[c].draft].snapshot = c
  BY <1>1, <1>2 DEF IInv, DraftOK
<1>4. attempt[c] \in Live[draft[conf[c].draft].state]
  BY <1>1, <1>2, <1>3 DEF IInv, DraftOK
<1> QED BY <1>1, <1>2, <1>3, <1>4, LiveValues DEF IInv, DraftOK

-----------------------------------------------------------------------------
(* Every action preserves the invariant: one lemma per action, one step    *)
(* per conjunct.  Steps <1>a to <1>d collect what the action does.         *)

(* Connect preserves the invariant. *)
LEMMA ConnectStep == ASSUME NEW a \in Accounts, IInv, Connect(a) PROVE IInv'
<1>1. TypeOK'
  BY DEF IInv, TypeOK, Connect
<1>2. ASSUME NEW e \in Confs PROVE ConfOK(e)'
  BY DEF IInv, ConfOK, Connect
<1>3. ASSUME NEW e \in Confs PROVE Delivery(e)'
  BY DEF IInv, Delivery, Connect
<1>4. ASSUME NEW f \in Drafts PROVE DraftOK(f)'
  BY DEF IInv, DraftOK, Connect
<1>5. ASSUME NEW l \in Calls PROVE CallOK(l)'
  BY DEF IInv, CallOK, Connect, Idle
<1>6. Distinct'
  BY DEF IInv, Distinct, Connect
<1> QED BY <1>1, <1>2, <1>3, <1>4, <1>5, <1>6 DEF IInv

(* Edit preserves the invariant. *)
LEMMA EditStep == ASSUME NEW d \in Drafts, IInv, Edit(d) PROVE IInv'
<1>1. TypeOK'
  BY MaxRevisionAssumption DEF IInv, TypeOK, Edit
<1>2. ASSUME NEW e \in Confs PROVE ConfOK(e)'
  BY NoDraftAssumption DEF IInv, ConfOK, DraftOK, Edit, Editable
<1>3. ASSUME NEW e \in Confs PROVE Delivery(e)'
  BY DEF IInv, Delivery, Edit
<1>4. ASSUME NEW f \in Drafts PROVE DraftOK(f)'
  BY DEF IInv, DraftOK, Edit, Editable
<1>5. ASSUME NEW l \in Calls PROVE CallOK(l)'
  BY DEF IInv, CallOK, Edit
<1>6. Distinct'
  BY DEF IInv, Distinct, Edit
<1> QED BY <1>1, <1>2, <1>3, <1>4, <1>5, <1>6 DEF IInv

(* PrepareRead preserves the invariant. *)
LEMMA PrepareReadStep == ASSUME NEW c \in Confs, NEW d \in Drafts, IInv, PrepareRead(c, d) PROVE IInv'
<1>a. /\ attempt[c] = "None" /\ \A e \in Confs : e # c => conf'[e] = conf[e]
      /\ UNCHANGED <<app, draft, attempt>>
  BY DEF IInv, ConfOK, PrepareRead
<1>1. TypeOK'
  BY DEF IInv, TypeOK, PrepareRead
<1>2. ASSUME NEW e \in Confs PROVE ConfOK(e)'
  BY DEF IInv, TypeOK, ConfOK, PrepareRead
<1>3. ASSUME NEW e \in Confs PROVE Delivery(e)'
  BY DEF IInv, Delivery, InAir, ConfOK, PrepareRead
<1>4. ASSUME NEW f \in Drafts PROVE DraftOK(f)'
  <2>1. CASE draft[f].state \in {"Draft", "Failed"}
    BY <1>a, <2>1 DEF IInv, DraftOK, Over
  <2>2. CASE draft[f].state \notin {"Draft", "Failed"}
    <3>1. draft[f].snapshot # c
      BY <1>a, <2>2, FrozenTypes
    <3> QED BY <1>a, <2>2, <3>1 DEF IInv, DraftOK, Over
  <2> QED BY <2>1, <2>2
<1>5. ASSUME NEW l \in Calls PROVE CallOK(l)'
  BY DEF IInv, ConfOK, CallOK, Busy, PrepareRead
<1>6. Distinct'
  BY DEF IInv, Distinct, PrepareRead
<1> QED BY <1>1, <1>2, <1>3, <1>4, <1>5, <1>6 DEF IInv

(* PrepareStore preserves the invariant. *)
LEMMA PrepareStoreStep == ASSUME NEW c \in Confs, IInv, PrepareStore(c) PROVE IInv'
<1>a. /\ attempt[c] = "None" /\ \A e \in Confs : e # c => conf'[e] = conf[e]
      /\ UNCHANGED <<app, draft, attempt>>
  BY DEF IInv, ConfOK, PrepareStore
<1>1. TypeOK'
  <2>1. 1 \in Revisions
    BY MaxRevisionAssumption DEF Revisions
  <2>2. NewConf(c) \in [state : ConfStates, draft : Drafts \cup {NoDraft},
                       revision : Revisions, sender : Accounts \cup {NoAccount}]
    BY <2>1 DEF NewConf, ConfStates
  <2>3. [conf[c] EXCEPT !.state = "open"]
          \in [state : ConfStates, draft : Drafts \cup {NoDraft},
              revision : Revisions, sender : Accounts \cup {NoAccount}]
    <3>1. conf[c] \in [state : ConfStates, draft : Drafts \cup {NoDraft},
                       revision : Revisions, sender : Accounts \cup {NoAccount}]
      BY DEF IInv, TypeOK
    <3>2. "open" \in ConfStates
      BY DEF ConfStates
    <3> QED BY <3>1, <3>2
  <2>4. conf' = [conf EXCEPT ![c] = IF NothingPending(conf[c].draft)
                                      THEN [conf[c] EXCEPT !.state = "open"] ELSE NewConf(c)]
    BY DEF PrepareStore, IInv, TypeOK
  <2>5. conf' \in [Confs -> [state : ConfStates, draft : Drafts \cup {NoDraft},
                             revision : Revisions, sender : Accounts \cup {NoAccount}]]
    BY <2>2, <2>3, <2>4 DEF IInv, TypeOK
  <2> QED BY <2>5 DEF IInv, TypeOK, PrepareStore
<1>2. ASSUME NEW e \in Confs PROVE ConfOK(e)'
  BY DEF IInv, ConfOK, Over, PrepareStore, NewConf
<1>3. ASSUME NEW e \in Confs PROVE Delivery(e)'
  BY DEF IInv, Delivery, InAir, ConfOK, PrepareStore
<1>4. ASSUME NEW f \in Drafts PROVE DraftOK(f)'
  <2>1. CASE draft[f].state \in {"Draft", "Failed"}
    BY <1>a, <2>1 DEF IInv, DraftOK, Over
  <2>2. CASE draft[f].state \notin {"Draft", "Failed"}
    <3>1. draft[f].snapshot # c
      BY <1>a, <2>2, FrozenTypes
    <3> QED BY <1>a, <2>2, <3>1 DEF IInv, DraftOK, Over
  <2> QED BY <2>1, <2>2
<1>5. ASSUME NEW l \in Calls PROVE CallOK(l)'
  BY DEF IInv, ConfOK, CallOK, Busy, Over, PrepareStore
<1>6. Distinct'
  BY DEF IInv, Distinct, PrepareStore
<1> QED BY <1>1, <1>2, <1>3, <1>4, <1>5, <1>6 DEF IInv

(* Expire preserves the invariant. *)
LEMMA ExpireStep == ASSUME NEW c \in Confs, IInv, Expire(c) PROVE IInv'
<1>1. TypeOK'
  <2>1. conf' \in [Confs -> ConfRow]
    <3>1. [conf[c] EXCEPT !.state = "expired"] \in ConfRow
      BY RowUpdates DEF IInv
    <3>2. conf' = [conf EXCEPT ![c] = [conf[c] EXCEPT !.state = "expired"]]
      BY DEF IInv, Expire
    <3> QED BY <3>1, <3>2 DEF IInv, TypeOK, ConfRow
  <2>2. UNCHANGED <<app, account, draft, attempt, call, wire, copies>> BY DEF Expire
  <2>3. TypeOK BY DEF IInv
  <2> QED BY <2>1, <2>2, <2>3 DEF TypeOK, ConfRow
<1>2. ASSUME NEW e \in Confs PROVE ConfOK(e)'
  BY DEF IInv, ConfOK, Expire
<1>3. ASSUME NEW e \in Confs PROVE Delivery(e)'
  BY DEF IInv, Delivery, Expire
<1>4. ASSUME NEW f \in Drafts PROVE DraftOK(f)'
  BY DEF IInv, DraftOK, Expire
<1>5. ASSUME NEW l \in Calls PROVE CallOK(l)'
  BY DEF IInv, CallOK, Expire
<1>6. Distinct'
  BY DEF IInv, Distinct, Expire
<1> QED BY <1>1, <1>2, <1>3, <1>4, <1>5, <1>6 DEF IInv

(* Confirm preserves the invariant. *)
LEMMA ConfirmStep == ASSUME NEW c \in Confs, IInv, Confirm(c) PROVE IInv'
<1> DEFINE d == conf[c].draft
<1>a. d \in Drafts /\ conf[c].state = "open" /\ attempt[c] = "None"
  BY DEF IInv, ConfOK, Confirm
<1>b. /\ draft'[d].state = "Sending" /\ draft'[d].snapshot = c
      /\ \A f \in Drafts : draft'[f].revision = draft[f].revision /\ (f # d => draft'[f] = draft[f])
  BY <1>a DEF IInv, TypeOK, Confirm
<1>c. /\ attempt'[c] = "Sending" /\ \A e \in Confs : e # c => attempt'[e] = attempt[e]
      /\ \A e \in Confs : conf'[e].draft = conf[e].draft
  BY DEF IInv, TypeOK, Confirm
<1>1. TypeOK'
  <2>1. conf' \in [Confs -> ConfRow]
    <3>1. [conf[c] EXCEPT !.state = "consumed"] \in ConfRow
      BY RowUpdates DEF IInv
    <3>2. conf' = [conf EXCEPT ![c] = [conf[c] EXCEPT !.state = "consumed"]]
      BY DEF IInv, Confirm
    <3> QED BY <3>1, <3>2 DEF IInv, TypeOK, ConfRow
  <2>2. draft' \in [Drafts -> DraftRow]
    <3>1. draft' = [draft EXCEPT ![d] = [draft[d] EXCEPT !.state = "Sending", !.snapshot = c]]
      BY <1>a DEF IInv, Confirm
    <3>2. [draft[d] EXCEPT !.state = "Sending", !.snapshot = c] \in DraftRow
      BY <1>a, RowUpdates DEF IInv
    <3> HIDE DEF d
    <3> QED BY <3>1, <3>2 DEF IInv, TypeOK, DraftRow
  <2> QED BY <2>1, <2>2 DEF IInv, TypeOK, Confirm, ConfRow
<1>2. ASSUME NEW e \in Confs PROVE ConfOK(e)'
  BY DEF IInv, TypeOK, ConfOK, Over, Confirm, SnapshotFresh
<1>3. ASSUME NEW e \in Confs PROVE Delivery(e)'
  BY DEF IInv, Delivery, InAir, ConfOK, Confirm
<1>4. ASSUME NEW f \in Drafts PROVE DraftOK(f)'
  <2>1. CASE f = d
    <3>1. \A e \in Confs : conf[e].draft = d => attempt[e] \in Over
      BY <1>a DEF IInv, DraftOK, Confirm, SnapshotFresh
    <3> QED BY <2>1, <3>1, <1>a, <1>b, <1>c DEF Confirm, DraftOK, Live, IInv, TypeOK
  <2>2. CASE f # d
    BY <2>2, <1>a, <1>b, <1>c DEF Confirm, DraftOK, IInv, TypeOK
  <2> QED BY <2>1, <2>2
<1>5. ASSUME NEW l \in Calls PROVE CallOK(l)'
  BY DEF IInv, ConfOK, CallOK, Confirm
<1>6. Distinct'
  BY DEF IInv, Distinct, Confirm
<1> QED BY <1>1, <1>2, <1>3, <1>4, <1>5, <1>6 DEF IInv

(* SendRead preserves the invariant. *)
LEMMA SendReadStep == ASSUME NEW k \in Calls, NEW c \in Confs, IInv, SendRead(k, c) PROVE IInv'
<1>1. TypeOK'
  BY DEF IInv, TypeOK, SendRead
<1>2. ASSUME NEW e \in Confs PROVE ConfOK(e)'
  BY DEF IInv, ConfOK, SendRead
<1>3. ASSUME NEW e \in Confs PROVE Delivery(e)'
  BY DEF IInv, Delivery, SendRead
<1>4. ASSUME NEW f \in Drafts PROVE DraftOK(f)'
  BY DEF IInv, DraftOK, SendRead
<1>5. ASSUME NEW l \in Calls PROVE CallOK(l)'
  BY DEF IInv, CallOK, Busy, Silent, SendRead
<1>6. Distinct'
  BY DEF IInv, Distinct, Busy, SendRead
<1> QED BY <1>1, <1>2, <1>3, <1>4, <1>5, <1>6 DEF IInv

(* Claim preserves the invariant. *)
LEMMA ClaimStep == ASSUME NEW k \in Calls, IInv, Claim(k) PROVE IInv'
<1> DEFINE c == call[k].letter
<1>a. c \in Confs /\ app = "up" /\ call[k].phase = "read"
  BY DEF IInv, CallOK, Claim
<1>b. /\ UNCHANGED <<app, account, draft, conf, wire, copies>>
      /\ \A l \in Calls : l # k => call'[l] = call[l]
      /\ \/ /\ attempt[c] = "Sending" /\ attempt'[c] = "Transmitting"
            /\ \A e \in Confs : e # c => attempt'[e] = attempt[e]
            /\ call'[k].phase = "claimed" /\ call'[k].letter = c
         \/ UNCHANGED attempt /\ call'[k] = IdleCall
  BY <1>a DEF IInv, TypeOK, Claim, Claimable, Advance, Return
<1> HIDE DEF c
<1>1. TypeOK'
  <2>1. call' \in [Calls -> CallRow]
    BY CallUpdates DEF IInv, Claim
  <2> QED BY <2>1 DEF IInv, TypeOK, Claim, CallRow
<1>2. ASSUME NEW e \in Confs PROVE ConfOK(e)'
  BY DEF IInv, TypeOK, ConfOK, Over, Claim, Claimable
<1>3. ASSUME NEW e \in Confs PROVE Delivery(e)'
  BY DEF IInv, TypeOK, Delivery, InAir, Claim
<1>4. ASSUME NEW f \in Drafts PROVE DraftOK(f)'
  <2>1. CASE attempt' = attempt
    BY <2>1, <1>b DEF IInv, DraftOK
  <2>2. CASE /\ attempt[c] = "Sending" /\ attempt'[c] = "Transmitting"
             /\ \A e \in Confs : e # c => attempt'[e] = attempt[e]
    <3>1. CASE draft[f].state \in {"Draft", "Failed"}
      BY <1>a, <1>b, <2>2, <3>1 DEF IInv, DraftOK, Over
    <3>2. CASE draft[f].state \notin {"Draft", "Failed"} /\ c = draft[f].snapshot
      <4>1. draft[f].state = "Sending"
        BY <1>a, <2>2, <3>2, FrozenTypes
      <4> QED BY <1>b, <2>2, <3>2, <4>1, LiveValues DEF IInv, DraftOK
    <3>3. CASE draft[f].state \notin {"Draft", "Failed"} /\ c # draft[f].snapshot
      BY <1>a, <1>b, <2>2, <3>3 DEF IInv, DraftOK, Over
    <3> QED BY <3>1, <3>2, <3>3
  <2> QED BY <1>b, <2>1, <2>2
<1>5. ASSUME NEW l \in Calls PROVE CallOK(l)'
  BY DEF IInv, TypeOK, ConfOK, Delivery, CallOK, Distinct, Busy, Silent, InAir,
         Claim, Claimable, Advance, Return, IdleCall
<1>6. Distinct'
  BY <1>a, <1>b DEF IInv, CallOK, Distinct, Busy, IdleCall
<1> QED BY <1>1, <1>2, <1>3, <1>4, <1>5, <1>6 DEF IInv

(* EnterTransport preserves the invariant. *)
LEMMA EnterTransportStep == ASSUME NEW k \in Calls, IInv, EnterTransport(k) PROVE IInv'
<1>1. TypeOK'
  <2>1. call' \in [Calls -> CallRow]
    BY CallUpdates DEF IInv, EnterTransport
  <2> QED BY <2>1 DEF IInv, TypeOK, EnterTransport, CallRow
<1>2. ASSUME NEW e \in Confs PROVE ConfOK(e)'
  BY DEF IInv, ConfOK, EnterTransport
<1>3. ASSUME NEW e \in Confs PROVE Delivery(e)'
  BY DEF IInv, Delivery, EnterTransport
<1>4. ASSUME NEW f \in Drafts PROVE DraftOK(f)'
  BY DEF IInv, DraftOK, EnterTransport
<1>5. ASSUME NEW l \in Calls PROVE CallOK(l)'
  BY DEF IInv, CallOK, Busy, Silent, EnterTransport, Advance
<1>6. Distinct'
  BY DEF IInv, Distinct, Busy, EnterTransport, Advance
<1> QED BY <1>1, <1>2, <1>3, <1>4, <1>5, <1>6 DEF IInv

(* TokenRefused preserves the invariant. *)
LEMMA TokenRefusedStep == ASSUME NEW k \in Calls, IInv, TokenRefused(k) PROVE IInv'
<1>1. TypeOK'
  BY DEF IInv, TypeOK, TokenRefused, Advance
<1>2. ASSUME NEW e \in Confs PROVE ConfOK(e)'
  BY DEF IInv, ConfOK, TokenRefused
<1>3. ASSUME NEW e \in Confs PROVE Delivery(e)'
  BY DEF IInv, Delivery, TokenRefused
<1>4. ASSUME NEW f \in Drafts PROVE DraftOK(f)'
  BY DEF IInv, DraftOK, TokenRefused
<1>5. ASSUME NEW l \in Calls PROVE CallOK(l)'
  BY DEF IInv, CallOK, Busy, Silent, TokenRefused, Advance
<1>6. Distinct'
  BY DEF IInv, Distinct, Busy, TokenRefused, Advance
<1> QED BY <1>1, <1>2, <1>3, <1>4, <1>5, <1>6 DEF IInv

(* Post preserves the invariant. *)
LEMMA PostStep == ASSUME NEW k \in Calls, IInv, Post(k) PROVE IInv'
<1>1. TypeOK'
  <2>1. wire' \subseteq Confs \X Accounts
    <3>1. account \in Accounts /\ call[k].letter \in Confs
      BY DEF IInv, CallOK, ConfOK, Busy, Post
    <3> QED BY <3>1 DEF IInv, TypeOK, Post
  <2>2. call' \in [Calls -> CallRow]
    BY CallUpdates DEF IInv, Post
  <2> QED BY <2>1, <2>2 DEF IInv, TypeOK, Post, CallRow
<1>2. ASSUME NEW e \in Confs PROVE ConfOK(e)'
  BY DEF IInv, ConfOK, Post
<1>3. ASSUME NEW e \in Confs PROVE Delivery(e)'
  BY DEF IInv, Delivery, CallOK, InAir, Busy, Silent, Post
<1>4. ASSUME NEW f \in Drafts PROVE DraftOK(f)'
  BY DEF IInv, DraftOK, Post
<1>5. ASSUME NEW l \in Calls PROVE CallOK(l)'
  BY DEF IInv, TypeOK, CallOK, Distinct, Busy, Silent, Post, Advance
<1>6. Distinct'
  BY DEF IInv, Distinct, Busy, Post, Advance
<1> QED BY <1>1, <1>2, <1>3, <1>4, <1>5, <1>6 DEF IInv

(* Accept preserves the invariant. *)
LEMMA AcceptStep == ASSUME NEW c \in Confs, NEW a \in Accounts, IInv, Accept(c, a) PROVE IInv'
<1>1. TypeOK'
  <2>1. call' \in [Calls -> CallRow]
    <3>1. \A l \in Calls : call[l] \in CallRow /\ [call[l] EXCEPT !.phase = "accepted"] \in CallRow
      BY RowUpdates DEF IInv
    <3> QED BY <3>1 DEF Accept, Answer
  <2>2. copies' \in [Confs -> [Accounts -> 0 .. 1]]
    BY DEF IInv, TypeOK, Accept, Delivery
  <2> QED BY <2>1, <2>2 DEF IInv, TypeOK, Accept, CallRow
<1>2. ASSUME NEW e \in Confs PROVE ConfOK(e)'
  BY DEF IInv, ConfOK, Accept
<1>3. ASSUME NEW e \in Confs PROVE Delivery(e)'
  BY DEF IInv, Delivery, Accept
<1>4. ASSUME NEW f \in Drafts PROVE DraftOK(f)'
  BY DEF IInv, DraftOK, Accept
<1>5. ASSUME NEW l \in Calls PROVE CallOK(l)'
  BY DEF IInv, TypeOK, CallOK, Delivery, Busy, Silent, Accept, Answer
<1>6. Distinct'
  BY DEF IInv, Distinct, Busy, Accept, Answer
<1> QED BY <1>1, <1>2, <1>3, <1>4, <1>5, <1>6 DEF IInv

(* Refuse preserves the invariant. *)
LEMMA RefuseStep == ASSUME NEW c \in Confs, NEW a \in Accounts, IInv, Refuse(c, a) PROVE IInv'
<1>1. TypeOK'
  BY DEF IInv, TypeOK, Refuse, Answer
<1>2. ASSUME NEW e \in Confs PROVE ConfOK(e)'
  BY DEF IInv, ConfOK, Refuse
<1>3. ASSUME NEW e \in Confs PROVE Delivery(e)'
  BY DEF IInv, Delivery, Refuse
<1>4. ASSUME NEW f \in Drafts PROVE DraftOK(f)'
  BY DEF IInv, DraftOK, Refuse
<1>5. ASSUME NEW l \in Calls PROVE CallOK(l)'
  BY DEF IInv, TypeOK, CallOK, Delivery, Busy, Refuse, Answer
<1>6. Distinct'
  BY DEF IInv, Distinct, Busy, Refuse, Answer
<1> QED BY <1>1, <1>2, <1>3, <1>4, <1>5, <1>6 DEF IInv

(* Vanish preserves the invariant. *)
LEMMA VanishStep == ASSUME NEW c \in Confs, NEW a \in Accounts, IInv, Vanish(c, a) PROVE IInv'
<1>1. TypeOK'
  BY DEF IInv, TypeOK, Vanish
<1>2. ASSUME NEW e \in Confs PROVE ConfOK(e)'
  BY DEF IInv, ConfOK, Vanish
<1>3. ASSUME NEW e \in Confs PROVE Delivery(e)'
  BY DEF IInv, Delivery, Vanish
<1>4. ASSUME NEW f \in Drafts PROVE DraftOK(f)'
  BY DEF IInv, DraftOK, Vanish
<1>5. ASSUME NEW l \in Calls PROVE CallOK(l)'
  BY DEF IInv, CallOK, Vanish
<1>6. Distinct'
  BY DEF IInv, Distinct, Vanish
<1> QED BY <1>1, <1>2, <1>3, <1>4, <1>5, <1>6 DEF IInv

(* LoseResult preserves the invariant. *)
LEMMA LoseResultStep == ASSUME NEW k \in Calls, IInv, LoseResult(k) PROVE IInv'
<1>1. TypeOK'
  BY DEF IInv, TypeOK, LoseResult, Advance
<1>2. ASSUME NEW e \in Confs PROVE ConfOK(e)'
  BY DEF IInv, ConfOK, LoseResult
<1>3. ASSUME NEW e \in Confs PROVE Delivery(e)'
  BY DEF IInv, Delivery, LoseResult
<1>4. ASSUME NEW f \in Drafts PROVE DraftOK(f)'
  BY DEF IInv, DraftOK, LoseResult
<1>5. ASSUME NEW l \in Calls PROVE CallOK(l)'
  BY DEF IInv, CallOK, Busy, Silent, LoseResult, Advance
<1>6. Distinct'
  BY DEF IInv, Distinct, Busy, LoseResult, Advance
<1> QED BY <1>1, <1>2, <1>3, <1>4, <1>5, <1>6 DEF IInv

(* StoreReceipt preserves the invariant. *)
LEMMA StoreReceiptStep == ASSUME NEW k \in Calls, IInv, StoreReceipt(k) PROVE IInv'
<1> DEFINE c == call[k].letter
           d == conf[c].draft
<1>a. /\ c \in Confs /\ d \in Drafts /\ app = "up" /\ attempt[c] = "Transmitting"
      /\ call[k].phase = "accepted" /\ copies[c][conf[c].sender] = 1
  BY DEF IInv, CallOK, ConfOK, Busy, StoreReceipt
<1>b. /\ UNCHANGED <<app, account, conf, wire, copies>>
      /\ \A l \in Calls : l # k => call'[l] = call[l]
      /\ \/ /\ draft[d].state = "Sending" /\ draft'[d] = [draft[d] EXCEPT !.state = "Sent"]
            /\ \A f \in Drafts : f # d => draft'[f] = draft[f]
            /\ attempt'[c] = "Sent" /\ \A e \in Confs : e # c => attempt'[e] = attempt[e]
            /\ call'[k] = IdleCall
         \/ /\ UNCHANGED <<draft, attempt>>
            /\ call'[k].phase = "unclear" /\ call'[k].letter = c
  BY <1>a DEF IInv, TypeOK, StoreReceipt, Advance, Return
<1>c. \A f \in Drafts : draft'[f].revision = draft[f].revision /\ draft'[f].snapshot = draft[f].snapshot
  BY <1>a, <1>b DEF IInv, TypeOK
<1>d. /\ draft[d].snapshot = c
      /\ \A e \in Confs : conf[e].draft = d /\ e # c => attempt[e] \in Over
      /\ draft[d].state = "Sending"
  BY <1>a, LiveAttempt DEF Over
<1> HIDE DEF c, d
<1>1. TypeOK'
  <2>1. call' \in [Calls -> CallRow]
    BY CallUpdates DEF IInv, StoreReceipt
  <2>2. draft' \in [Drafts -> DraftRow]
    <3>1. CASE UNCHANGED draft
      BY <3>1, RowUpdates DEF IInv
    <3>2. CASE draft' = [draft EXCEPT ![d] = [draft[d] EXCEPT !.state = "Sent"]]
      <4>1. [draft[d] EXCEPT !.state = "Sent"] \in DraftRow
        BY <1>a, RowUpdates DEF IInv
      <4> QED BY <3>2, <4>1, RowUpdates DEF IInv
    <3> QED BY <3>1, <3>2 DEF StoreReceipt, c, d
  <2> QED BY <2>1, <2>2 DEF IInv, TypeOK, StoreReceipt, CallRow, DraftRow
<1>2. ASSUME NEW e \in Confs PROVE ConfOK(e)'
  BY <1>a, <1>b, <1>c DEF IInv, ConfOK, Over
<1>3. ASSUME NEW e \in Confs PROVE Delivery(e)'
  BY DEF IInv, TypeOK, Delivery, CallOK, InAir, StoreReceipt
<1>4. ASSUME NEW f \in Drafts PROVE DraftOK(f)'
  <2>1. CASE f # d
    BY <1>a, <1>b, <1>d, <2>1 DEF IInv, DraftOK
  <2>2. CASE f = d
    BY <1>a, <1>b, <1>c, <1>d, <2>2, LiveValues DEF IInv, TypeOK, DraftOK
  <2> QED BY <2>1, <2>2
<1>5. ASSUME NEW l \in Calls PROVE CallOK(l)'
  BY DEF IInv, TypeOK, CallOK, Distinct, Busy, Silent, StoreReceipt, Advance,
         Return, IdleCall
<1>6. Distinct'
  <2>1. \A l \in Calls : call'[l].phase \in Busy => call[l].phase \in Busy /\ call'[l].letter = call[l].letter
    BY <1>a, <1>b DEF Busy, IdleCall, c
  <2> QED BY <2>1 DEF IInv, Distinct
<1> QED BY <1>1, <1>2, <1>3, <1>4, <1>5, <1>6 DEF IInv

(* StoreOutcome preserves the invariant. *)
LEMMA StoreOutcomeStep == ASSUME NEW k \in Calls, IInv, StoreOutcome(k) PROVE IInv'
<1> DEFINE c == call[k].letter
           d == conf[c].draft
<1>a. /\ c \in Confs /\ d \in Drafts /\ app = "up" /\ attempt[c] = "Transmitting"
      /\ call[k].phase \in {"rejected", "unclear"}
  <2>1. call[k].phase \in {"rejected", "unclear"} BY DEF StoreOutcome
  <2> QED BY <2>1, CallHolds DEF Busy
<1>b. PICK result \in {"Failed", "Unknown"} :
        /\ result = Outcome(call[k].phase)
        /\ draft' = [draft EXCEPT ![d].state = IF @ = "Sending" THEN result ELSE @]
        /\ attempt'[c] = result /\ \A e \in Confs : e # c => attempt'[e] = attempt[e]
        /\ UNCHANGED <<app, account, conf, wire, copies>>
        /\ call'[k] = IdleCall /\ \A l \in Calls : l # k => call'[l] = call[l]
  BY <1>a DEF IInv, TypeOK, StoreOutcome, Outcome, Return
<1>c. /\ draft[d].snapshot = c
      /\ \A e \in Confs : conf[e].draft = d /\ e # c => attempt[e] \in Over
      /\ draft[d].state = "Sending"
  BY <1>a, LiveAttempt DEF Over
<1>d. /\ draft'[d].state = result
      /\ \A f \in Drafts : f # d => draft'[f] = draft[f]
      /\ \A f \in Drafts : draft'[f].revision = draft[f].revision /\ draft'[f].snapshot = draft[f].snapshot
  <2>1. draft \in [Drafts -> DraftRow] BY RowUpdates DEF IInv
  <2>2. draft' = [draft EXCEPT ![d].state = result] BY <1>b, <1>c
  <2> HIDE DEF c, d
  <2>3. draft'[d] = [draft[d] EXCEPT !.state = result] /\ \A f \in Drafts : f # d => draft'[f] = draft[f]
    BY <1>a, <2>1, <2>2
  <2>4. /\ draft'[d].state = result /\ draft'[d].revision = draft[d].revision
        /\ draft'[d].snapshot = draft[d].snapshot
    BY <1>a, <2>1, <2>3 DEF DraftRow
  <2> QED BY <2>3, <2>4
<1> HIDE DEF c, d
<1>1. TypeOK'
  <2>1. draft' \in [Drafts -> DraftRow]
    <3>1. draft' = [draft EXCEPT ![d] = [draft[d] EXCEPT !.state = result]]
      BY <1>a, <1>b, <1>c DEF IInv
    <3>2. [draft[d] EXCEPT !.state = result] \in DraftRow
      BY <1>a, RowUpdates DEF IInv
    <3> QED BY <3>1, <3>2, RowUpdates DEF IInv
  <2>2. call' \in [Calls -> CallRow]
    BY CallUpdates DEF IInv, StoreOutcome
  <2> QED BY <2>1, <2>2 DEF IInv, TypeOK, StoreOutcome, Outcome, DraftRow, CallRow
<1>2. ASSUME NEW e \in Confs PROVE ConfOK(e)'
  BY <1>a, <1>b, <1>d DEF IInv, ConfOK, Over
<1>3. ASSUME NEW e \in Confs PROVE Delivery(e)'
  BY DEF IInv, Delivery, CallOK, InAir, Silent, StoreOutcome, Outcome
<1>4. ASSUME NEW f \in Drafts PROVE DraftOK(f)'
  <2>1. CASE f # d
    BY <1>a, <1>b, <1>c, <1>d, <2>1 DEF IInv, DraftOK
  <2>2. CASE f = d /\ result = "Failed"
    <3>1. \A e \in Confs : conf[e].draft = d => attempt'[e] \in Over
      BY <1>a, <1>b, <1>c, <2>2 DEF Over
    <3> QED BY <1>b, <1>d, <2>2, <3>1 DEF DraftOK
  <2>3. CASE f = d /\ result = "Unknown"
    <3>1. \A e \in Confs : conf[e].draft = d /\ e # c => attempt'[e] \in Over
      BY <1>a, <1>b, <1>c
    <3>2. draft'[d].snapshot = c /\ conf'[c].draft = d
      BY <1>a, <1>b, <1>c, <1>d DEF d
    <3> QED BY <1>a, <1>b, <1>d, <2>3, <3>1, <3>2, LiveValues DEF DraftOK
  <2> QED BY <1>b, <2>1, <2>2, <2>3
<1>5. ASSUME NEW l \in Calls PROVE CallOK(l)'
  BY DEF IInv, TypeOK, CallOK, Distinct, Busy, Silent, StoreOutcome, Return, IdleCall
<1>6. Distinct'
  BY DEF IInv, Distinct, Busy, StoreOutcome, Return, IdleCall
<1> QED BY <1>1, <1>2, <1>3, <1>4, <1>5, <1>6 DEF IInv

(* OutcomeNotStored preserves the invariant. *)
LEMMA OutcomeNotStoredStep == ASSUME NEW k \in Calls, IInv, OutcomeNotStored(k) PROVE IInv'
<1>1. TypeOK'
  BY DEF IInv, TypeOK, OutcomeNotStored, Return, IdleCall
<1>2. ASSUME NEW e \in Confs PROVE ConfOK(e)'
  BY DEF IInv, ConfOK, OutcomeNotStored
<1>3. ASSUME NEW e \in Confs PROVE Delivery(e)'
  BY DEF IInv, Delivery, OutcomeNotStored
<1>4. ASSUME NEW f \in Drafts PROVE DraftOK(f)'
  BY DEF IInv, DraftOK, OutcomeNotStored
<1>5. ASSUME NEW l \in Calls PROVE CallOK(l)'
  BY DEF IInv, CallOK, Busy, Silent, OutcomeNotStored, Return, IdleCall
<1>6. Distinct'
  BY DEF IInv, Distinct, Busy, OutcomeNotStored, Return, IdleCall
<1> QED BY <1>1, <1>2, <1>3, <1>4, <1>5, <1>6 DEF IInv

(* ReconcileRead preserves the invariant. *)
LEMMA ReconcileReadStep == ASSUME NEW k \in Calls, NEW d \in Drafts, IInv, ReconcileRead(k, d) PROVE IInv'
<1>1. TypeOK'
  BY DEF IInv, TypeOK, ReconcileRead
<1>2. ASSUME NEW e \in Confs PROVE ConfOK(e)'
  BY DEF IInv, ConfOK, ReconcileRead
<1>3. ASSUME NEW e \in Confs PROVE Delivery(e)'
  BY DEF IInv, Delivery, ReconcileRead
<1>4. ASSUME NEW f \in Drafts PROVE DraftOK(f)'
  BY DEF IInv, DraftOK, ReconcileRead
<1>5. ASSUME NEW l \in Calls PROVE CallOK(l)'
  BY DEF IInv, CallOK, DraftOK, Busy, Silent, ReconcileRead
<1>6. Distinct'
  BY DEF IInv, Distinct, Busy, ReconcileRead
<1> QED BY <1>1, <1>2, <1>3, <1>4, <1>5, <1>6 DEF IInv

(* ReconcileFound preserves the invariant. *)
LEMMA ReconcileFoundStep == ASSUME NEW k \in Calls, IInv, ReconcileFound(k) PROVE IInv'
<1> DEFINE c == call[k].letter
           d == conf[c].draft
<1>a. /\ c \in Confs /\ d \in Drafts /\ app = "up" /\ attempt[c] \in {"Unknown", "Sent"}
      /\ copies[c][account] = 1 /\ conf[c].sender = account
  BY DEF IInv, CallOK, ConfOK, ReconcileFound
<1>b. /\ UNCHANGED <<app, account, conf, wire, copies>>
      /\ call'[k] = IdleCall /\ \A l \in Calls : l # k => call'[l] = call[l]
  BY DEF IInv, TypeOK, ReconcileFound, Return
<1>c. /\ draft[d].snapshot = c
      /\ \A e \in Confs : conf[e].draft = d /\ e # c => attempt[e] \in Over
  BY <1>a, LiveAttempt DEF Over
<1>d. \/ UNCHANGED <<draft, attempt>>
      \/ /\ draft[d].state = "Unknown" /\ attempt[c] = "Unknown"
         /\ draft'[d].state = "Sent" /\ attempt'[c] = "Sent"
         /\ \A f \in Drafts : /\ f # d => draft'[f] = draft[f]
                             /\ draft'[f].revision = draft[f].revision
                             /\ draft'[f].snapshot = draft[f].snapshot
         /\ \A e \in Confs : e # c => attempt'[e] = attempt[e]
  <2>1. CASE draft[d].state = "Unknown"
    <3>1. attempt[c] = "Unknown"
      BY <1>a, <1>c, <2>1 DEF IInv, DraftOK
    <3>2. \A e \in Confs : e # c /\ conf[e].draft = d => attempt[e] # "Unknown"
      BY <1>c DEF Over
    <3> QED BY <1>a, <2>1, <3>1, <3>2 DEF ReconcileFound, Found, IInv, TypeOK
  <2>2. CASE draft[d].state # "Unknown"
    BY <2>2 DEF ReconcileFound
  <2> QED BY <2>1, <2>2
<1> HIDE DEF c, d
<1>1. TypeOK'
  <2>1. draft' \in [Drafts -> DraftRow]
    <3>1. CASE UNCHANGED draft
      BY <3>1, RowUpdates DEF IInv
    <3>2. CASE draft' = [draft EXCEPT ![d] = [draft[d] EXCEPT !.state = "Sent"]]
      <4>1. [draft[d] EXCEPT !.state = "Sent"] \in DraftRow
        BY <1>a, RowUpdates DEF IInv
      <4> QED BY <3>2, <4>1, RowUpdates DEF IInv
    <3> QED BY <3>1, <3>2 DEF ReconcileFound, Found, c, d
  <2>2. call' \in [Calls -> CallRow]
    BY CallUpdates DEF IInv, ReconcileFound
  <2> QED BY <2>1, <2>2 DEF IInv, TypeOK, ReconcileFound, Found, DraftRow, CallRow
<1>2. ASSUME NEW e \in Confs PROVE ConfOK(e)'
  BY <1>a, <1>b, <1>d DEF IInv, ConfOK, Over
<1>3. ASSUME NEW e \in Confs PROVE Delivery(e)'
  BY <1>a, <1>b, <1>d DEF IInv, Delivery, InAir
<1>4. ASSUME NEW f \in Drafts PROVE DraftOK(f)'
  <2>1. CASE UNCHANGED <<draft, attempt>>
    BY <1>b, <2>1 DEF IInv, DraftOK
  <2>2. CASE ~UNCHANGED <<draft, attempt>> /\ f # d
    BY <1>a, <1>b, <1>c, <1>d, <2>2 DEF IInv, DraftOK
  <2>3. CASE ~UNCHANGED <<draft, attempt>> /\ f = d
    <3>1. \A e \in Confs : conf[e].draft = d /\ e # c => attempt'[e] \in Over
      BY <1>a, <1>b, <1>c, <1>d, <2>3
    <3>2. draft'[d].snapshot = c /\ conf'[c].draft = d
      BY <1>a, <1>b, <1>c, <1>d, <2>3 DEF d
    <3> QED BY <1>a, <1>b, <1>d, <2>3, <3>1, <3>2, LiveValues DEF DraftOK
  <2> QED BY <2>1, <2>2, <2>3
<1>5. ASSUME NEW l \in Calls PROVE CallOK(l)'
  BY DEF IInv, CallOK, Busy, Silent, ReconcileFound, Found, Return, IdleCall
<1>6. Distinct'
  BY DEF IInv, Distinct, Busy, ReconcileFound, Return, IdleCall
<1> QED BY <1>1, <1>2, <1>3, <1>4, <1>5, <1>6 DEF IInv

(* ReconcileInconclusive preserves the invariant. *)
LEMMA ReconcileInconclusiveStep == ASSUME NEW k \in Calls, IInv, ReconcileInconclusive(k) PROVE IInv'
<1>1. TypeOK'
  BY DEF IInv, TypeOK, ReconcileInconclusive, Return, IdleCall
<1>2. ASSUME NEW e \in Confs PROVE ConfOK(e)'
  BY DEF IInv, ConfOK, ReconcileInconclusive
<1>3. ASSUME NEW e \in Confs PROVE Delivery(e)'
  BY DEF IInv, Delivery, ReconcileInconclusive
<1>4. ASSUME NEW f \in Drafts PROVE DraftOK(f)'
  BY DEF IInv, DraftOK, ReconcileInconclusive
<1>5. ASSUME NEW l \in Calls PROVE CallOK(l)'
  BY DEF IInv, CallOK, Busy, Silent, ReconcileInconclusive, Return, IdleCall
<1>6. Distinct'
  BY DEF IInv, Distinct, Busy, ReconcileInconclusive, Return, IdleCall
<1> QED BY <1>1, <1>2, <1>3, <1>4, <1>5, <1>6 DEF IInv

(* Crash preserves the invariant. *)
LEMMA CrashStep == ASSUME IInv, Crash PROVE IInv'
<1>1. TypeOK'
  BY MaxRevisionAssumption DEF IInv, TypeOK, Crash, IdleCall, NewConf
<1>2. ASSUME NEW e \in Confs PROVE ConfOK(e)'
  BY DEF IInv, ConfOK, Over, Crash, NewConf
<1>3. ASSUME NEW e \in Confs PROVE Delivery(e)'
  <2>1. conf[e].sender = conf'[e].sender \/ attempt[e] = "None"
    BY DEF IInv, ConfOK, Crash
  <2>2. UNCHANGED <<attempt, wire, copies>>
    BY DEF Crash
  <2> QED BY <2>1, <2>2 DEF IInv, Delivery, InAir
<1>4. ASSUME NEW f \in Drafts PROVE DraftOK(f)'
  <2>1. ASSUME NEW e \in Confs
        PROVE  conf'[e] = conf[e] \/ (attempt[e] = "None" /\ conf'[e].draft = NoDraft)
    <3>1. conf[e].state = "reading" => attempt[e] = "None"
      BY DEF IInv, ConfOK
    <3>2. conf'[e] = IF conf[e].state = "reading" THEN NewConf(e) ELSE conf[e]
      BY DEF Crash
    <3>3. NewConf(e).draft = NoDraft
      BY DEF NewConf
    <3> QED BY <3>1, <3>2, <3>3
  <2>2. UNCHANGED <<draft, attempt>> /\ app' = "down"
    BY DEF Crash
  <2>3. CASE draft[f].state \in {"Draft", "Failed"}
    BY <2>1, <2>2, <2>3, NoDraftAssumption DEF IInv, DraftOK
  <2>4. CASE draft[f].state \notin {"Draft", "Failed"}
    <3>1. draft[f].state \in {"Sending", "Unknown", "Sent"}
      BY <2>4 DEF IInv, TypeOK
    <3>2. draft[f].snapshot \in Confs /\ conf'[draft[f].snapshot] = conf[draft[f].snapshot]
      BY <2>1, <2>4, <3>1, LiveValues DEF IInv, DraftOK
    <3> QED BY <2>1, <2>2, <2>4, <3>2, NoDraftAssumption DEF IInv, DraftOK
  <2> QED BY <2>3, <2>4
<1>5. ASSUME NEW l \in Calls PROVE CallOK(l)'
  BY DEF IInv, CallOK, Busy, Silent, Crash, IdleCall
<1>6. Distinct'
  BY DEF IInv, Distinct, Busy, Crash, IdleCall
<1> QED BY <1>1, <1>2, <1>3, <1>4, <1>5, <1>6 DEF IInv

(* Boot preserves the invariant. *)
LEMMA BootStep == ASSUME IInv, Boot PROVE IInv'
<1>1. TypeOK'
  BY DEF IInv, TypeOK, Boot
<1>2. ASSUME NEW e \in Confs PROVE ConfOK(e)'
  BY DEF IInv, ConfOK, Boot
<1>3. ASSUME NEW e \in Confs PROVE Delivery(e)'
  BY DEF IInv, Delivery, Boot
<1>4. ASSUME NEW f \in Drafts PROVE DraftOK(f)'
  BY DEF IInv, DraftOK, Boot
<1>5. ASSUME NEW l \in Calls PROVE CallOK(l)'
  BY DEF IInv, CallOK, Boot
<1>6. Distinct'
  BY DEF IInv, Distinct, Boot
<1> QED BY <1>1, <1>2, <1>3, <1>4, <1>5, <1>6 DEF IInv

(* RecoverDrafts preserves the invariant. *)
LEMMA RecoverDraftsStep == ASSUME IInv, RecoverDrafts PROVE IInv'
<1>1. TypeOK'
  <2>1. draft' \in [Drafts -> DraftRow]
    <3>1. \A f \in Drafts : draft[f] \in DraftRow /\ [draft[f] EXCEPT !.state = "Unknown"] \in DraftRow
      BY RowUpdates DEF IInv
    <3> QED BY <3>1 DEF RecoverDrafts
  <2> QED BY <2>1 DEF IInv, TypeOK, RecoverDrafts, DraftRow
<1>2. ASSUME NEW e \in Confs PROVE ConfOK(e)'
  BY DEF IInv, ConfOK, Over, RecoverDrafts
<1>3. ASSUME NEW e \in Confs PROVE Delivery(e)'
  BY DEF IInv, Delivery, RecoverDrafts
<1>4. ASSUME NEW f \in Drafts PROVE DraftOK(f)'
  BY NoDraftAssumption DEF IInv, DraftOK, Live, RecoverDrafts
<1>5. ASSUME NEW l \in Calls PROVE CallOK(l)'
  BY DEF IInv, CallOK, RecoverDrafts
<1>6. Distinct'
  BY DEF IInv, Distinct, RecoverDrafts
<1> QED BY <1>1, <1>2, <1>3, <1>4, <1>5, <1>6 DEF IInv

(* RecoverAttempts preserves the invariant. *)
LEMMA RecoverAttemptsStep == ASSUME IInv, RecoverAttempts PROVE IInv'
<1>a. /\ app = "attempts" /\ app' = "up" /\ UNCHANGED <<account, conf, call, wire, copies>>
      /\ \A c \in Confs :
           attempt'[c] = IF attempt[c] \in {"Sending", "Transmitting"} THEN "Unknown" ELSE attempt[c]
  BY DEF RecoverAttempts, Interrupted
<1>b. draft' = draft
  BY DEF IInv, TypeOK, DraftOK, RecoverAttempts
<1>1. TypeOK'
  <2>1. draft' \in [Drafts -> DraftRow]
    BY <1>b, RowUpdates DEF IInv
  <2> QED BY <2>1 DEF IInv, TypeOK, RecoverAttempts, DraftRow
<1>2. ASSUME NEW e \in Confs PROVE ConfOK(e)'
  BY DEF IInv, ConfOK, Over, RecoverAttempts, Interrupted
<1>3. ASSUME NEW e \in Confs PROVE Delivery(e)'
  BY DEF IInv, Delivery, InAir, RecoverAttempts
<1>4. ASSUME NEW f \in Drafts PROVE DraftOK(f)'
  <2>1. \A e \in Confs : attempt[e] \in Over => attempt'[e] \in Over
    BY <1>a DEF Over
  <2>2. CASE draft[f].state \in {"Draft", "Failed"}
    BY <1>a, <1>b, <2>1, <2>2 DEF IInv, DraftOK
  <2>3. CASE draft[f].state \notin {"Draft", "Failed"}
    <3>1. draft[f].state \in {"Unknown", "Sent"}
      BY <1>a, <2>3 DEF IInv, TypeOK, DraftOK
    <3>2. /\ draft[f].snapshot \in Confs /\ attempt'[draft[f].snapshot] \in Live[draft[f].state]
          /\ draft[f].state = "Unknown" => attempt'[draft[f].snapshot] = "Unknown"
      BY <1>a, <2>3, <3>1, LiveValues DEF IInv, DraftOK
    <3> QED BY <1>a, <1>b, <2>1, <2>3, <3>1, <3>2 DEF IInv, DraftOK
  <2> QED BY <2>2, <2>3
<1>5. ASSUME NEW l \in Calls PROVE CallOK(l)'
  BY DEF IInv, CallOK, Busy, RecoverAttempts
<1>6. Distinct'
  BY DEF IInv, Distinct, RecoverAttempts
<1> QED BY <1>1, <1>2, <1>3, <1>4, <1>5, <1>6 DEF IInv

-----------------------------------------------------------------------------
(* The theorems *)

(* The invariant holds of the tables the program starts with. *)
LEMMA InitIInv == Init => IInv
<1> SUFFICES ASSUME Init PROVE IInv
  OBVIOUS
<1>1. TypeOK
  BY MaxRevisionAssumption DEF Init, TypeOK, Row, NewConf, IdleCall
<1>2. ASSUME NEW e \in Confs PROVE ConfOK(e) /\ Delivery(e)
  BY DEF Init, ConfOK, Delivery, NewConf, Over
<1>3. ASSUME NEW f \in Drafts PROVE DraftOK(f)
  BY DEF Init, DraftOK, Row, Over
<1>4. ASSUME NEW l \in Calls PROVE CallOK(l)
  BY DEF Init, CallOK, IdleCall, Busy, Silent
<1>5. Distinct
  BY DEF Init, Distinct, IdleCall, Busy
<1> QED BY <1>1, <1>2, <1>3, <1>4, <1>5 DEF IInv

(* A stuttering step preserves the invariant. *)
LEMMA StutterStep == ASSUME IInv, UNCHANGED vars PROVE IInv'
  BY DEF IInv, vars, TypeOK, ConfOK, Delivery, DraftOK, CallOK, Distinct

(* So does every step of the system: the cases of Next. *)
LEMMA NextStep == ASSUME IInv, [Next]_vars PROVE IInv'
<1>1. CASE UserStep
  BY <1>1, ConnectStep, EditStep, PrepareReadStep, PrepareStoreStep, ConfirmStep,
     SendReadStep, ReconcileReadStep DEF UserStep
<1>2. CASE GmailStep
  BY <1>2, AcceptStep, RefuseStep, VanishStep DEF GmailStep
<1>3. ASSUME NEW k \in Calls, SendStep(k) PROVE IInv'
  BY <1>3, ClaimStep, EnterTransportStep, TokenRefusedStep, PostStep, LoseResultStep,
     StoreReceiptStep, StoreOutcomeStep, OutcomeNotStoredStep, ReconcileFoundStep,
     ReconcileInconclusiveStep DEF SendStep
<1>4. CASE \E c \in Confs : Expire(c)
  BY <1>4, ExpireStep
<1>5. CASE Crash \/ Boot \/ RecoverDrafts \/ RecoverAttempts
  BY <1>5, CrashStep, BootStep, RecoverDraftsStep, RecoverAttemptsStep
<1> QED BY <1>1, <1>2, <1>3, <1>4, <1>5, StutterStep DEF Next

(* What the tables, the calls, the wire and the Sent folders always keep   *)
(* to: the inductive invariant holds in every reachable state.             *)
THEOREM InductiveInvariant == Spec => []IInv
  BY InitIInv, NextStep, PTL DEF Spec

(* Every table and every call keeps its type, a folder never holds a       *)
(* second copy of one confirmation, and a revision never passes its bound. *)
THEOREM TypeCorrect == Spec => []TypeOK
  BY InductiveInvariant, PTL DEF IInv

(* DraftOK is the story of the two tables, told for every draft. *)
LEMMA StoryFollows == IInv => RowsAgree
<1> SUFFICES ASSUME IInv, app = "up", NEW d \in Drafts PROVE Story(d)
  BY DEF RowsAgree
<1> DEFINE live == {c \in AttemptsOf(d) : attempt[c] # "Failed"}
           s == draft[d].snapshot
<1>1. live = {c \in Confs : conf[c].draft = d /\ attempt[c] \notin Over}
  BY DEF AttemptsOf, Over
<1>2. CASE draft[d].state \in {"Draft", "Failed"}
  <2>1. live = {}
    BY <1>1, <1>2 DEF IInv, DraftOK
  <2> QED BY <1>2, <2>1 DEF Story
<1>3. CASE draft[d].state \notin {"Draft", "Failed"}
  <2>1. draft[d].state \in {"Sending", "Unknown", "Sent"}
    BY <1>3 DEF IInv, TypeOK
  <2>2. /\ s \in Confs /\ conf[s].draft = d /\ attempt[s] \in Live[draft[d].state]
        /\ \A c \in Confs : conf[c].draft = d /\ c # s => attempt[c] \in Over
        /\ draft[d].state = "Unknown" => attempt[s] = "Unknown"
    BY <1>3 DEF IInv, DraftOK
  <2>3. live = {s}
    BY <1>1, <2>1, <2>2, LiveValues DEF Over
  <2>4. /\ draft[d].state = "Sending" => attempt[s] \in {"Sending", "Transmitting"}
        /\ draft[d].state = "Unknown" => attempt[s] \in {"Unknown"}
        /\ draft[d].state = "Sent"    => attempt[s] \in {"Sent"}
    BY <2>2, LiveValues
  <2> QED BY <1>3, <2>1, <2>3, <2>4 DEF Story
<1> QED BY <1>2, <1>3

(* While the process serves the user, Outreach and SendAttempt tell the    *)
(* same story, whatever the interleaving of double clicks, crashes and the *)
(* two recoveries.                                                         *)
THEOREM RowsAlwaysAgree == Spec => []RowsAgree
  BY InductiveInvariant, StoryFollows, PTL

(* A recorded Sent means the letter is in the sender's Sent folder; a      *)
(* recorded failure means it is not and never will be.                     *)
THEOREM RecordsAlwaysTrue == Spec => []RecordsAreTrue
<1>1. IInv => RecordsAreTrue
  <2> SUFFICES ASSUME IInv, NEW c \in Confs
               PROVE  /\ attempt[c] = "Sent" => copies[c][conf[c].sender] = 1
                      /\ attempt[c] \in {"None", "Sending", "Failed"} =>
                           \A a \in Accounts : copies[c][a] = 0 /\ <<c, a>> \notin wire
    BY DEF RecordsAreTrue
  <2>1. \A a \in Accounts : copies[c][a] \in 0 .. 1
    BY DEF IInv, TypeOK
  <2> QED BY <2>1 DEF IInv, Delivery, InAir
<1> QED BY <1>1, InductiveInvariant, PTL

(* A letter on the wire or delivered belongs to a live attempt of its      *)
(* sender, and its draft is frozen with the reviewed text.                 *)
LEMMA Reviewed ==
  ASSUME IInv, NEW c \in Confs, NEW a \in Accounts, copies[c][a] > 0 \/ <<c, a>> \in wire
  PROVE  /\ a = conf[c].sender /\ attempt[c] \notin Over
         /\ draft[conf[c].draft].revision = conf[c].revision
         /\ draft[conf[c].draft].state \notin {"Draft", "Failed"}
<1>1. a = conf[c].sender /\ attempt[c] \notin Over
  BY DEF IInv, Delivery, InAir, Over
<1> QED BY <1>1, LiveAttempt DEF IInv, ConfOK

(* What is on its way or delivered is what the user reviewed, from the     *)
(* account the preview named, and the draft still shows it.                *)
THEOREM AlwaysAsReviewed == Spec => []SentAsReviewed
<1>1. IInv => SentAsReviewed
  BY Reviewed DEF SentAsReviewed
<1> QED BY <1>1, InductiveInvariant, PTL

(* At most one copy of a draft is ever in the Sent folders, over all its   *)
(* confirmations, restarts and late deliveries, for any number of each.    *)
THEOREM NeverTwoCopies == Spec => []AtMostOneCopy
<1>1. IInv => AtMostOneCopy
  <2> SUFFICES ASSUME IInv, NEW d \in Drafts
               PROVE  /\ Cardinality(Delivered(d)) <= 1
                      /\ \A ca \in Delivered(d) : copies[ca[1]][ca[2]] = 1
    BY DEF AtMostOneCopy
  <2>1. ASSUME NEW p \in Delivered(d)
        PROVE  /\ p[1] \in Confs /\ p[2] \in Accounts /\ p = <<p[1], p[2]>>
               /\ conf[p[1]].draft = d /\ copies[p[1]][p[2]] > 0
    BY DEF Delivered
  <2>2. ASSUME NEW p \in Delivered(d)
        PROVE  p[1] = draft[d].snapshot /\ p[2] = conf[p[1]].sender
    BY <2>1, Reviewed, LiveAttempt
  <2>3. \A p, q \in Delivered(d) : p = q
    BY <2>1, <2>2
  <2>4. Delivered(d) = {} \/ \E p : Delivered(d) = {p}
    BY <2>3
  <2>5. Cardinality(Delivered(d)) <= 1
    <3>1. CASE Delivered(d) = {}
      BY <3>1, FS_EmptySet
    <3>2. ASSUME NEW p, Delivered(d) = {p} PROVE Cardinality(Delivered(d)) <= 1
      <4>1. Cardinality({p}) = 1
        BY FS_Singleton
      <4> QED BY <3>2, <4>1
    <3> QED BY <2>4, <3>1, <3>2
  <2>6. ASSUME NEW p \in Delivered(d) PROVE copies[p[1]][p[2]] = 1
    BY <2>1 DEF IInv, TypeOK
  <2> QED BY <2>5, <2>6
<1> QED BY <1>1, InductiveInvariant, PTL

-----------------------------------------------------------------------------
(***************************************************************************)
(* MailSend implements Correspondence, for every value of the constants.   *)
(* Edit is Revise, Confirm is Commit, Gmail's acceptance is Arrive, a      *)
(* recorded refusal is Release, and every other step leaves the tables and *)
(* the Sent folders as a reader of Correspondence sees them.  The          *)
(* inductive invariant above supplies what a step may assume.              *)
(***************************************************************************)
textBar      == [d \in Drafts |-> draft[d].revision]
committedBar == [d \in Drafts |-> IF Editable(d) THEN {} ELSE {conf[draft[d].snapshot].sender}]
arrivedBar   == [d \in Drafts |-> {<<ca[2], conf[ca[1]].revision>> : ca \in Delivered(d)}]

(* What a step that no reader of Correspondence sees leaves alone. *)
Same(c) ==
  /\ conf'[c].draft = conf[c].draft /\ conf'[c].sender = conf[c].sender
  /\ conf'[c].revision = conf[c].revision

Quiet(d) ==
  /\ draft'[d].revision = draft[d].revision /\ draft'[d].snapshot = draft[d].snapshot
  /\ draft'[d].state \in {"Draft", "Failed"} <=> draft[d].state \in {"Draft", "Failed"}

(* A frozen draft points at a live attempt of its own. *)
LEMMA SnapshotLive ==
  ASSUME IInv, NEW d \in Drafts, ~Editable(d)
  PROVE  /\ draft[d].snapshot \in Confs /\ conf[draft[d].snapshot].draft = d
         /\ attempt[draft[d].snapshot] \notin Over
<1>1. draft[d].state \in {"Sending", "Unknown", "Sent"}
  BY DEF IInv, TypeOK, DraftStates, Editable
<1> QED BY <1>1, LiveValues DEF IInv, DraftOK, Over

(* Quiet drafts stay committed for the same account. *)
LEMMA SameCommitted ==
  ASSUME IInv, NEW d \in Drafts, Quiet(d), \A c \in Confs : attempt[c] \notin Over => Same(c)
  PROVE  committedBar'[d] = committedBar[d]
<1>1. Editable(d)' <=> Editable(d)
  BY DEF Quiet, Editable
<1>2. ~Editable(d) => conf'[draft'[d].snapshot].sender = conf[draft[d].snapshot].sender
  BY SnapshotLive DEF Quiet, Same
<1>3. CASE Editable(d)
  BY <1>1, <1>3 DEF committedBar
<1>4. CASE ~Editable(d)
  BY <1>1, <1>2, <1>4 DEF committedBar
<1> QED BY <1>3, <1>4

(* Without a new copy nothing arrives. *)
LEMMA SameArrived ==
  ASSUME IInv, IInv', copies' = copies, \A c \in Confs : attempt[c] \notin Over => Same(c),
         NEW d \in Drafts
  PROVE  arrivedBar'[d] = arrivedBar[d]
<1>1. ASSUME NEW p \in Confs \X Accounts, copies[p[1]][p[2]] > 0 PROVE Same(p[1])
  BY <1>1 DEF IInv, Delivery, InAir, Over
<1>2. Delivered(d)' = Delivered(d)
  BY <1>1 DEF Delivered, Same
<1>3. \A p \in Delivered(d) : conf'[p[1]].revision = conf[p[1]].revision
  BY <1>1 DEF Delivered, Same
<1>4. {<<p[2], conf'[p[1]].revision>> : p \in Delivered(d)} =
        {<<p[2], conf[p[1]].revision>> : p \in Delivered(d)}
  BY <1>3
<1> QED BY <1>2, <1>4 DEF arrivedBar

(* The mapped variables do not change. *)
Stutters == UNCHANGED <<textBar, committedBar, arrivedBar>>

(* A step that writes no more than states is a stutter. *)
LEMMA Invisible ==
  ASSUME IInv, IInv', copies' = copies, \A d \in Drafts : Quiet(d),
         \A c \in Confs : attempt[c] \notin Over => Same(c)
  PROVE  Stutters
<1>1. textBar' = textBar
  BY DEF textBar, Quiet
<1>2. committedBar' = committedBar
  <2>1. \A d \in Drafts : committedBar'[d] = committedBar[d]
    BY SameCommitted
  <2> QED BY <2>1 DEF committedBar
<1>3. arrivedBar' = arrivedBar
  <2>1. \A d \in Drafts : arrivedBar'[d] = arrivedBar[d]
    BY SameArrived
  <2> QED BY <2>1 DEF arrivedBar
<1> QED BY <1>1, <1>2, <1>3 DEF Stutters

(* So is one that writes neither table nor folder. *)
LEMMA NothingWritten ==
  ASSUME IInv, IInv', UNCHANGED <<draft, conf, copies>> PROVE Stutters
  BY Invisible DEF Quiet, Same

(* Preparing, expiring and crashing write confirmations without an attempt. *)
LEMMA PreviewStutters ==
  ASSUME IInv, IInv', UNCHANGED <<draft, copies>>,
         \/ \E c \in Confs, d \in Drafts : PrepareRead(c, d)
         \/ \E c \in Confs : PrepareStore(c) \/ Expire(c)
         \/ Crash
  PROVE  Stutters
<1>1. \A c \in Confs : conf[c].state \in {"unused", "reading", "open"} => attempt[c] \in Over
  BY DEF IInv, ConfOK, Over
<1>2. ASSUME NEW c \in Confs, attempt[c] \notin Over PROVE Same(c)
  <2>1. conf[c].state \notin {"unused", "reading", "open"}
    BY <1>1, <1>2
  <2> QED BY <2>1 DEF PrepareRead, PrepareStore, Expire, Crash, IInv, TypeOK, Same
<1> QED BY <1>2, Invisible DEF Quiet

(* Recording what happened is a stutter, unless it is a refusal. *)
LEMMA RecordStutters ==
  ASSUME IInv, IInv', NEW k \in Calls,
         StoreReceipt(k) \/ ReconcileFound(k) \/ (StoreOutcome(k) /\ call[k].phase = "unclear")
  PROVE  Stutters
<1> DEFINE c == call[k].letter
           d == conf[c].draft
<1>1. c \in Confs /\ d \in Drafts /\ UNCHANGED <<conf, copies>>
  <2>1. CASE StoreReceipt(k) \/ StoreOutcome(k)
    <3>1. call[k].phase \in Busy /\ UNCHANGED <<conf, copies>>
      BY <2>1 DEF StoreReceipt, StoreOutcome, Busy
    <3>2. call[k].phase # "idle" BY <3>1 DEF Busy
    <3> QED BY <3>1, <3>2, CallHolds
  <2>2. CASE ReconcileFound(k)
    BY <2>2 DEF IInv, CallOK, ConfOK, ReconcileFound
  <2> QED BY <2>1, <2>2
<1> HIDE DEF c
<1>2. \/ UNCHANGED draft
      \/ /\ draft[d].state \in {"Sending", "Unknown"}
         /\ \E s \in {"Unknown", "Sent"} : draft' = [draft EXCEPT ![d].state = s]
  <2>1. CASE StoreReceipt(k)
    BY <2>1, <1>1 DEF StoreReceipt, IInv, TypeOK, c
  <2>2. CASE ReconcileFound(k)
    BY <2>2, <1>1 DEF ReconcileFound, Found, IInv, TypeOK, c
  <2>3. CASE StoreOutcome(k) /\ call[k].phase = "unclear"
    <3>1. draft' = [draft EXCEPT ![d].state = IF @ = "Sending" THEN "Unknown" ELSE @]
      BY <2>3 DEF StoreOutcome, Outcome, c
    <3>2. draft \in [Drafts -> DraftRow] BY RowUpdates DEF IInv
    <3> HIDE DEF d
    <3>3. CASE draft[d].state = "Sending" BY <3>1, <3>2, <3>3, <1>1
    <3>4. CASE draft[d].state # "Sending"
      <4>1. [draft[d] EXCEPT !.state = draft[d].state] = draft[d] BY <1>1, <3>2 DEF DraftRow
      <4>2. draft' = [draft EXCEPT ![d] = [draft[d] EXCEPT !.state = draft[d].state]] BY <3>1, <3>4
      <4> QED BY <1>1, <3>2, <4>1, <4>2
    <3> QED BY <3>3, <3>4
  <2> QED BY <2>1, <2>2, <2>3
<1> HIDE DEF d
<1>3. \A f \in Drafts : Quiet(f)
  BY <1>1, <1>2 DEF IInv, TypeOK, Quiet
<1>4. \A e \in Confs : conf'[e] = conf[e]  BY <1>1
<1>5. \A e \in Confs : Same(e) BY <1>4 DEF Same
<1> QED BY <1>1, <1>3, <1>5, Invisible

(* Recovery freezes what was in flight: a stutter. *)
LEMMA RecoveryStutters ==
  ASSUME IInv, IInv', RecoverDrafts \/ RecoverAttempts
  PROVE  Stutters
<1>1. UNCHANGED <<conf, copies>>
  BY DEF RecoverDrafts, RecoverAttempts
<1>2. \A d \in Drafts : Quiet(d)
  <2>1. CASE RecoverDrafts
    BY <2>1 DEF IInv, TypeOK, Quiet, RecoverDrafts
  <2>2. CASE RecoverAttempts
    BY <2>2 DEF IInv, TypeOK, Quiet, RecoverAttempts
  <2> QED BY <2>1, <2>2
<1> QED BY <1>1, <1>2, Invisible DEF Same

(* The abstract actions in terms of the mapped variables. *)
LEMMA Bars ==
  ASSUME NEW d \in Drafts
  PROVE  /\ Letters!Revise(d) <=>
              /\ committedBar[d] = {} /\ textBar[d] < MaxRevision
              /\ textBar' = [textBar EXCEPT ![d] = @ + 1]
              /\ UNCHANGED <<committedBar, arrivedBar>>
         /\ Letters!Release(d) <=>
              /\ arrivedBar[d] = {} /\ committedBar' = [committedBar EXCEPT ![d] = {}]
              /\ UNCHANGED <<textBar, arrivedBar>>
         /\ \A a \in Accounts : Letters!Commit(d, a) <=>
              /\ committedBar[d] = {} /\ committedBar' = [committedBar EXCEPT ![d] = {a}]
              /\ UNCHANGED <<textBar, arrivedBar>>
         /\ \A a \in Accounts : Letters!Arrive(d, a) <=>
              /\ committedBar[d] = {a} /\ arrivedBar[d] = {}
              /\ arrivedBar' = [arrivedBar EXCEPT ![d] = {<<a, textBar[d]>>}]
              /\ UNCHANGED <<textBar, committedBar>>
  BY DEF Letters!Revise, Letters!Release, Letters!Commit, Letters!Arrive, textBar,
         committedBar, arrivedBar

(* Edit is Revise. *)
LEMMA EditRevises ==
  ASSUME IInv, IInv', NEW d \in Drafts, Edit(d)
  PROVE  Letters!Revise(d)
<1>1. Editable(d) /\ Editable(d)' /\ UNCHANGED <<conf, copies>>
  BY DEF Edit, Editable, IInv, TypeOK
<1>2. \A f \in Drafts : f # d => draft'[f] = draft[f]
  BY DEF Edit, IInv, TypeOK
<1>3. draft[d].revision < MaxRevision /\ draft'[d].revision = draft[d].revision + 1
  BY DEF Edit, IInv, TypeOK
<1>4. committedBar' = committedBar
  BY <1>1, <1>2 DEF committedBar, Editable
<1>5. arrivedBar' = arrivedBar
  BY <1>1 DEF arrivedBar, Delivered
<1>6. committedBar[d] = {}
  BY <1>1 DEF committedBar
<1>7. textBar[d] < MaxRevision /\ textBar' = [textBar EXCEPT ![d] = @ + 1]
  BY <1>2, <1>3 DEF textBar
<1> QED BY <1>4, <1>5, <1>6, <1>7, Bars

(* Confirm is Commit for the confirmed account. *)
LEMMA ConfirmCommits ==
  ASSUME IInv, IInv', NEW c \in Confs, Confirm(c)
  PROVE  \E d \in Drafts, a \in Accounts : Letters!Commit(d, a)
<1>1. PICK d \in Drafts, a \in Accounts : d = conf[c].draft /\ a = conf[c].sender
  BY DEF IInv, ConfOK, Confirm
<1>2. \A e \in Confs : Same(e)
  BY DEF Confirm, IInv, TypeOK, Same
<1>3. Editable(d) /\ draft'[d].state = "Sending" /\ draft'[d].snapshot = c /\ copies' = copies
  BY <1>1 DEF Confirm, SnapshotFresh, Editable, IInv, TypeOK
<1>4. \A f \in Drafts : draft'[f].revision = draft[f].revision /\ (f # d => draft'[f] = draft[f])
  BY <1>1 DEF Confirm, IInv, TypeOK
<1>5. textBar' = textBar
  BY <1>4 DEF textBar
<1>6. arrivedBar' = arrivedBar
  <2>1. \A f \in Drafts : arrivedBar'[f] = arrivedBar[f]
    BY <1>2, <1>3, SameArrived
  <2> QED BY <2>1 DEF arrivedBar
<1>7. committedBar[d] = {} /\ committedBar'[d] = {a}
  BY <1>1, <1>2, <1>3 DEF committedBar, Editable, Same
<1>8. \A f \in Drafts : f # d => committedBar'[f] = committedBar[f]
  <2> SUFFICES ASSUME NEW f \in Drafts, f # d PROVE committedBar'[f] = committedBar[f]
    OBVIOUS
  <2>1. Quiet(f)
    BY <1>4 DEF Quiet
  <2> QED BY <1>2, <2>1, SameCommitted
<1>9. committedBar' = [committedBar EXCEPT ![d] = {a}]
  BY <1>7, <1>8 DEF committedBar
<1> QED BY <1>5, <1>6, <1>7, <1>9, Bars

(* Gmail's acceptance is Arrive. *)
LEMMA AcceptArrives ==
  ASSUME IInv, IInv', NEW c \in Confs, NEW a \in Accounts, Accept(c, a)
  PROVE  \E d \in Drafts : Letters!Arrive(d, a)
<1>1. /\ UNCHANGED <<draft, conf>> /\ copies[c][a] = 0
      /\ copies' = [copies EXCEPT ![c][a] = @ + 1]
  BY DEF Accept, rows, IInv, Delivery
<1>2. a = conf[c].sender /\ attempt[c] \notin Over
  BY Reviewed DEF Accept
<1>3. PICK d \in Drafts :
        /\ d = conf[c].draft /\ draft[d].snapshot = c /\ ~Editable(d)
        /\ draft[d].revision = conf[c].revision
        /\ \A e \in Confs : conf[e].draft = d /\ e # c => attempt[e] \in Over
  BY <1>2, LiveAttempt DEF Editable, IInv, ConfOK
<1>4. textBar' = textBar /\ committedBar' = committedBar
  BY <1>1 DEF textBar, committedBar, Editable
<1>5. committedBar[d] = {a}
  BY <1>2, <1>3 DEF committedBar
<1>6. Delivered(d) = {}
  <2> SUFFICES ASSUME NEW p \in Delivered(d) PROVE FALSE
    OBVIOUS
  <2>1. p[1] \in Confs /\ p[2] \in Accounts /\ conf[p[1]].draft = d /\ copies[p[1]][p[2]] > 0
    BY DEF Delivered
  <2>2. p[2] = conf[p[1]].sender /\ attempt[p[1]] \notin Over
    BY <2>1, Reviewed
  <2>3. p[1] = c
    BY <1>3, <2>1, <2>2
  <2> QED BY <1>1, <1>2, <2>1, <2>2, <2>3
<1>7. /\ copies'[c][a] = 1
      /\ \A p \in Confs \X Accounts : p # <<c, a>> => copies'[p[1]][p[2]] = copies[p[1]][p[2]]
  BY <1>1 DEF IInv, TypeOK
<1>8. Delivered(d)' = {<<c, a>>}
  BY <1>1, <1>3, <1>6, <1>7 DEF Delivered
<1>9. ASSUME NEW f \in Drafts, f # d PROVE arrivedBar'[f] = arrivedBar[f]
  <2>1. Delivered(f)' = Delivered(f)
    BY <1>1, <1>3, <1>7, <1>9 DEF Delivered
  <2> QED BY <1>1, <2>1 DEF arrivedBar
<1>10. arrivedBar[d] = {} /\ arrivedBar'[d] = {<<a, textBar[d]>>}
  <2>1. {<<p[2], conf[p[1]].revision>> : p \in {<<c, a>>}} = {<<a, conf[c].revision>>}
    OBVIOUS
  <2>2. arrivedBar'[d] = {<<a, conf[c].revision>>}
    BY <1>1, <1>3, <1>8, <2>1 DEF arrivedBar
  <2>3. arrivedBar[d] = {}
    BY <1>3, <1>6 DEF arrivedBar
  <2> QED BY <1>3, <2>2, <2>3 DEF textBar
<1>11. arrivedBar' = [arrivedBar EXCEPT ![d] = {<<a, textBar[d]>>}]
  BY <1>9, <1>10 DEF arrivedBar
<1> QED BY <1>3, <1>4, <1>5, <1>10, <1>11, Bars

(* A recorded refusal is Release. *)
LEMMA RefusalReleases ==
  ASSUME IInv, IInv', NEW k \in Calls, StoreOutcome(k), call[k].phase = "rejected"
  PROVE  \E d \in Drafts : Letters!Release(d)
<1> DEFINE c == call[k].letter
<1>0. PICK d \in Drafts : d = conf[c].draft
  BY CallHolds DEF Busy
<1>1. /\ c \in Confs /\ attempt[c] = "Transmitting" /\ app = "up"
      /\ UNCHANGED <<conf, copies>>
  BY CallHolds DEF Busy, StoreOutcome
<1>2. \A a \in Accounts : copies[c][a] = 0
  BY DEF IInv, CallOK, Silent
<1>3. /\ draft[d].state = "Sending"
      /\ \A e \in Confs : conf[e].draft = d /\ e # c => attempt[e] \in Over
  BY <1>0, <1>1, LiveAttempt DEF Over
<1>4. draft' = [draft EXCEPT ![d].state = "Failed"]
  BY <1>0, <1>1, <1>3 DEF StoreOutcome, Outcome, IInv, TypeOK
<1> HIDE DEF c
<1>5. Delivered(d) = {}
  <2> SUFFICES ASSUME NEW p \in Delivered(d) PROVE FALSE
    OBVIOUS
  <2>1. p[1] \in Confs /\ p[2] \in Accounts /\ conf[p[1]].draft = d /\ copies[p[1]][p[2]] > 0
    BY DEF Delivered
  <2>2. attempt[p[1]] \notin Over
    BY <2>1, Reviewed
  <2>3. p[1] = c
    BY <1>3, <2>1, <2>2
  <2> QED BY <1>2, <2>1, <2>3
<1>6. textBar' = textBar
  BY <1>1, <1>4 DEF textBar, IInv, TypeOK
<1>7. arrivedBar' = arrivedBar /\ arrivedBar[d] = {}
  BY <1>1, <1>5 DEF arrivedBar, Delivered
<1>8. committedBar'[d] = {}
  BY <1>1, <1>4 DEF committedBar, Editable, IInv, TypeOK
<1>9. \A f \in Drafts : f # d => committedBar'[f] = committedBar[f]
  BY <1>1, <1>4 DEF committedBar, Editable, IInv, TypeOK
<1>10. committedBar' = [committedBar EXCEPT ![d] = {}]
  BY <1>8, <1>9 DEF committedBar
<1> QED BY <1>1, <1>6, <1>7, <1>10, Bars

(* Initial states map to initial states. *)
LEMMA InitBar == Init => Letters!Init
<1> SUFFICES ASSUME Init PROVE Letters!Init
  OBVIOUS
<1>1. \A d \in Drafts : Editable(d) /\ draft[d].revision = 1
  BY DEF Init, Editable, Row
<1>2. \A d \in Drafts : Delivered(d) = {}
  BY DEF Init, Delivered
<1>3. textBar = [d \in Drafts |-> 1] /\ committedBar = [d \in Drafts |-> {}]
  BY <1>1 DEF textBar, committedBar
<1>4. arrivedBar = [d \in Drafts |-> {}]
  BY <1>2 DEF arrivedBar
<1> QED BY <1>3, <1>4 DEF Letters!Init, textBar, committedBar, arrivedBar

(* Every step maps to a step or a stutter. *)
LEMMA StepBar == ASSUME IInv, IInv', [Next]_vars PROVE [Letters!Next]_(Letters!letters)
<1> DEFINE Goal == Letters!Next \/ Stutters
<1>0. ASSUME Stutters PROVE Goal
  BY <1>0
<1>a. ASSUME NEW d \in Drafts, Letters!Revise(d) \/ Letters!Release(d) PROVE Goal
  BY <1>a DEF Letters!Next
<1>b. ASSUME NEW d \in Drafts, NEW a \in Accounts, Letters!Commit(d, a) \/ Letters!Arrive(d, a) PROVE Goal
  BY <1>b DEF Letters!Next
<1> HIDE DEF Goal
<1>1. ASSUME UserStep PROVE Goal
  <2>1. ASSUME NEW a \in Accounts, Connect(a) PROVE Goal
    BY <1>0, <2>1, NothingWritten DEF Connect, rows
  <2>2. ASSUME NEW d \in Drafts, Edit(d) PROVE Goal
    BY <1>a, <2>2, EditRevises
  <2>3. ASSUME NEW c \in Confs, NEW d \in Drafts, PrepareRead(c, d) PROVE Goal
    BY <1>0, <2>3, PreviewStutters DEF PrepareRead
  <2>4. ASSUME NEW c \in Confs, PrepareStore(c) PROVE Goal
    BY <1>0, <2>4, PreviewStutters DEF PrepareStore
  <2>5. ASSUME NEW c \in Confs, Confirm(c) PROVE Goal
    BY <1>b, <2>5, ConfirmCommits
  <2>6. ASSUME NEW k \in Calls, NEW c \in Confs, SendRead(k, c) PROVE Goal
    BY <1>0, <2>6, NothingWritten DEF SendRead, rows
  <2>7. ASSUME NEW k \in Calls, NEW d \in Drafts, ReconcileRead(k, d) PROVE Goal
    BY <1>0, <2>7, NothingWritten DEF ReconcileRead, rows
  <2> QED BY <1>1, <2>1, <2>2, <2>3, <2>4, <2>5, <2>6, <2>7 DEF UserStep
<1>2. ASSUME NEW c \in Confs, NEW a \in Accounts, Accept(c, a) \/ Refuse(c, a) \/ Vanish(c, a) PROVE Goal
  <2>1. CASE Accept(c, a)
    BY <1>b, <2>1, AcceptArrives
  <2>2. CASE Refuse(c, a) \/ Vanish(c, a)
    BY <1>0, <2>2, NothingWritten DEF Refuse, Vanish, rows
  <2> QED BY <1>2, <2>1, <2>2
<1>3. ASSUME NEW k \in Calls, SendStep(k) PROVE Goal
  <2>1. CASE Claim(k) \/ EnterTransport(k) \/ TokenRefused(k) \/ Post(k) \/ LoseResult(k)
    BY <1>0, <2>1, NothingWritten DEF Claim, EnterTransport, TokenRefused, Post,
           LoseResult, rows
  <2>2. CASE OutcomeNotStored(k) \/ ReconcileInconclusive(k)
    BY <1>0, <2>2, NothingWritten DEF OutcomeNotStored, ReconcileInconclusive, rows
  <2>3. CASE StoreReceipt(k) \/ ReconcileFound(k)
    BY <1>0, <2>3, RecordStutters
  <2>4. CASE StoreOutcome(k)
    <3>1. CASE call[k].phase = "rejected"
      BY <1>a, <2>4, <3>1, RefusalReleases
    <3>2. CASE call[k].phase = "unclear"
      BY <1>0, <2>4, <3>2, RecordStutters
    <3> QED BY <2>4, <3>1, <3>2 DEF StoreOutcome
  <2> QED BY <1>3, <2>1, <2>2, <2>3, <2>4 DEF SendStep
<1>4. ASSUME NEW c \in Confs, Expire(c) PROVE Goal
  BY <1>0, <1>4, PreviewStutters DEF Expire
<1>5. ASSUME Crash \/ Boot \/ RecoverDrafts \/ RecoverAttempts PROVE Goal
  <2>1. CASE Crash
    BY <1>0, <2>1, PreviewStutters DEF Crash
  <2>2. CASE Boot
    BY <1>0, <2>2, NothingWritten DEF Boot, rows
  <2>3. CASE RecoverDrafts \/ RecoverAttempts
    BY <1>0, <2>3, RecoveryStutters
  <2> QED BY <1>5, <2>1, <2>2, <2>3
<1>6. ASSUME UNCHANGED vars PROVE Goal
  BY <1>0, <1>6, NothingWritten DEF vars
<1>7. Goal
  BY <1>1, <1>2, <1>3, <1>4, <1>5, <1>6 DEF Next, GmailStep
<1>8. Stutters => UNCHANGED Letters!letters
  BY DEF Stutters, Letters!letters, textBar, committedBar, arrivedBar
<1> QED BY <1>7, <1>8 DEF Goal

(* Whatever the network does and whenever the process crashes, a letter,   *)
(* once confirmed, is frozen, reaches its recipient at most once, from the *)
(* confirmed account, and is released only when it certainly did not.      *)
THEOREM MailImplementsCorrespondence == Spec => ImplementsCorrespondence
<1>1. Init => Letters!Init
  BY InitBar
<1>2. IInv /\ IInv' /\ [Next]_vars => [Letters!Next]_(Letters!letters)
  BY StepBar
<1> QED BY <1>1, <1>2, InductiveInvariant, PTL DEF Spec, ImplementsCorrespondence,
       Letters!Spec

=============================================================================
