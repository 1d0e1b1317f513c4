----------------------------- MODULE RecordCells -----------------------------
(***************************************************************************)
(* The record workspace: cells of custom records edited one by one, in     *)
(* bulk, by undo and by table imports (Tracking/RecordWorkspaceService.cs, *)
(* Tracking/ImportPreviewService.cs).                                      *)
(*                                                                         *)
(* Every writer opens its transaction with BEGIN IMMEDIATE, so one at a    *)
(* time holds the write lock (holder) and works on a copy of the tables    *)
(* (work) that the commit installs and a rollback or a crash throws away;  *)
(* reads without a transaction see the committed tables (db).              *)
(*                                                                         *)
(* Values, types, choices and relations are data: a cell holds a value or  *)
(* is empty.  Field definitions never change once created (no code does),  *)
(* nothing archives a record, and a file is one of two contents or gone;   *)
(* it may be changed, removed and put back at any time.                    *)
(***************************************************************************)
EXTENDS Naturals, Sequences, FiniteSets

CONSTANTS Plain,       \* records the user creates
          Batches,     \* import batches
          NRows,       \* the most rows an imported file has
          Fields,      \* the fields of the collection
          KeyField,    \* the field mapped as stable key
          Values,      \* what a cell can hold
          Empty,       \* an empty cell
          Typed,       \* bound: what editors type into a cell
          Unseen,      \* the author of the change looked at no value
          Editors,     \* clients of the record service
          Commands,    \* command ids of the editors
          Calls,       \* calls of ImportPreviewService.Commit
          Nobody,      \* the write lock is free
          Content,     \* Content[b][v][n][f]: the cells of a version of a file
          MaxBulk,     \* the most cells of a bulk edit
          MaxEdits     \* bound on the changes of the editors

Rows == 1 .. NRows
Ids  == Plain \cup (Batches \X Rows)
Cell == Values \cup {Empty}
Versions == {"previewed", "changed"}
Sheets == {s \in Seq([Fields -> Cell]) : Len(s) <= NRows}

ASSUME IdsAssumption ==
  /\ Plain \cap (Batches \X Rows) = {} /\ Commands \cap (Batches \X Rows) = {}
  /\ Editors \cap Calls = {} /\ Nobody \notin Editors \cup Calls
ASSUME DataAssumption ==
  /\ NRows \in Nat /\ MaxBulk \in Nat /\ MaxEdits \in Nat /\ KeyField \in Fields
  /\ Empty \notin Values /\ Unseen \notin Cell /\ Typed \subseteq Cell
  /\ Content \in [Batches -> [Versions -> Sheets]]

VARIABLES
  db,      \* RecordRef.Revision, FieldValue and RecordChange, committed
  work,    \* the same as the transaction of the holder sees them
  holder,  \* the editor or the commit call in its transaction, or Nobody
  left,    \* the cell writes the holder still has to do
  at,      \* the row ApplyImportedRows comes to next
  page,    \* page[e]: the revisions and the cells editor e was shown
  batch,   \* batch[b]: the row of ImportBatch
  file,    \* file[b]: the source file now
  call,    \* call[c]: how far a Commit is, and for which batch
  plan     \* plan[c]: what Prepare made of the rows

vars == <<db, work, holder, left, at, page, batch, file, call, plan>>

(***************************************************************************)
(* Tables.                                                                 *)
(***************************************************************************)
NoCells == [f \in Fields |-> Empty]

\* A slip: a repeated command is not recognised.
KnownNever(d, w) == FALSE

(* Is this command already in the history of this cell?                    *)
Known(d, w) ==
  \E i \in DOMAIN d.log[w.rec] :
    d.log[w.rec][i].field = w.field /\ d.log[w.rec][i].cmd = w.cmd

\* A slip: the value is read for the history after it was replaced.
ChangeOfReplaced(d, w) ==
  [field |-> w.field, cmd |-> w.cmd, before |-> w.value,
   after |-> w.value, saw |-> w.saw]

ChangeOf(d, w) ==
  [field |-> w.field, cmd |-> w.cmd, before |-> d.cell[w.rec][w.field],
   after |-> w.value, saw |-> w.saw]

(* Value replaced, revision raised and change recorded, together.          *)
Applied(d, w) ==
  [rev  |-> [r \in Ids |-> IF r = w.rec THEN d.rev[r] + 1 ELSE d.rev[r]],
   cell |-> [r \in Ids |-> [f \in Fields |->
               IF r = w.rec /\ f = w.field THEN w.value ELSE d.cell[r][f]]],
   log  |-> [r \in Ids |-> IF r = w.rec THEN Append(d.log[r], ChangeOf(d, w))
                                        ELSE d.log[r]]]

Created(d, r) ==
  [rev |-> [q \in Ids |-> IF q = r THEN 1 ELSE d.rev[q]], cell |-> d.cell, log |-> d.log]

(***************************************************************************)
(* Transactions.                                                           *)
(***************************************************************************)
Idle == holder = Nobody

Begin(h, writes) ==
  /\ Idle
  /\ holder' = h /\ left' = writes
  /\ UNCHANGED <<db, work, at>>

Commits ==
  /\ left = {}
  /\ db' = work /\ holder' = Nobody /\ at' = 1 /\ UNCHANGED <<work, left>>

RollBack ==
  /\ work' = db /\ holder' = Nobody /\ left' = {} /\ at' = 1 /\ UNCHANGED db

(* A rejected import is answered by MarkFailed, a rejected edit by an      *)
(* exception.                                                              *)
Rejected ==
  /\ RollBack
  /\ call' = [c \in Calls |-> IF c = holder THEN [call[c] EXCEPT !.phase = "fails"]
                                            ELSE call[c]]

\* A slip: the expected revision is only checked to be one of the past.
CurrentOrPast(w) == w.expected <= work.rev[w.rec]

(* The cells of an imported row expect the revision the cell before left   *)
(* (0 here); an edit expects the one its author saw.                       *)
Current(w) == w.expected = 0 \/ w.expected = work.rev[w.rec]

WriteCell ==
  \E w \in left :
    /\ IF Known(work, w) \/ Current(w)
         THEN /\ work' = IF Known(work, w) THEN work ELSE Applied(work, w)
              /\ left' = left \ {w}
              /\ UNCHANGED <<db, holder, at, call>>
         ELSE Rejected
    /\ UNCHANGED <<page, batch, file, plan>>

(***************************************************************************)
(* The editors.                                                            *)
(***************************************************************************)
CreateCustomRecord(r) ==
  /\ Idle /\ db.rev[r] = 0
  /\ db' = Created(db, r) /\ work' = Created(db, r)
  /\ UNCHANGED <<holder, left, at, page, batch, file, call, plan>>

(* Query reads revisions and values in one transaction, which waits for    *)
(* the write lock like the others.                                         *)
LoadCollection(e) ==
  /\ Idle
  /\ page' = [page EXCEPT ![e] = [rev |-> db.rev, cell |-> db.cell]]
  /\ UNCHANGED <<db, work, holder, left, at, batch, file, call, plan>>

Edit(e, r, f, v, c) ==
  [rec |-> r, field |-> f, value |-> v, cmd |-> c,
   expected |-> page[e].rev[r], saw |-> page[e].cell[r][f]]

Shown(e) == {r \in Ids : page[e].rev[r] > 0}

(* MaxEdits bounds the new changes editors ask for, not their retries.     *)
Edited(r) ==
  {<<r, i>> : i \in {j \in DOMAIN db.log[r] : db.log[r][j].cmd \in Commands}}
Room(writes) ==
  \/ Cardinality(UNION {Edited(r) : r \in Ids}) < MaxEdits
  \/ \A w \in writes : Known(db, w)

Submits(e, writes) ==
  /\ Room(writes)
  /\ Begin(e, writes)
  /\ UNCHANGED <<page, batch, file, call, plan>>

UpdateCell(e, r, f, v, c) ==
  /\ r \in Shown(e)
  /\ Submits(e, {Edit(e, r, f, v, c)})

(* One cell each of some records, each with its own field, value and       *)
(* command id (an item without one gets the batch's with its index).       *)
Items == [field : Fields, value : Typed, cmd : Commands]

BulkEdit(e) ==
  /\ Idle
  /\ \E S \in SUBSET Shown(e) :
       /\ S # {} /\ Cardinality(S) <= MaxBulk
       /\ \E item \in [S -> Items] :
            LET Of(r) == Edit(e, r, item[r].field, item[r].value, item[r].cmd)
            IN Submits(e, {Of(r) : r \in S})

(* Undo(change, command, expected revision) writes the change's before.    *)
Undo(e, r, i, c) ==
  /\ r \in Shown(e) /\ i \in DOMAIN db.log[r]
  /\ Submits(e, {Edit(e, r, db.log[r][i].field, db.log[r][i].before, c)})

EditCommits ==
  /\ holder \in Editors /\ Commits
  /\ UNCHANGED <<page, batch, file, call, plan>>

(***************************************************************************)
(* The imports.                                                            *)
(***************************************************************************)
Strategies == {"Append", "UpdateByStableKey", "PreviewOnly"}

Preview(b, s) ==
  /\ Idle /\ batch[b].state = "None" /\ file[b] = "previewed"
  /\ batch' = [batch EXCEPT ![b] = [state |-> "Preview", strategy |-> s]]
  /\ UNCHANGED <<db, work, holder, left, at, page, file, call, plan>>

Cancel(b) ==
  /\ Idle /\ batch[b].state = "Preview"
  /\ batch' = [batch EXCEPT ![b].state = "Cancelled"]
  /\ UNCHANGED <<db, work, holder, left, at, page, file, call, plan>>

(* The user edits the source file, removes it, or puts a version of it back.*)
FileChanges(b) ==
  /\ \E v \in Versions \cup {"missing"} : v # file[b] /\ file' = [file EXCEPT ![b] = v]
  /\ UNCHANGED <<db, work, holder, left, at, page, batch, call, plan>>

Goes(c, from, to) ==
  /\ call[c].phase = from
  /\ call' = [call EXCEPT ![c].phase = to]

(* Commit: the batch is read, and answered at once unless it is Preview.   *)
CommitFinds(c, b) ==
  /\ call[c].phase = "idle" /\ batch[b].state = "Preview"
  /\ call' = [call EXCEPT ![c] =
       [phase |-> IF batch[b].strategy = "PreviewOnly" THEN "fails" ELSE "hash",
        batch |-> b]]
  /\ UNCHANGED <<db, work, holder, left, at, page, batch, file, plan>>

(* The hash of the file is compared with the previewed one.                *)
CommitHashes(c) ==
  /\ Goes(c, "hash", IF file[call[c].batch] = "previewed" THEN "read" ELSE "fails")
  /\ UNCHANGED <<db, work, holder, left, at, page, batch, file, plan>>

ByKey(b) == batch[b].strategy = "UpdateByStableKey"

(* LoadStableRecords: the committed records whose key cell holds k.        *)
Keyed(k) == {r \in Ids : db.rev[r] > 0 /\ db.cell[r][KeyField] = k}

(* A file without rows is refused by ApplyImportedRows, before it begins.  *)
(* Only an import by key maps a column as stable key.                      *)
RowErrors(b, rows) ==
  \/ rows = <<>>
  \/ \E n \in DOMAIN rows : rows[n] = NoCells
  \/ /\ ByKey(b)
     /\ \/ \E n \in DOMAIN rows : rows[n][KeyField] = Empty
        \/ \E n, m \in DOMAIN rows : n # m /\ rows[n][KeyField] = rows[m][KeyField]
        \/ \E n \in DOMAIN rows : \E r, s \in Keyed(rows[n][KeyField]) : r # s

Appended(b, n, cells) ==
  [rec |-> <<b, n>>, create |-> TRUE, expected |-> 0, cells |-> cells,
   saw |-> [f \in Fields |-> Unseen]]
Updated(r, cells) ==
  [rec |-> r, create |-> FALSE, expected |-> db.rev[r], cells |-> cells,
   saw |-> db.cell[r]]

RowPlan(b, n, cells) ==
  IF ByKey(b) /\ Keyed(cells[KeyField]) # {}
    THEN Updated(CHOOSE r \in Keyed(cells[KeyField]) : TRUE, cells)
    ELSE Appended(b, n, cells)

(* Prepare reads the file again, whatever its hash is by now, and the      *)
(* records of the stable keys.                                             *)
CommitPrepares(c) ==
  LET b == call[c].batch
      rows == Content[b][file[b]]
      errors == RowErrors(b, rows)
  IN /\ call[c].phase = "read" /\ file[b] # "missing"
     /\ Goes(c, "read", IF errors THEN "fails" ELSE "apply")
     /\ plan' = [plan EXCEPT ![c] = IF errors THEN <<>>
                   ELSE [n \in DOMAIN rows |-> RowPlan(b, n, rows[n])]]
     /\ UNCHANGED <<db, work, holder, left, at, page, batch, file>>

(* ApplyImportedRows: one transaction over all rows.                       *)
ImportBegins(c) ==
  /\ Goes(c, "apply", "rows")
  /\ Begin(c, {})
  /\ UNCHANGED <<page, batch, file, plan>>

ImportWrite(c, n, f) ==
  [rec |-> plan[c][n].rec, field |-> f, value |-> plan[c][n].cells[f],
   cmd |-> <<call[c].batch, n>>, expected |-> 0, saw |-> plan[c][n].saw[f]]

CellsOf(c, n) ==
  {ImportWrite(c, n, f) : f \in {g \in Fields : plan[c][n].cells[g] # Empty}}

OpenRow(c) ==
  LET row == plan[c][at]
  IN /\ holder = c /\ left = {} /\ at <= Len(plan[c])
     /\ IF row.create \/ work.rev[row.rec] = row.expected
          THEN /\ work' = IF row.create /\ work.rev[row.rec] = 0
                            THEN Created(work, row.rec) ELSE work
               /\ left' = CellsOf(c, at) /\ at' = at + 1
               /\ UNCHANGED <<db, holder, call>>
          ELSE Rejected
     /\ UNCHANGED <<page, batch, file, plan>>

\* A slip: a transaction of its own for a row, and the batch counts as done.
ImportCommitsRow(c) ==
  /\ holder = c /\ at > 1
  /\ Commits
  /\ Goes(c, "rows", "mark")
  /\ UNCHANGED <<page, batch, file, plan>>

ImportCommits(c) ==
  /\ holder = c /\ at = Len(plan[c]) + 1
  /\ Commits
  /\ Goes(c, "rows", "mark")
  /\ UNCHANGED <<page, batch, file, plan>>

(* MarkCommitted and MarkFailed: both only WHERE State = 'Preview'.        *)
Marks(c, from, state) ==
  LET b == call[c].batch
  IN /\ Idle
     /\ Goes(c, from, "idle")
     /\ plan' = [plan EXCEPT ![c] = <<>>]
     /\ batch' = IF batch[b].state = "Preview"
                   THEN [batch EXCEPT ![b].state = state] ELSE batch
     /\ UNCHANGED <<db, work, holder, left, at, page, file>>

MarkCommitted(c) == Marks(c, "mark", "Committed")
MarkFailed(c)    == Marks(c, "fails", "Failed")

(* A call ends with an exception nobody maps (the file is gone, the        *)
(* database stays locked) or with its process; so does an edit.            *)
CommitEndsEarly(c) ==
  /\ call[c].phase # "idle"
  /\ IF holder = c THEN RollBack ELSE UNCHANGED <<db, work, holder, left, at>>
  /\ call' = [call EXCEPT ![c].phase = "idle"]
  /\ plan' = [plan EXCEPT ![c] = <<>>]
  /\ UNCHANGED <<page, batch, file>>

EditEndsEarly ==
  /\ holder \in Editors /\ RollBack
  /\ UNCHANGED <<page, batch, file, call, plan>>

Init ==
  /\ db = [rev |-> [r \in Ids |-> 0], cell |-> [r \in Ids |-> NoCells],
           log |-> [r \in Ids |-> <<>>]]
  /\ work = db /\ holder = Nobody /\ left = {} /\ at = 1
  /\ page = [e \in Editors |-> [rev |-> db.rev, cell |-> db.cell]]
  /\ batch = [b \in Batches |-> [state |-> "None", strategy |-> "Append"]]
  /\ file = [b \in Batches |-> "previewed"]
  /\ call = [c \in Calls |-> [phase |-> "idle", batch |-> Nobody]]
  /\ plan = [c \in Calls |-> <<>>]

EditorStep(e) ==
  \/ LoadCollection(e)
  \/ \E r \in Ids, f \in Fields, v \in Typed, c \in Commands : UpdateCell(e, r, f, v, c)
  \/ BulkEdit(e)
  \/ \E r \in Ids, c \in Commands : \E i \in DOMAIN db.log[r] : Undo(e, r, i, c)

BatchStep(b) ==
  \/ \E s \in Strategies : Preview(b, s)
  \/ Cancel(b) \/ FileChanges(b)

CommitStep(c) ==
  \/ \E b \in Batches : CommitFinds(c, b)
  \/ CommitHashes(c) \/ CommitPrepares(c) \/ ImportBegins(c) \/ OpenRow(c)
  \/ ImportCommits(c) \/ MarkCommitted(c) \/ MarkFailed(c) \/ CommitEndsEarly(c)

Next ==
  \/ \E r \in Plain : CreateCustomRecord(r)
  \/ \E e \in Editors : EditorStep(e)
  \/ WriteCell \/ EditCommits \/ EditEndsEarly
  \/ \E b \in Batches : BatchStep(b)
  \/ \E c \in Calls : CommitStep(c)

Spec == Init /\ [][Next]_vars

(***************************************************************************)
(* Properties.                                                             *)
(***************************************************************************)
Changes == [field : Fields, cmd : Commands \cup (Batches \X Rows),
            before : Cell, after : Cell, saw : Cell \cup {Unseen}]
Tables  == [rev : [Ids -> Nat], cell : [Ids -> [Fields -> Cell]],
            log : [Ids -> Seq(Changes)]]
Writes  == [rec : Ids, field : Fields, value : Cell,
            cmd : Commands \cup (Batches \X Rows),
            expected : Nat, saw : Cell \cup {Unseen}]
RowPlans == [rec : Ids, create : BOOLEAN, expected : Nat,
             cells : [Fields -> Cell], saw : [Fields -> Cell \cup {Unseen}]]
Plans == {p \in Seq(RowPlans) : Len(p) \in Rows}

Planned(c) == call[c].phase \in {"apply", "rows"}

(* Every variable has its type, a lock is held by a call only while it     *)
(* applies its rows, and without a holder the two views of the tables are  *)
(* the same.                                                               *)
RecordsTypeOK ==
  /\ db \in Tables /\ work \in Tables
  /\ holder \in Editors \cup Calls \cup {Nobody}
  /\ left \in SUBSET Writes /\ at \in 1 .. NRows + 1
  /\ page \in [Editors -> [rev : [Ids -> Nat], cell : [Ids -> [Fields -> Cell]]]]
  /\ batch \in [Batches -> [state : {"None", "Preview", "Committed", "Failed", "Cancelled"},
                            strategy : Strategies]]
  /\ file \in [Batches -> Versions \cup {"missing"}]
  /\ call \in [Calls -> [phase : {"idle", "hash", "read", "apply", "rows", "mark", "fails"},
                         batch : Batches \cup {Nobody}]]
  /\ DOMAIN plan = Calls
  /\ \A c \in Calls :
       /\ call[c].phase # "idle" => call[c].batch \in Batches
       /\ call[c].phase = "rows" <=> holder = c
       /\ Planned(c) => plan[c] \in Plans
  /\ Idle => work = db /\ left = {} /\ at = 1

(* The history of a record explains its cells: it holds one change per     *)
(* revision, each change replaced what the change of the same cell before  *)
(* it wrote (an empty cell if there is none), and the cell shows what the  *)
(* last one wrote; whatever edits, undos, retries and cut off imports came *)
(* before, committed or in a transaction (ApplyUpdate, the audit trail of  *)
(* RecordChange).                                                          *)
Shows(h, k, f, v) == \* v is what the first k changes of h leave in field f
  \/ v = Empty /\ \A i \in 1 .. k : h[i].field # f
  \/ \E i \in 1 .. k : /\ h[i].field = f /\ h[i].after = v
                      /\ \A j \in i + 1 .. k : h[j].field # f

Explains(d, r) ==
  LET h == d.log[r]
  IN /\ d.rev[r] = Len(h) + 1 \/ (d.rev[r] = 0 /\ Len(h) = 0)
     /\ \A f \in Fields : Shows(h, Len(h), f, d.cell[r][f])
     /\ \A i \in 1 .. Len(h) : Shows(h, i - 1, h[i].field, h[i].before)

HistoryExplainsCells == \A r \in Ids : Explains(db, r) /\ Explains(work, r)

(* Nobody overwrites what he has not seen: a change whose author looked at *)
(* the cell (an editor's page, the stable-key row of an import) replaced   *)
(* the very value its author saw, however stale page, plan or transaction  *)
(* (the revision checks of ApplyUpdate and ApplyImportedRows).             *)
NothingOverwrittenUnseen ==
  \A r \in Ids : \A i \in DOMAIN db.log[r] :
    db.log[r][i].saw \in {Unseen, db.log[r][i].before}

(* An appended row lands once: over repeated, concurrent and cut off calls *)
(* of Commit its cells appear in one record only and each was written once *)
(* (the deterministic record and command ids of Prepare).                  *)
AppendedRowsLandOnce ==
  \A b \in Batches, n \in Rows, r \in Ids : \A i \in DOMAIN db.log[r] :
    (db.log[r][i].cmd = <<b, n>> /\ batch[b].strategy = "Append") =>
      /\ r = <<b, n>>
      /\ \A j \in DOMAIN db.log[r] :
           (db.log[r][j].cmd = <<b, n>> /\ db.log[r][j].field = db.log[r][i].field) => j = i

(* The cells of a batch that are written, and those of a file (row, field). *)
Landed(d, b, n, f) ==
  \E r \in Ids : \E i \in DOMAIN d.log[r] :
    d.log[r][i].cmd = <<b, n>> /\ d.log[r][i].field = f

LandedCells(d, b) == {p \in Rows \X Fields : Landed(d, b, p[1], p[2])}
CellsIn(b, v) ==
  {p \in (DOMAIN Content[b][v]) \X Fields : Content[b][v][p[1]][p[2]] # Empty}

(* A batch is written as a whole or not at all: what of it is in the       *)
(* tables is all the cells of what its source was when a call of Commit    *)
(* read it (of both versions, if calls read both), and a batch that says   *)
(* Committed is written (the transaction of ApplyImportedRows, and the     *)
(* order of ApplyImportedRows and MarkCommitted in Commit).                *)
ImportIsWhole ==
  \A b \in Batches :
    LET landed == LandedCells(db, b)
    IN /\ \E S \in SUBSET Versions : landed = UNION {CellsIn(b, v) : v \in S}
       /\ batch[b].state = "Committed" => landed # {}

(* A batch that says Failed has written nothing (ImportTests.cs:55, "a     *)
(* failed import batch writes no partial records").  It may have: MarkFailed*)
(* does not ask what an earlier call of Commit has written.                *)
FailedWroteNothing ==
  \A b \in Batches : batch[b].state = "Failed" => LandedCells(db, b) = {}
=============================================================================
