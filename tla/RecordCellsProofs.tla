-------------------------- MODULE RecordCellsProofs --------------------------
(***************************************************************************)
(* Proofs about the record workspace, for any number of records, fields,   *)
(* batches, rows, editors and concurrent calls of Commit.  What the code   *)
(* promises about the committed tables is carried by what holds of the     *)
(* open transaction, of the pages and plans read before it began, and of   *)
(* the cell writes it still has to do.                                     *)
(***************************************************************************)
EXTENDS RecordCells, SequenceTheorems, TLAPS

(***************************************************************************)
(* The inductive invariant.                                                *)
(***************************************************************************)
(* One change per field and command in a history.                          *)
OnceEach(h) ==
  \A i, j \in 1 .. Len(h) :
    (h[i].field = h[j].field /\ h[i].cmd = h[j].cmd) => i = j

(* Each change replaced what its author saw.                               *)
SawBefore(h) == \A i \in 1 .. Len(h) : h[i].saw \in {Unseen, h[i].before}

Sound(d) ==
  \A r \in Ids : Explains(d, r) /\ OnceEach(d.log[r]) /\ SawBefore(d.log[r])

(* The changes of an Append batch are in the record of their row.          *)
AtHome(d, bt) ==
  \A b \in Batches, n \in Rows, r \in Ids : \A i \in 1 .. Len(d.log[r]) :
    (d.log[r][i].cmd = <<b, n>> /\ bt[b].strategy = "Append") => r = <<b, n>>

(* Revision and cells of record r are of d or of an earlier time.          *)
AsOf(rev, cells, d, r) ==
  rev <= d.rev[r] /\ (rev = d.rev[r] => cells = d.cell[r])

PageIn(p, d) == \A r \in Ids : AsOf(p.rev[r], p.cell[r], d, r)

(* d grew into g.                                                          *)
Grown(d, g) ==
  /\ PageIn(d, g)
  /\ \A b \in Batches, n \in Rows, f \in Fields : Landed(d, b, n, f) => Landed(g, b, n, f)

(* The author of the write saw the cell as it is, or the write is refused. *)
Informed(w, d) ==
  /\ d.rev[w.rec] > 0
  /\ w.expected = 0 => w.saw \in {Unseen, d.cell[w.rec][w.field]}
  /\ w.expected > 0 =>
       /\ w.expected <= d.rev[w.rec]
       /\ w.expected = d.rev[w.rec] => w.saw = d.cell[w.rec][w.field]

(* No two unchecked writes to one cell are left.                           *)
Apart(S) ==
  \A v, w \in S :
    (v.expected = 0 /\ v.rec = w.rec /\ v.field = w.field) => v = w

(* A row of a plan for row n of batch b.                                   *)
RowOK(row, b, n, d, bt) ==
  /\ row.create => \A f \in Fields : row.saw[f] = Unseen
  /\ ~row.create => row.expected > 0 /\ AsOf(row.expected, row.saw, d, row.rec)
  /\ bt[b].strategy = "Append" => row.rec = <<b, n>>
  /\ \E f \in Fields : row.cells[f] # Empty

(* A plan is made of a version of the file.                                *)
Reads(p, b, v) ==
  /\ DOMAIN p = DOMAIN Content[b][v]
  /\ \A n \in DOMAIN p : p[n].cells = Content[b][v][n]

PlanOK(p, b, d, bt) ==
  /\ \E v \in Versions : Reads(p, b, v)
  /\ \A n \in DOMAIN p : RowOK(p[n], b, n, d, bt)

PlansOK ==
  \A c \in Calls : Planned(c) => PlanOK(plan[c], call[c].batch, db, batch)

EditWrites == holder \in Editors => \A w \in left : w.cmd \in Commands

(* What the transaction of an import has done, and what it still has to do.*)
Writing(p, b, k, S, d, bt) ==
  /\ k <= Len(p) + 1
  /\ \A w \in S : /\ k > 1 /\ w.cmd = <<b, k - 1>> /\ p[k - 1].cells[w.field] # Empty
                  /\ bt[b].strategy = "Append" => w.rec = w.cmd
  /\ \A n \in 1 .. k - 1, f \in Fields : p[n].cells[f] # Empty =>
       Landed(d, b, n, f) \/ (n = k - 1 /\ \E w \in S : w.field = f)

ImportWrites ==
  \A c \in Calls : holder = c =>
    Writing(plan[c], call[c].batch, at, left, work, batch)

(* A transaction writes the cells of its own plan only.                    *)
InPlan(b, n, f) ==
  \E c \in Calls : /\ holder = c /\ call[c].batch = b /\ n \in DOMAIN plan[c]
                   /\ plan[c][n].cells[f] # Empty

OthersUntouched ==
  \A b \in Batches, n \in Rows, f \in Fields :
    Landed(work, b, n, f) => Landed(db, b, n, f) \/ InPlan(b, n, f)

(* Before its preview a batch is nobody's.                                 *)
PreviewFirst ==
  \A b \in Batches : batch[b].state = "None" =>
    /\ \A n \in Rows, f \in Fields : ~Landed(work, b, n, f)
    /\ \A c \in Calls : call[c].phase # "idle" => call[c].batch # b

Started(d, b) == \E n \in Rows, f \in Fields : Landed(d, b, n, f)

MarksWritten ==
  \A c \in Calls : call[c].phase = "mark" => Started(db, call[c].batch)

RInv ==
  /\ RecordsTypeOK
  /\ Sound(db) /\ Sound(work)
  /\ AtHome(db, batch) /\ AtHome(work, batch)
  /\ Grown(db, work)
  /\ \A e \in Editors : PageIn(page[e], db)
  /\ \A w \in left : Informed(w, work)
  /\ Apart(left)
  /\ PlansOK
  /\ EditWrites
  /\ ImportWrites
  /\ OthersUntouched
  /\ PreviewFirst
  /\ MarksWritten
  /\ ImportIsWhole
-----------------------------------------------------------------------------
(***************************************************************************)
(* Histories.                                                              *)
(***************************************************************************)
(* What the last change of a field wrote is shown, whatever comes after in *)
(* other fields.                                                           *)
LEMMA ShowsAppend ==
  ASSUME NEW h \in Seq(Changes), NEW x \in Changes, NEW f, NEW v
  PROVE  /\ \A k \in 0 .. Len(h) : Shows(h, k, f, v) => Shows(Append(h, x), k, f, v)
         /\ (f # x.field /\ Shows(h, Len(h), f, v)) =>
              Shows(Append(h, x), Len(h) + 1, f, v)
         /\ Shows(Append(h, x), Len(h) + 1, x.field, x.after)
<1> DEFINE g == Append(h, x)
<1>1. /\ g \in Seq(Changes) /\ Len(g) = Len(h) + 1 /\ Len(h) \in Nat
      /\ \A i \in 1 .. Len(h) : g[i] = h[i]
      /\ g[Len(h) + 1] = x
  OBVIOUS
<1> HIDE DEF g
<1>2. ASSUME NEW k \in 0 .. Len(h), Shows(h, k, f, v)
      PROVE  Shows(g, k, f, v)
  <2>1. \A i \in 1 .. k : i \in 1 .. Len(h) /\ g[i] = h[i]
    BY <1>1
  <2>2. CASE v = Empty /\ \A i \in 1 .. k : h[i].field # f
    BY <2>1, <2>2 DEF Shows
  <2>3. CASE \E i \in 1 .. k : /\ h[i].field = f /\ h[i].after = v
                               /\ \A j \in i + 1 .. k : h[j].field # f
    <3>1. PICK i \in 1 .. k : /\ h[i].field = f /\ h[i].after = v
                              /\ \A j \in i + 1 .. k : h[j].field # f
      BY <2>3
    <3>2. \A j \in i + 1 .. k : j \in 1 .. k
      BY <1>1
    <3> QED BY <2>1, <3>1, <3>2 DEF Shows
  <2> QED BY <1>2, <2>2, <2>3 DEF Shows
<1>3. ASSUME f # x.field, Shows(h, Len(h), f, v)
      PROVE  Shows(g, Len(h) + 1, f, v)
  <2>1. Shows(g, Len(h), f, v)
    BY <1>1, <1>2, <1>3
  <2>2. CASE v = Empty /\ \A i \in 1 .. Len(h) : g[i].field # f
    BY <1>1, <1>3, <2>2 DEF Shows
  <2>3. CASE \E i \in 1 .. Len(h) : /\ g[i].field = f /\ g[i].after = v
                               /\ \A j \in i + 1 .. Len(h) : g[j].field # f
    <3>1. PICK i \in 1 .. Len(h) : /\ g[i].field = f /\ g[i].after = v
                              /\ \A j \in i + 1 .. Len(h) : g[j].field # f
      BY <2>3
    <3>2. \A j \in i + 1 .. Len(h) + 1 : g[j].field # f
      BY <1>1, <1>3, <3>1
    <3> QED BY <1>1, <3>1, <3>2 DEF Shows
  <2> QED BY <2>1, <2>2, <2>3 DEF Shows
<1>4. Shows(g, Len(h) + 1, x.field, x.after)
  BY <1>1 DEF Shows
<1> QED BY <1>2, <1>3, <1>4 DEF g

(***************************************************************************)
(* A cell write applied.                                                   *)
(***************************************************************************)
LEMMA ChangeTyped ==
  ASSUME NEW d \in Tables, NEW w \in Writes
  PROVE  /\ ChangeOf(d, w) \in Changes
         /\ ChangeOf(d, w).field = w.field /\ ChangeOf(d, w).cmd = w.cmd
         /\ ChangeOf(d, w).before = d.cell[w.rec][w.field]
         /\ ChangeOf(d, w).after = w.value /\ ChangeOf(d, w).saw = w.saw
<1>1. d.cell[w.rec][w.field] \in Cell
  BY DEF Tables, Writes
<1> QED BY <1>1 DEF ChangeOf, Changes, Writes

LEMMA AppliedParts ==
  ASSUME NEW d \in Tables, NEW w \in Writes
  PROVE  LET g == Applied(d, w)
         IN /\ g \in Tables
            /\ \A r \in Ids \ {w.rec} : /\ g.rev[r] = d.rev[r] /\ g.cell[r] = d.cell[r]
                                        /\ g.log[r] = d.log[r]
            /\ g.rev[w.rec] = d.rev[w.rec] + 1
            /\ g.cell[w.rec][w.field] = w.value
            /\ \A f \in Fields \ {w.field} : g.cell[w.rec][f] = d.cell[w.rec][f]
            /\ g.log[w.rec] = Append(d.log[w.rec], ChangeOf(d, w))
<1> DEFINE g == Applied(d, w)
<1>1. /\ w.rec \in Ids /\ w.field \in Fields /\ w.value \in Cell
      /\ d.rev \in [Ids -> Nat] /\ d.cell \in [Ids -> [Fields -> Cell]]
      /\ d.log \in [Ids -> Seq(Changes)]
  BY DEF Tables, Writes
<1>2. ChangeOf(d, w) \in Changes
  BY ChangeTyped
<1>3. /\ g.rev = [r \in Ids |-> IF r = w.rec THEN d.rev[r] + 1 ELSE d.rev[r]]
      /\ g.cell = [r \in Ids |-> [f \in Fields |->
               IF r = w.rec /\ f = w.field THEN w.value ELSE d.cell[r][f]]]
      /\ g.log = [r \in Ids |-> IF r = w.rec THEN Append(d.log[r], ChangeOf(d, w))
                                        ELSE d.log[r]]
  BY DEF Applied
<1>4. g.rev \in [Ids -> Nat]
  BY <1>1, <1>3
<1>5. g.cell \in [Ids -> [Fields -> Cell]]
  BY <1>1, <1>3
<1>6. g.log \in [Ids -> Seq(Changes)]
  <2>1. \A r \in Ids : Append(d.log[r], ChangeOf(d, w)) \in Seq(Changes)
    BY <1>1, <1>2
  <2> QED BY <1>1, <1>3, <2>1
<1>7. g \in Tables
  BY <1>4, <1>5, <1>6 DEF Applied, Tables
<1>8. \A r \in Ids \ {w.rec} : g.cell[r] = d.cell[r]
  <2> TAKE r \in Ids \ {w.rec}
  <2>1. d.cell[r] \in [Fields -> Cell]
    BY <1>1
  <2>2. g.cell[r] = [f \in Fields |-> d.cell[r][f]]
    BY <1>3
  <2> QED BY <2>1, <2>2
<1>9. \A r \in Ids \ {w.rec} : g.rev[r] = d.rev[r] /\ g.log[r] = d.log[r]
  BY <1>3
<1>10. /\ g.rev[w.rec] = d.rev[w.rec] + 1
       /\ g.log[w.rec] = Append(d.log[w.rec], ChangeOf(d, w))
       /\ g.cell[w.rec][w.field] = w.value
       /\ \A f \in Fields \ {w.field} : g.cell[w.rec][f] = d.cell[w.rec][f]
  BY <1>1, <1>3
<1> HIDE DEF g
<1> QED BY <1>7, <1>8, <1>9, <1>10 DEF g

LEMMA CreatedParts ==
  ASSUME NEW d \in Tables, NEW r \in Ids
  PROVE  LET g == Created(d, r)
         IN /\ g \in Tables
            /\ \A q \in Ids \ {r} : g.rev[q] = d.rev[q]
            /\ g.rev[r] = 1 /\ g.cell = d.cell /\ g.log = d.log
BY DEF Created, Tables

(* A write that passes the checks of ApplyUpdate keeps the history sound.  *)
LEMMA AppliedSound ==
  ASSUME NEW d \in Tables, NEW w \in Writes, Sound(d), Informed(w, d), ~Known(d, w),
         w.expected = 0 \/ w.expected = d.rev[w.rec]
  PROVE  Sound(Applied(d, w))
<1> DEFINE g == Applied(d, w)
           h == d.log[w.rec]
           x == ChangeOf(d, w)
<1>1. /\ g \in Tables
      /\ \A r \in Ids \ {w.rec} : /\ g.rev[r] = d.rev[r] /\ g.cell[r] = d.cell[r]
                                  /\ g.log[r] = d.log[r]
      /\ g.rev[w.rec] = d.rev[w.rec] + 1
      /\ g.cell[w.rec][w.field] = w.value
      /\ \A f \in Fields \ {w.field} : g.cell[w.rec][f] = d.cell[w.rec][f]
      /\ g.log[w.rec] = Append(h, x)
  BY AppliedParts
<1>2. /\ x \in Changes /\ x.field = w.field /\ x.cmd = w.cmd
      /\ x.before = d.cell[w.rec][w.field] /\ x.after = w.value /\ x.saw = w.saw
  BY ChangeTyped
<1>3. /\ w.rec \in Ids /\ w.field \in Fields /\ h \in Seq(Changes)
      /\ Len(h) \in Nat /\ d.rev[w.rec] \in Nat /\ w.expected \in Nat
  BY DEF Tables, Writes
<1>4. ~Known(d, w) => \A i \in 1 .. Len(h) : ~(h[i].field = w.field /\ h[i].cmd = w.cmd)
  BY <1>3 DEF Known
<1>5. Explains(d, w.rec) /\ OnceEach(h) /\ SawBefore(h)
  BY <1>3 DEF Sound
<1>6. x.saw \in {Unseen, x.before}
  BY <1>2, <1>3 DEF Informed
<1>7. d.rev[w.rec] = Len(h) + 1
  BY <1>3, <1>5 DEF Explains, Informed
<1> HIDE DEF g, h, x
<1>8. /\ Append(h, x) \in Seq(Changes) /\ Len(Append(h, x)) = Len(h) + 1
      /\ \A i \in 1 .. Len(h) : Append(h, x)[i] = h[i]
      /\ Append(h, x)[Len(h) + 1] = x
  BY <1>2, <1>3
<1>9. Explains(g, w.rec)
  <2>1. \A f \in Fields : Shows(Append(h, x), Len(h) + 1, f, g.cell[w.rec][f])
    <3>1. \A f \in Fields : Shows(h, Len(h), f, d.cell[w.rec][f])
      BY <1>5 DEF Explains, h
    <3>2. \A f \in Fields \ {w.field} : Shows(Append(h, x), Len(h) + 1, f, d.cell[w.rec][f])
      BY <1>2, <1>3, <3>1, ShowsAppend
    <3>3. Shows(Append(h, x), Len(h) + 1, w.field, w.value)
      BY <1>2, <1>3, ShowsAppend
    <3> QED BY <1>1, <3>2, <3>3
  <2>2. ASSUME NEW i \in 1 .. Len(h) + 1
        PROVE  LET y == Append(h, x)[i] IN Shows(Append(h, x), i - 1, y.field, y.before)
    <3>1. CASE i \in 1 .. Len(h)
      <4>1. Shows(h, i - 1, h[i].field, h[i].before)
        BY <1>5, <3>1 DEF Explains, h
      <4>2. i - 1 \in 0 .. Len(h)
        BY <1>3, <3>1
      <4> QED BY <1>2, <1>3, <1>8, <3>1, <4>1, <4>2, ShowsAppend
    <3>2. CASE i = Len(h) + 1
      <4>1. Shows(h, Len(h), w.field, d.cell[w.rec][w.field])
        BY <1>3, <1>5 DEF Explains, h
      <4>2. i - 1 = Len(h) /\ Len(h) \in 0 .. Len(h)
        BY <1>3, <3>2
      <4>3. Shows(Append(h, x), Len(h), w.field, d.cell[w.rec][w.field])
        BY <1>2, <1>3, <4>1, <4>2, ShowsAppend
      <4> QED BY <1>2, <1>8, <3>2, <4>2, <4>3
    <3> QED BY <1>3, <3>1, <3>2
  <2> QED BY <1>1, <1>3, <1>7, <1>8, <2>1, <2>2 DEF Explains
<1>10. OnceEach(Append(h, x))
  <2>1. \A i, j \in 1 .. Len(h) : (h[i].field = h[j].field /\ h[i].cmd = h[j].cmd) => i = j
    BY <1>5 DEF OnceEach
  <2>2. \A i \in 1 .. Len(h) : ~(h[i].field = x.field /\ h[i].cmd = x.cmd)
    BY <1>2, <1>4
  <2>3. ASSUME NEW i \in 1 .. Len(h) + 1, NEW j \in 1 .. Len(h) + 1,
               Append(h, x)[i].field = Append(h, x)[j].field,
               Append(h, x)[i].cmd = Append(h, x)[j].cmd
        PROVE  i = j
    <3>1. CASE i \in 1 .. Len(h) /\ j \in 1 .. Len(h)
      <4>1. h[i].field = h[j].field /\ h[i].cmd = h[j].cmd
        BY <1>8, <2>3, <3>1
      <4> QED BY <2>1, <3>1, <4>1
    <3>2. CASE i = Len(h) + 1 /\ j \in 1 .. Len(h)
      <4>1. h[j].field = x.field /\ h[j].cmd = x.cmd
        BY <1>8, <2>3, <3>2
      <4> QED BY <2>2, <3>2, <4>1
    <3>3. CASE i \in 1 .. Len(h) /\ j = Len(h) + 1
      <4>1. h[i].field = x.field /\ h[i].cmd = x.cmd
        BY <1>8, <2>3, <3>3
      <4> QED BY <2>2, <3>3, <4>1
    <3> QED BY <1>3, <3>1, <3>2, <3>3
  <2> QED BY <1>8, <2>3 DEF OnceEach
<1>11. SawBefore(Append(h, x))
  BY <1>3, <1>5, <1>6, <1>8 DEF SawBefore
<1>12. ASSUME NEW r \in Ids \ {w.rec}
       PROVE  Explains(g, r) /\ OnceEach(g.log[r]) /\ SawBefore(g.log[r])
  BY <1>1 DEF Sound, Explains
<1> QED BY <1>1, <1>9, <1>10, <1>11, <1>12 DEF Sound, g

(* What an applied write adds to a batch, and where.                       *)
LEMMA AppliedLanded ==
  ASSUME NEW d \in Tables, NEW w \in Writes, NEW b \in Batches, NEW n \in Rows,
         NEW f \in Fields
  PROVE  Landed(Applied(d, w), b, n, f) <=>
           (Landed(d, b, n, f) \/ (w.cmd = <<b, n>> /\ w.field = f))
<1> DEFINE g == Applied(d, w)
<1>0. w.rec \in Ids /\ d.log \in [Ids -> Seq(Changes)]
  BY DEF Writes, Tables
<1>1. /\ \A r \in Ids \ {w.rec} : g.log[r] = d.log[r]
      /\ g.log[w.rec] = Append(d.log[w.rec], ChangeOf(d, w))
      /\ ChangeOf(d, w) \in Changes /\ ChangeOf(d, w).cmd = w.cmd
      /\ ChangeOf(d, w).field = w.field
  BY AppliedParts, ChangeTyped
<1> HIDE DEF g
<1>2. /\ d.log[w.rec] \in Seq(Changes) /\ Len(d.log[w.rec]) \in Nat
      /\ Len(g.log[w.rec]) = Len(d.log[w.rec]) + 1
      /\ DOMAIN g.log[w.rec] = 1 .. Len(d.log[w.rec]) + 1
      /\ DOMAIN d.log[w.rec] = 1 .. Len(d.log[w.rec])
      /\ \A i \in 1 .. Len(d.log[w.rec]) : g.log[w.rec][i] = d.log[w.rec][i]
      /\ g.log[w.rec][Len(d.log[w.rec]) + 1].cmd = w.cmd
      /\ g.log[w.rec][Len(d.log[w.rec]) + 1].field = w.field
  BY <1>0, <1>1
<1>3. \A i \in DOMAIN d.log[w.rec] :
        i \in DOMAIN g.log[w.rec] /\ g.log[w.rec][i] = d.log[w.rec][i]
  BY <1>2
<1>4. \A i \in DOMAIN g.log[w.rec] :
        \/ i \in DOMAIN d.log[w.rec] /\ g.log[w.rec][i] = d.log[w.rec][i]
        \/ g.log[w.rec][i].cmd = w.cmd /\ g.log[w.rec][i].field = w.field
  <2> TAKE i \in DOMAIN g.log[w.rec]
  <2>1. i \in 1 .. Len(d.log[w.rec]) \/ i = Len(d.log[w.rec]) + 1
    BY <1>2
  <2> QED BY <1>2, <2>1
<1>5. Len(d.log[w.rec]) + 1 \in DOMAIN g.log[w.rec]
  BY <1>2
<1>6. Landed(d, b, n, f) => Landed(g, b, n, f)
  <2> SUFFICES ASSUME NEW r \in Ids, NEW i \in DOMAIN d.log[r], d.log[r][i].cmd = <<b, n>>,
                      d.log[r][i].field = f
               PROVE  \E j \in DOMAIN g.log[r] :
                        g.log[r][j].cmd = <<b, n>> /\ g.log[r][j].field = f
    BY DEF Landed
  <2>1. CASE r = w.rec BY <1>3, <2>1
  <2>2. CASE r # w.rec
    <3>1. g.log[r] = d.log[r] BY <1>1, <2>2
    <3> QED BY <3>1
  <2> QED BY <2>1, <2>2
<1>7. w.cmd = <<b, n>> /\ w.field = f => Landed(g, b, n, f)
  BY <1>0, <1>1, <1>2, <1>5 DEF Landed
<1>8. Landed(g, b, n, f) => (Landed(d, b, n, f) \/ (w.cmd = <<b, n>> /\ w.field = f))
  BY <1>0, <1>1, <1>4 DEF Landed
<1> QED BY <1>6, <1>7, <1>8 DEF g

LEMMA AppliedAtHome ==
  ASSUME NEW d \in Tables, NEW w \in Writes, NEW bt, AtHome(d, bt),
         \A b \in Batches, n \in Rows :
           (w.cmd = <<b, n>> /\ bt[b].strategy = "Append") => w.rec = <<b, n>>
  PROVE  AtHome(Applied(d, w), bt)
<1> DEFINE g == Applied(d, w)
<1>0. w.rec \in Ids /\ d.log \in [Ids -> Seq(Changes)]
  BY DEF Writes, Tables
<1>1. /\ \A r \in Ids \ {w.rec} : g.log[r] = d.log[r]
      /\ g.log[w.rec] = Append(d.log[w.rec], ChangeOf(d, w))
      /\ ChangeOf(d, w) \in Changes /\ ChangeOf(d, w).cmd = w.cmd
  BY AppliedParts, ChangeTyped
<1> HIDE DEF g
<1>2. \A i \in 1 .. Len(g.log[w.rec]) :
        \/ i \in 1 .. Len(d.log[w.rec]) /\ g.log[w.rec][i] = d.log[w.rec][i]
        \/ g.log[w.rec][i].cmd = w.cmd
  BY <1>0, <1>1
<1>3. ASSUME NEW b \in Batches, NEW n \in Rows, NEW r \in Ids, NEW i \in 1 .. Len(g.log[r]),
             g.log[r][i].cmd = <<b, n>>, bt[b].strategy = "Append"
      PROVE  r = <<b, n>>
  <2>1. CASE r # w.rec
    BY <1>0, <1>1, <1>3, <2>1 DEF AtHome
  <2>2. CASE r = w.rec /\ g.log[r][i].cmd = w.cmd
    BY <1>3, <2>2
  <2>3. CASE r = w.rec /\ i \in 1 .. Len(d.log[w.rec]) /\ g.log[r][i] = d.log[w.rec][i]
    BY <1>3, <2>3 DEF AtHome
  <2> QED BY <1>2, <2>1, <2>2, <2>3
<1> QED BY <1>3 DEF AtHome, g

LEMMA AppliedGrown ==
  ASSUME NEW d \in Tables, NEW w \in Writes, NEW o \in Tables, Grown(o, d)
  PROVE  Grown(o, Applied(d, w))
<1>1. /\ w.rec \in Ids /\ d.rev \in [Ids -> Nat] /\ o.rev \in [Ids -> Nat]
  BY DEF Writes, Tables
<1>2. /\ \A r \in Ids \ {w.rec} : /\ Applied(d, w).rev[r] = d.rev[r]
                                  /\ Applied(d, w).cell[r] = d.cell[r]
      /\ Applied(d, w).rev[w.rec] = d.rev[w.rec] + 1
  BY AppliedParts
<1>3. ASSUME NEW r \in Ids
      PROVE  AsOf(o.rev[r], o.cell[r], Applied(d, w), r)
  BY <1>1, <1>2 DEF Grown, PageIn, AsOf
<1> QED BY <1>3, AppliedLanded DEF Grown, PageIn

LEMMA AppliedInformed ==
  ASSUME NEW d \in Tables, NEW w \in Writes, NEW v \in Writes, Informed(v, d),
         (v.expected = 0 /\ v.rec = w.rec) => v.field # w.field
  PROVE  Informed(v, Applied(d, w))
<1>1. /\ w.rec \in Ids /\ d.rev[w.rec] \in Nat /\ d.rev[v.rec] \in Nat
      /\ v.rec \in Ids /\ v.field \in Fields /\ w.field \in Fields /\ v.expected \in Nat
  BY DEF Writes, Tables
<1>2. /\ \A r \in Ids \ {w.rec} : /\ Applied(d, w).rev[r] = d.rev[r]
                                  /\ Applied(d, w).cell[r] = d.cell[r]
      /\ Applied(d, w).rev[w.rec] = d.rev[w.rec] + 1
      /\ \A f \in Fields \ {w.field} : Applied(d, w).cell[w.rec][f] = d.cell[w.rec][f]
  BY AppliedParts
<1>3. CASE v.rec # w.rec
  BY <1>1, <1>2, <1>3 DEF Informed
<1>4. CASE v.rec = w.rec /\ v.expected = 0
  <2>1. v.field \in Fields \ {w.field}
    BY <1>1, <1>4
  <2> QED BY <1>1, <1>2, <1>4, <2>1 DEF Informed
<1>5. CASE v.rec = w.rec /\ v.expected > 0
  BY <1>1, <1>2, <1>5 DEF Informed
<1> QED BY <1>1, <1>3, <1>4, <1>5

(* A record created where there is none.                                   *)
LEMMA CreatedKeeps ==
  ASSUME NEW d \in Tables, NEW r \in Ids, d.rev[r] = 0, NEW bt
  PROVE  /\ Sound(d) => Sound(Created(d, r))
         /\ AtHome(d, bt) => AtHome(Created(d, r), bt)
         /\ \A b, n, f : Landed(Created(d, r), b, n, f) <=> Landed(d, b, n, f)
         /\ \A o \in Tables : Grown(o, d) => Grown(o, Created(d, r))
<1> DEFINE g == Created(d, r)
<1>1. /\ g \in Tables /\ g.rev[r] = 1 /\ g.cell = d.cell /\ g.log = d.log
      /\ \A q \in Ids \ {r} : g.rev[q] = d.rev[q]
  BY CreatedParts
<1> HIDE DEF g
<1>2. ASSUME Sound(d) PROVE Sound(g)
  <2>1. ASSUME NEW q \in Ids PROVE Explains(g, q)
    <3>1. Explains(d, q)
      BY <1>2 DEF Sound
    <3>2. Len(d.log[q]) \in Nat
      BY DEF Tables
    <3> QED BY <1>1, <3>1, <3>2 DEF Explains
  <2> QED BY <1>1, <1>2, <2>1 DEF Sound
<1>3. AtHome(d, bt) => AtHome(g, bt)
  BY <1>1 DEF AtHome
<1>4. \A b, n, f : Landed(g, b, n, f) <=> Landed(d, b, n, f)
  BY <1>1 DEF Landed
<1>5. ASSUME NEW o \in Tables, Grown(o, d) PROVE Grown(o, g)
  <2>1. ASSUME NEW q \in Ids PROVE AsOf(o.rev[q], o.cell[q], g, q)
    <3>1. o.rev[q] \in Nat /\ d.rev[q] \in Nat
      BY DEF Tables
    <3> QED BY <1>1, <1>5, <3>1 DEF Grown, PageIn, AsOf
  <2> QED BY <1>4, <1>5, <2>1 DEF Grown, PageIn
<1> QED BY <1>2, <1>3, <1>4, <1>5 DEF g

(***************************************************************************)
(* Growth.                                                                 *)
(***************************************************************************)
LEMMA GrownItself == ASSUME NEW d \in Tables PROVE Grown(d, d)
BY DEF Grown, PageIn, AsOf, Tables

Pages == [rev : [Ids -> Nat], cell : [Ids -> [Fields -> Cell]]]

(* What was true of d at some time is so of what d grew into.              *)
LEMMA GrownAsOf ==
  ASSUME NEW d \in Tables, NEW g \in Tables, Grown(d, g), NEW r \in Ids,
         NEW rev \in Nat, NEW cells, AsOf(rev, cells, d, r)
  PROVE  AsOf(rev, cells, g, r)
<1>1. d.rev[r] \in Nat /\ g.rev[r] \in Nat
  BY DEF Tables
<1> QED BY <1>1 DEF Grown, PageIn, AsOf

LEMMA GrownPage ==
  ASSUME NEW d \in Tables, NEW g \in Tables, Grown(d, g), NEW p \in Pages, PageIn(p, d)
  PROVE  PageIn(p, g)
<1>1. \A r \in Ids : p.rev[r] \in Nat
  BY DEF Pages
<1> QED BY <1>1, GrownAsOf DEF PageIn

LEMMA GrownRow ==
  ASSUME NEW d \in Tables, NEW g \in Tables, Grown(d, g), NEW row \in RowPlans,
         NEW b, NEW n, NEW bt, RowOK(row, b, n, d, bt)
  PROVE  RowOK(row, b, n, g, bt)
<1>1. row.rec \in Ids /\ row.expected \in Nat
  BY DEF RowPlans
<1> QED BY <1>1, GrownAsOf DEF RowOK
-----------------------------------------------------------------------------
(***************************************************************************)
(* Types.                                                                  *)
(***************************************************************************)
Phases  == {"idle", "hash", "read", "apply", "rows", "mark", "fails"}
CallRec == [phase : Phases, batch : Batches \cup {Nobody}]

(* The part of RecordsTypeOK about the calls of Commit.                    *)
CallsOK ==
  /\ call \in [Calls -> CallRec]
  /\ \A c \in Calls :
       /\ call[c].phase # "idle" => call[c].batch \in Batches
       /\ call[c].phase = "rows" <=> holder = c
       /\ Planned(c) => plan[c] \in Plans

(* The rest of it, tables and lock first.                                  *)
TablesOK ==
  /\ db \in Tables /\ work \in Tables
  /\ holder \in Editors \cup Calls \cup {Nobody}
  /\ left \in SUBSET Writes /\ at \in 1 .. NRows + 1
  /\ Idle => work = db /\ left = {} /\ at = 1

ClientsOK ==
  /\ page \in [Editors -> Pages]
  /\ batch \in [Batches -> [state : {"None", "Preview", "Committed", "Failed", "Cancelled"},
                            strategy : Strategies]]
  /\ file \in [Batches -> Versions \cup {"missing"}]
  /\ DOMAIN plan = Calls

LEMMA TypeParts == RecordsTypeOK <=> (TablesOK /\ ClientsOK /\ CallsOK)
BY DEF RecordsTypeOK, TablesOK, ClientsOK, CallsOK, CallRec, Phases, Pages

(* The lock of nobody, of an editor and of a call are three things.        *)
LEMMA Holders ==
  /\ Nobody \notin Editors /\ Nobody \notin Calls
  /\ \A e \in Editors : e \notin Calls
BY IdsAssumption

LEMMA IdsOfRows == ASSUME NEW b \in Batches, NEW n \in Rows PROVE <<b, n>> \in Ids
BY DEF Ids

LEMMA FirstRow == 1 \in 1 .. NRows + 1
BY DataAssumption

LEMMA GoesTyped ==
  ASSUME CallsOK, NEW c \in Calls, NEW from \in Phases, NEW to \in Phases, Goes(c, from, to)
  PROVE  /\ call' \in [Calls -> CallRec]
         /\ call[c].phase = from
         /\ call'[c].phase = to /\ call'[c].batch = call[c].batch
         /\ \A k \in Calls \ {c} : call'[k] = call[k]
BY DEF CallsOK, Goes, CallRec

(* A step of one call outside its transaction.                             *)
LEMMA GoesOK ==
  ASSUME CallsOK, NEW c \in Calls, NEW from \in Phases \ {"idle", "rows"},
         NEW to \in Phases \ {"rows"},
         Goes(c, from, to), UNCHANGED holder,
         \A k \in Calls \ {c} : plan'[k] = plan[k],
         to = "apply" => plan'[c] \in Plans
  PROVE  CallsOK'
<1>1. /\ call' \in [Calls -> CallRec]
      /\ call[c].phase = from
      /\ call'[c].phase = to /\ call'[c].batch = call[c].batch
      /\ \A k \in Calls \ {c} : call'[k] = call[k]
  BY GoesTyped
<1>2. /\ call'[c].phase # "idle" => call'[c].batch \in Batches
      /\ call'[c].phase = "rows" <=> holder' = c
      /\ (call'[c].phase \in {"apply", "rows"}) => plan'[c] \in Plans
  BY <1>1 DEF CallsOK
<1>3. ASSUME NEW k \in Calls \ {c}
      PROVE  /\ call'[k].phase # "idle" => call'[k].batch \in Batches
             /\ call'[k].phase = "rows" <=> holder' = k
             /\ (call'[k].phase \in {"apply", "rows"}) => plan'[k] \in Plans
  BY <1>1 DEF CallsOK, Planned
<1> QED BY <1>1, <1>2, <1>3 DEF CallsOK, Planned

(* A call takes the lock, or gives it back, with its phase.                *)
LEMMA LockOK ==
  ASSUME CallsOK, NEW c \in Calls, NEW to \in Phases, Goes(c, call[c].phase, to),
         call[c].phase # "idle",
         \A k \in Calls \ {c} : holder # k /\ plan'[k] = plan[k],
         \/ holder' = Nobody /\ to \notin {"apply", "rows"}
         \/ holder' = c /\ to = "rows" /\ Planned(c) /\ plan'[c] = plan[c]
  PROVE  CallsOK'
<1>0. call[c].phase \in Phases /\ Nobody \notin Calls
  BY Holders DEF CallsOK, CallRec
<1>1. /\ call' \in [Calls -> CallRec]
      /\ call'[c].phase = to /\ call'[c].batch = call[c].batch
      /\ \A k \in Calls \ {c} : call'[k] = call[k]
  BY <1>0, GoesTyped
<1>2. /\ call'[c].phase # "idle" => call'[c].batch \in Batches
      /\ call'[c].phase = "rows" <=> holder' = c
      /\ (call'[c].phase \in {"apply", "rows"}) => plan'[c] \in Plans
  BY <1>0, <1>1 DEF CallsOK
<1>3. ASSUME NEW k \in Calls \ {c}
      PROVE  /\ call'[k].phase # "idle" => call'[k].batch \in Batches
             /\ call'[k].phase = "rows" <=> holder' = k
             /\ (call'[k].phase \in {"apply", "rows"}) => plan'[k] \in Plans
  BY <1>0, <1>1 DEF CallsOK, Planned
<1> QED BY <1>1, <1>2, <1>3 DEF CallsOK, Planned

LEMMA EditTyped ==
  ASSUME page \in [Editors -> Pages], NEW e \in Editors, NEW r \in Ids, NEW f \in Fields,
         NEW v \in Cell, NEW c \in Commands
  PROVE  Edit(e, r, f, v, c) \in Writes
<1>1. page[e].rev[r] \in Nat /\ page[e].cell[r][f] \in Cell
  BY DEF Pages
<1> QED BY <1>1 DEF Edit, Writes

(* A plan has a row or more, and not more than a file.                     *)
LEMMA PlanRows ==
  ASSUME NEW p \in Plans
  PROVE  /\ Len(p) \in Rows /\ Len(p) \in Nat /\ Len(p) <= NRows
         /\ DOMAIN p = 1 .. Len(p) /\ DOMAIN p \subseteq Rows /\ 1 \in DOMAIN p
         /\ \A n \in DOMAIN p : p[n] \in RowPlans
BY DataAssumption DEF Plans, Rows

LEMMA SheetRows ==
  ASSUME NEW rows \in Sheets, NEW n \in DOMAIN rows
  PROVE  n \in Rows /\ rows[n] \in [Fields -> Cell]
BY DataAssumption DEF Sheets, Rows

(* What a file holds becomes a plan row by row.                            *)
LEMMA PlanOfSheet ==
  ASSUME NEW rows \in Sheets, rows # <<>>, NEW p \in [DOMAIN rows -> RowPlans]
  PROVE  p \in Plans /\ DOMAIN p = DOMAIN rows
<1>1. /\ Len(rows) \in Nat /\ Len(rows) <= NRows /\ Len(rows) > 0
      /\ DOMAIN rows = 1 .. Len(rows)
  BY DEF Sheets
<1>2. p \in [1 .. Len(rows) -> RowPlans]
  BY <1>1
<1>3. p \in Seq(RowPlans)
  BY <1>1, <1>2, SeqDef
<1>4. Len(p) = Len(rows)
  BY <1>1, <1>2, <1>3, LenProperties
<1> QED BY <1>1, <1>3, <1>4, DataAssumption DEF Plans, Rows

LEMMA ImportWriteTyped ==
  ASSUME NEW c \in Calls, plan[c] \in Plans, call[c].batch \in Batches,
         NEW n \in DOMAIN plan[c]
  PROVE  CellsOf(c, n) \subseteq Writes
<1>1. ASSUME NEW f \in Fields PROVE ImportWrite(c, n, f) \in Writes
  <2>0. n \in Rows /\ plan[c][n] \in RowPlans
    BY PlanRows
  <2>1. /\ plan[c][n].rec \in Ids /\ plan[c][n].cells[f] \in Cell
        /\ plan[c][n].saw[f] \in Cell \cup {Unseen}
    BY <2>0 DEF RowPlans
  <2>2. <<call[c].batch, n>> \in Batches \X Rows
    BY <2>0
  <2> QED BY <2>1, <2>2 DEF ImportWrite, Writes
<1> QED BY <1>1 DEF CellsOf

LEMMA RowPlanTyped ==
  ASSUME db \in Tables, NEW b \in Batches, NEW n \in Rows, NEW cells \in [Fields -> Cell]
  PROVE  RowPlan(b, n, cells) \in RowPlans
<1>1. Appended(b, n, cells) \in RowPlans
  BY IdsOfRows DEF Appended, RowPlans
<1>2. ASSUME NEW r \in Ids PROVE Updated(r, cells) \in RowPlans
  <2>1. db.rev[r] \in Nat /\ db.cell[r] \in [Fields -> Cell]
    BY DEF Tables
  <2>2. db.cell[r] \in [Fields -> Cell \cup {Unseen}]
    BY <2>1
  <2> QED BY <2>1, <2>2 DEF Updated, RowPlans
<1>3. Keyed(cells[KeyField]) # {} => (CHOOSE r \in Keyed(cells[KeyField]) : TRUE) \in Ids
  BY DEF Keyed
<1> QED BY <1>1, <1>2, <1>3 DEF RowPlan

LEMMA RollBackTyped == ASSUME TablesOK, RollBack PROVE TablesOK'
BY FirstRow DEF TablesOK, RollBack, Idle

LEMMA CommitsTyped == ASSUME TablesOK, Commits PROVE TablesOK'
BY FirstRow DEF TablesOK, Commits, Idle

LEMMA BeginTyped ==
  ASSUME TablesOK, NEW h \in Editors \cup Calls, NEW S \in SUBSET Writes, Begin(h, S)
  PROVE  TablesOK'
BY Holders, FirstRow DEF TablesOK, Begin, Idle

(* A rejected import gives the lock back and fails, an edit gives it back. *)
LEMMA RejectedCalls ==
  ASSUME CallsOK, holder # Nobody, Rejected, UNCHANGED plan
  PROVE  CallsOK'
<1>1. call' \in [Calls -> CallRec]
  BY DEF CallsOK, CallRec, Rejected, Phases
<1>2. ASSUME NEW k \in Calls
      PROVE  /\ call'[k].phase # "idle" => call'[k].batch \in Batches
             /\ call'[k].phase = "rows" <=> holder' = k
             /\ (call'[k].phase \in {"apply", "rows"}) => plan'[k] \in Plans
  <2>1. holder' = Nobody /\ k # Nobody
    BY Holders DEF Rejected, RollBack
  <2>2. CASE k = holder
    BY <2>1, <2>2 DEF CallsOK, CallRec, Rejected
  <2>3. CASE k # holder
    <3>1. call'[k] = call[k]
      BY <2>3 DEF Rejected
    <3> QED BY <2>1, <2>3, <3>1 DEF CallsOK, Planned
  <2> QED BY <2>2, <2>3
<1> QED BY <1>1, <1>2 DEF CallsOK, Planned

LEMMA TypeEdits ==
  ASSUME TablesOK, ClientsOK, NEW e \in Editors, EditorStep(e)
  PROVE  TablesOK' /\ ClientsOK' /\ UNCHANGED <<plan, call>>
         /\ (holder' = holder \/ (holder = Nobody /\ holder' = e))
<1>1. CASE LoadCollection(e)
  <2>1. [rev |-> db.rev, cell |-> db.cell] \in Pages
    BY DEF TablesOK, Tables, Pages
  <2>2. page' \in [Editors -> Pages]
    BY <1>1, <2>1 DEF ClientsOK, LoadCollection
  <2> QED BY <1>1, <2>2 DEF ClientsOK, LoadCollection, TablesOK, Idle
<1>2. ASSUME NEW S \in SUBSET Writes, Submits(e, S)
      PROVE  TablesOK' /\ ClientsOK' /\ UNCHANGED <<plan, call>>
             /\ holder = Nobody /\ holder' = e
  <2>1. Begin(e, S) /\ UNCHANGED <<page, batch, file, call, plan>>
    BY <1>2 DEF Submits
  <2>2. TablesOK' /\ holder = Nobody /\ holder' = e
    BY <2>1, BeginTyped DEF Begin, Idle
  <2> QED BY <2>1, <2>2 DEF ClientsOK
<1>3. CASE \E r \in Ids, f \in Fields, v \in Typed, c \in Commands : UpdateCell(e, r, f, v, c)
  <2>1. PICK r \in Ids, f \in Fields, v \in Typed, c \in Commands : UpdateCell(e, r, f, v, c)
    BY <1>3
  <2>2. {Edit(e, r, f, v, c)} \in SUBSET Writes
    BY EditTyped, DataAssumption DEF ClientsOK
  <2> QED BY <1>2, <2>1, <2>2 DEF UpdateCell
<1>4. CASE BulkEdit(e)
  <2>0. PICK S \in SUBSET Shown(e) : \E item \in [S -> Items] :
          Submits(e, {Edit(e, r, item[r].field, item[r].value, item[r].cmd) : r \in S})
    BY <1>4 DEF BulkEdit
  <2>1. PICK item \in [S -> Items] :
          Submits(e, {Edit(e, r, item[r].field, item[r].value, item[r].cmd) : r \in S})
    BY <2>0
  <2>2. ASSUME NEW r \in S
        PROVE  Edit(e, r, item[r].field, item[r].value, item[r].cmd) \in Writes
    <3>1. /\ item[r].field \in Fields /\ item[r].value \in Typed /\ item[r].cmd \in Commands
          /\ r \in Ids
      BY DEF Items, Shown
    <3> QED BY <3>1, EditTyped, DataAssumption DEF ClientsOK
  <2>3. {Edit(e, r, item[r].field, item[r].value, item[r].cmd) : r \in S} \in SUBSET Writes
    BY <2>2
  <2> QED BY <1>2, <2>1, <2>3
<1>5. CASE \E r \in Ids, c \in Commands : \E i \in DOMAIN db.log[r] : Undo(e, r, i, c)
  <2>1. PICK r \in Ids, c \in Commands : \E i \in DOMAIN db.log[r] : Undo(e, r, i, c)
    BY <1>5
  <2>2. PICK i \in DOMAIN db.log[r] : Undo(e, r, i, c)
    BY <2>1
  <2>3. db.log[r][i].field \in Fields /\ db.log[r][i].before \in Cell
    <3>1. db.log[r] \in Seq(Changes)
      BY DEF TablesOK, Tables
    <3>2. db.log[r][i] \in Changes
      BY <3>1
    <3> QED BY <3>2 DEF Changes
  <2>4. {Edit(e, r, db.log[r][i].field, db.log[r][i].before, c)} \in SUBSET Writes
    BY <2>3, EditTyped DEF ClientsOK
  <2> QED BY <1>2, <2>2, <2>4 DEF Undo
<1> QED BY <1>1, <1>3, <1>4, <1>5 DEF EditorStep

LEMMA TypeCalls ==
  ASSUME TablesOK, ClientsOK, CallsOK, NEW c \in Calls, CommitStep(c)
  PROVE  TablesOK' /\ ClientsOK' /\ CallsOK'
<1>1. CASE \E b \in Batches : CommitFinds(c, b)
  <2>1. PICK b \in Batches : CommitFinds(c, b)
    BY <1>1
  <2>2. TablesOK' /\ ClientsOK'
    BY <2>1 DEF CommitFinds, TablesOK, ClientsOK, Idle
  <2>3. /\ call' \in [Calls -> CallRec]
        /\ call[c].phase = "idle"
        /\ call'[c].phase \in {"hash", "fails"} /\ call'[c].batch = b
        /\ \A k \in Calls \ {c} : call'[k] = call[k]
    BY <2>1 DEF CommitFinds, CallsOK, CallRec, Phases
  <2>4. UNCHANGED <<plan, holder>>
    BY <2>1 DEF CommitFinds
  <2>5. /\ call'[c].phase # "idle" => call'[c].batch \in Batches
        /\ call'[c].phase = "rows" <=> holder' = c
        /\ ~(call'[c].phase \in {"apply", "rows"})
    BY <2>3, <2>4 DEF CallsOK
  <2>6. \A k \in Calls \ {c} :
          /\ call'[k].phase # "idle" => call'[k].batch \in Batches
          /\ call'[k].phase = "rows" <=> holder' = k
          /\ (call'[k].phase \in {"apply", "rows"}) => plan'[k] \in Plans
    BY <2>3, <2>4 DEF CallsOK, Planned
  <2> QED BY <2>2, <2>3, <2>5, <2>6 DEF CallsOK, Planned
<1>2. CASE CommitHashes(c)
  <2>1. TablesOK' /\ ClientsOK' /\ UNCHANGED <<plan, holder>>
    BY <1>2 DEF CommitHashes, TablesOK, ClientsOK, Idle
  <2>2. PICK to \in {"read", "fails"} : Goes(c, "hash", to)
    BY <1>2 DEF CommitHashes
  <2> QED BY <2>1, <2>2, GoesOK DEF Phases
<1>3. CASE CommitPrepares(c)
  <2> DEFINE b == call[c].batch
             rows == Content[b][file[b]]
  <2>1. TablesOK' /\ ClientsOK' /\ UNCHANGED <<holder>>
    BY <1>3 DEF CommitPrepares, TablesOK, ClientsOK, Idle
  <2>2. /\ Goes(c, "read", IF RowErrors(b, rows) THEN "fails" ELSE "apply")
        /\ plan' = [plan EXCEPT ![c] = IF RowErrors(b, rows) THEN <<>>
                     ELSE [n \in DOMAIN rows |-> RowPlan(b, n, rows[n])]]
        /\ file[b] # "missing" /\ call[c].phase = "read"
    BY <1>3 DEF CommitPrepares
  <2>3. b \in Batches /\ file[b] \in Versions
    BY <2>2 DEF CallsOK, ClientsOK
  <2>4. rows \in Sheets
    BY <2>3, DataAssumption
  <2>5. ASSUME ~RowErrors(b, rows)
        PROVE  [n \in DOMAIN rows |-> RowPlan(b, n, rows[n])] \in Plans
    <3>1. \A n \in DOMAIN rows : n \in Rows /\ rows[n] \in [Fields -> Cell]
      BY <2>4, SheetRows
    <3>2. \A n \in DOMAIN rows : RowPlan(b, n, rows[n]) \in RowPlans
      BY <2>3, <3>1, RowPlanTyped DEF TablesOK
    <3>3. rows # <<>>
      BY <2>5 DEF RowErrors
    <3> QED BY <2>4, <3>2, <3>3, PlanOfSheet
  <2> QED
    <3>1. \A k \in Calls \ {c} : plan'[k] = plan[k]
      BY <2>2
    <3>2. CASE RowErrors(b, rows)
      <4>1. Goes(c, "read", "fails")
        BY <2>2, <3>2
      <4> QED BY <2>1, <3>1, <4>1, GoesOK DEF Phases
    <3>3. CASE ~RowErrors(b, rows)
      <4>1. Goes(c, "read", "apply")
        BY <2>2, <3>3
      <4>2. plan'[c] \in Plans
        BY <2>2, <2>5, <3>3 DEF ClientsOK
      <4> QED BY <2>1, <3>1, <4>1, <4>2, GoesOK DEF Phases
    <3> QED BY <3>2, <3>3
<1>4. CASE ImportBegins(c)
  <2>1. Goes(c, "apply", "rows") /\ Begin(c, {}) /\ UNCHANGED <<page, batch, file, plan>>
    BY <1>4 DEF ImportBegins
  <2>2. TablesOK'
    BY <2>1, BeginTyped
  <2>3. /\ holder = Nobody /\ holder' = c /\ call[c].phase = "apply"
        /\ \A k \in Calls : holder # k
    BY <2>1, Holders DEF Begin, Idle, Goes
  <2>4. CallsOK'
    BY <2>1, <2>3, LockOK DEF Phases, Planned
  <2> QED BY <2>1, <2>2, <2>4 DEF ClientsOK
<1>5. CASE OpenRow(c)
  <2> DEFINE row == plan[c][at]
  <2>1. /\ holder = c /\ left = {} /\ at <= Len(plan[c])
        /\ UNCHANGED <<page, batch, file, plan>>
        /\ \/ /\ work' = IF row.create /\ work.rev[row.rec] = 0
                            THEN Created(work, row.rec) ELSE work
              /\ left' = CellsOf(c, at) /\ at' = at + 1
              /\ UNCHANGED <<db, holder, call>>
           \/ Rejected
    BY <1>5 DEF OpenRow
  <2>2. ClientsOK' /\ holder # Nobody
    BY <2>1, Holders DEF ClientsOK
  <2>3. CASE Rejected
    BY <2>1, <2>2, <2>3, RollBackTyped, RejectedCalls DEF Rejected
  <2>4. CASE /\ work' = IF row.create /\ work.rev[row.rec] = 0
                            THEN Created(work, row.rec) ELSE work
             /\ left' = CellsOf(c, at) /\ at' = at + 1
             /\ UNCHANGED <<db, holder, call>>
    <3>0. plan[c] \in Plans /\ call[c].batch \in Batches
      BY <2>1 DEF CallsOK, Planned
    <3>1. at \in DOMAIN plan[c] /\ at + 1 \in 1 .. NRows + 1
      BY <2>1, <3>0, PlanRows, DataAssumption DEF TablesOK
    <3>2. row.rec \in Ids
      BY <3>0, <3>1, PlanRows DEF RowPlans
    <3>3. work' \in Tables
      BY <2>4, <3>2, CreatedParts DEF TablesOK
    <3>4. left' \in SUBSET Writes
      BY <2>4, <3>0, <3>1, ImportWriteTyped
    <3>5. TablesOK'
      BY <2>2, <2>4, <3>1, <3>3, <3>4 DEF TablesOK, Idle
    <3>6. CallsOK'
      BY <2>1, <2>4 DEF CallsOK, Planned
    <3> QED BY <2>2, <3>5, <3>6
  <2> QED BY <2>1, <2>2, <2>3, <2>4
<1>6. CASE ImportCommits(c)
  <2>1. holder = c /\ Commits /\ Goes(c, "rows", "mark") /\ UNCHANGED <<page, batch, file, plan>>
    BY <1>6 DEF ImportCommits
  <2>2. TablesOK' /\ ClientsOK' /\ holder' = Nobody
    BY <2>1, CommitsTyped DEF Commits, ClientsOK
  <2>3. call[c].phase = "rows" /\ (\A k \in Calls \ {c} : holder # k)
    BY <2>1 DEF Goes
  <2>4. CallsOK'
    BY <2>1, <2>2, <2>3, LockOK DEF Phases
  <2> QED BY <2>2, <2>4
<1>7. ASSUME NEW from \in {"mark", "fails"}, NEW state \in {"Committed", "Failed"},
             Marks(c, from, state)
      PROVE  TablesOK' /\ ClientsOK' /\ CallsOK'
  <2> DEFINE b == call[c].batch
  <2>1. /\ Goes(c, from, "idle") /\ plan' = [plan EXCEPT ![c] = <<>>]
        /\ UNCHANGED <<db, work, holder, left, at, page, file>>
        /\ batch' = IF batch[b].state = "Preview"
                   THEN [batch EXCEPT ![b].state = state] ELSE batch
    BY <1>7 DEF Marks
  <2>2. b \in Batches
    BY <2>1 DEF CallsOK, Goes
  <2>3. TablesOK'
    BY <2>1 DEF TablesOK, Idle
  <2>4. ClientsOK'
    BY <2>1, <2>2 DEF ClientsOK
  <2>5. CallsOK'
    BY <2>1, GoesOK DEF Phases
  <2> QED BY <2>3, <2>4, <2>5
<1>8. CASE CommitEndsEarly(c)
  <2>1. /\ call[c].phase # "idle"
        /\ call' = [call EXCEPT ![c].phase = "idle"]
        /\ plan' = [plan EXCEPT ![c] = <<>>]
        /\ UNCHANGED <<page, batch, file>>
        /\ \/ holder = c /\ RollBack
           \/ holder # c /\ UNCHANGED <<db, work, holder, left, at>>
    BY <1>8 DEF CommitEndsEarly
  <2>2. ClientsOK'
    BY <2>1 DEF ClientsOK
  <2>3. TablesOK'
    BY <2>1, RollBackTyped DEF TablesOK, Idle
  <2>4. Goes(c, call[c].phase, "idle") /\ call[c].phase \in Phases
    BY <2>1 DEF Goes, CallsOK, CallRec
  <2>5. \A k \in Calls \ {c} : plan'[k] = plan[k]
    BY <2>1 DEF ClientsOK
  <2>6. CASE holder = c /\ RollBack
    <3>1. holder' = Nobody /\ \A k \in Calls \ {c} : holder # k
      BY <2>6 DEF RollBack
    <3>2. CallsOK'
      BY <2>1, <2>4, <2>5, <3>1, LockOK DEF Phases
    <3> QED BY <2>2, <2>3, <3>2
  <2>7. CASE holder # c /\ UNCHANGED <<db, work, holder, left, at>>
    <3>1. call[c].phase \in Phases \ {"idle", "rows"}
      BY <2>1, <2>4, <2>7 DEF CallsOK
    <3>2. CallsOK'
      BY <2>4, <2>5, <2>7, <3>1, GoesOK DEF Phases
    <3> QED BY <2>2, <2>3, <3>2
  <2> QED BY <2>1, <2>6, <2>7
<1> QED BY <1>1, <1>2, <1>3, <1>4, <1>5, <1>6, <1>7, <1>8
        DEF CommitStep, MarkCommitted, MarkFailed

LEMMA TypeStep == RecordsTypeOK /\ [Next]_vars => RecordsTypeOK'
<1> SUFFICES ASSUME TablesOK, ClientsOK, CallsOK, [Next]_vars
             PROVE  TablesOK' /\ ClientsOK' /\ CallsOK'
  <2>1. RecordsTypeOK => TablesOK /\ ClientsOK /\ CallsOK
    BY TypeParts
  <2>2. TablesOK' /\ ClientsOK' /\ CallsOK' => RecordsTypeOK'
    BY TypeParts, PTL
  <2> QED BY <2>1, <2>2
<1>1. CASE UNCHANGED vars
  BY <1>1 DEF vars, TablesOK, ClientsOK, CallsOK, Idle, Planned
<1>2. ASSUME NEW r \in Plain, CreateCustomRecord(r)
      PROVE  TablesOK' /\ ClientsOK' /\ CallsOK'
  <2>1. r \in Ids
    BY DEF Ids
  <2>2. Created(db, r) \in Tables
    BY <2>1, CreatedParts DEF TablesOK
  <2> QED BY <1>2, <2>2 DEF CreateCustomRecord, TablesOK, ClientsOK, CallsOK, Idle, Planned
<1>3. ASSUME NEW e \in Editors, EditorStep(e)
      PROVE  TablesOK' /\ ClientsOK' /\ CallsOK'
  <2>1. /\ TablesOK' /\ ClientsOK' /\ UNCHANGED <<plan, call>>
        /\ holder' = holder \/ (holder = Nobody /\ holder' = e)
    BY <1>3, TypeEdits
  <2>2. \A c \in Calls : holder' = c <=> holder = c
    BY <2>1, Holders
  <2> QED BY <2>1, <2>2 DEF CallsOK, Planned
<1>4. CASE WriteCell
  <2>1. PICK w \in left :
          /\ UNCHANGED <<page, batch, file, plan>>
          /\ \/ /\ work' = IF Known(work, w) THEN work ELSE Applied(work, w)
                /\ left' = left \ {w}
                /\ UNCHANGED <<db, holder, at, call>>
             \/ Rejected
    BY <1>4 DEF WriteCell
  <2>2. ClientsOK' /\ holder # Nobody /\ w \in Writes
    BY <2>1 DEF ClientsOK, TablesOK, Idle
  <2>3. CASE Rejected
    BY <2>1, <2>2, <2>3, RollBackTyped, RejectedCalls DEF Rejected
  <2>4. CASE /\ work' = IF Known(work, w) THEN work ELSE Applied(work, w)
             /\ left' = left \ {w}
             /\ UNCHANGED <<db, holder, at, call>>
    <3>1. work' \in Tables
      BY <2>2, <2>4, AppliedParts DEF TablesOK
    <3> QED BY <2>1, <2>2, <2>4, <3>1 DEF TablesOK, CallsOK, Idle, Planned
  <2> QED BY <2>1, <2>3, <2>4
<1>5. CASE EditCommits
  <2>1. TablesOK' /\ ClientsOK' /\ holder' = Nobody /\ UNCHANGED <<call, plan>>
    BY <1>5, CommitsTyped DEF EditCommits, Commits, ClientsOK
  <2>2. \A c \in Calls : holder # c /\ holder' # c
    BY <1>5, <2>1, Holders DEF EditCommits
  <2> QED BY <2>1, <2>2 DEF CallsOK, Planned
<1>6. CASE EditEndsEarly
  <2>1. TablesOK' /\ ClientsOK' /\ holder' = Nobody /\ UNCHANGED <<call, plan>>
    BY <1>6, RollBackTyped DEF EditEndsEarly, RollBack, ClientsOK
  <2>2. \A c \in Calls : holder # c /\ holder' # c
    BY <1>6, <2>1, Holders DEF EditEndsEarly
  <2> QED BY <2>1, <2>2 DEF CallsOK, Planned
<1>7. ASSUME NEW b \in Batches, BatchStep(b)
      PROVE  TablesOK' /\ ClientsOK' /\ CallsOK'
  <2>1. UNCHANGED <<db, work, holder, left, at, page, call, plan>>
    BY <1>7 DEF BatchStep, Preview, Cancel, FileChanges
  <2>2. ClientsOK'
    <3>1. CASE \E s \in Strategies : Preview(b, s)
      BY <3>1 DEF Preview, ClientsOK
    <3>2. CASE Cancel(b)
      BY <3>2 DEF Cancel, ClientsOK
    <3>3. CASE FileChanges(b)
      BY <3>3 DEF FileChanges, ClientsOK, Versions
    <3> QED BY <1>7, <3>1, <3>2, <3>3 DEF BatchStep
  <2> QED BY <2>1, <2>2 DEF TablesOK, CallsOK, Idle, Planned
<1>8. ASSUME NEW c \in Calls, CommitStep(c)
      PROVE  TablesOK' /\ ClientsOK' /\ CallsOK'
  BY <1>8, TypeCalls
<1> QED BY <1>1, <1>2, <1>3, <1>4, <1>5, <1>6, <1>7, <1>8 DEF Next
-----------------------------------------------------------------------------
(***************************************************************************)
(* Steps outside a transaction.                                            *)
(***************************************************************************)
(* Cells of a batch.                                                       *)
LEMMA StartedCells ==
  ASSUME NEW d, NEW b PROVE Started(d, b) <=> LandedCells(d, b) # {}
<1>1. ASSUME NEW n \in Rows, NEW f \in Fields
      PROVE  Landed(d, b, n, f) <=> <<n, f>> \in LandedCells(d, b)
  BY DEF LandedCells
<1>2. \A p \in LandedCells(d, b) : \E n \in Rows, f \in Fields : p = <<n, f>>
  BY DEF LandedCells
<1>3. ASSUME Started(d, b) PROVE LandedCells(d, b) # {}
  BY <1>1, <1>3 DEF Started
<1>4. ASSUME NEW q \in LandedCells(d, b) PROVE Started(d, b)
  BY <1>1, <1>2 DEF Started
<1> QED BY <1>3, <1>4

LEMMA CellsUnion ==
  ASSUME NEW d, NEW g, NEW b, NEW p, NEW v, Reads(p, b, v), DOMAIN p \subseteq Rows,
         \A n \in Rows, f \in Fields :
           Landed(g, b, n, f) <=>
             (Landed(d, b, n, f) \/ (n \in DOMAIN p /\ p[n].cells[f] # Empty))
  PROVE  LandedCells(g, b) = LandedCells(d, b) \cup CellsIn(b, v)
<1>1. CellsIn(b, v) = {q \in (DOMAIN p) \X Fields : p[q[1]].cells[q[2]] # Empty}
  BY DEF CellsIn, Reads
<1>2. \A q \in Rows \X Fields : q[1] \in Rows /\ q[2] \in Fields
  OBVIOUS
<1>3. \A q \in (DOMAIN p) \X Fields : q \in Rows \X Fields /\ q[1] \in DOMAIN p
  OBVIOUS
<1>4. \A q \in Rows \X Fields : q[1] \in DOMAIN p => q \in (DOMAIN p) \X Fields
  OBVIOUS
<1> QED BY <1>1, <1>2, <1>3, <1>4 DEF LandedCells

(* A plan stays right while the tables grow.                               *)
LEMMA GrownPlan ==
  ASSUME NEW d \in Tables, NEW g \in Tables, Grown(d, g), NEW p \in Plans, NEW b, NEW bt,
         PlanOK(p, b, d, bt)
  PROVE  PlanOK(p, b, g, bt)
<1>1. ASSUME NEW n \in DOMAIN p PROVE RowOK(p[n], b, n, g, bt)
  <2>1. p[n] \in RowPlans /\ RowOK(p[n], b, n, d, bt)
    BY PlanRows DEF PlanOK
  <2> QED BY <2>1, GrownRow
<1> QED BY <1>1 DEF PlanOK

(* Nothing of a batch without a preview is written.                        *)
LEMMA NotBegun ==
  ASSUME PreviewFirst, Grown(db, work), NEW b \in Batches, batch[b].state = "None"
  PROVE  \A n \in Rows, f \in Fields : ~Landed(work, b, n, f) /\ ~Landed(db, b, n, f)
BY DEF PreviewFirst, Grown

(* Where a batch has written nothing, its strategy does not matter.        *)
LEMMA AtHomeKept ==
  ASSUME NEW d \in Tables, NEW bt, NEW bt2, AtHome(d, bt),
         \A b \in Batches : \/ bt2[b].strategy = bt[b].strategy
                            \/ \A n \in Rows, f \in Fields : ~Landed(d, b, n, f)
  PROVE  AtHome(d, bt2)
<1> SUFFICES ASSUME NEW b \in Batches, NEW n \in Rows, NEW r \in Ids,
                    NEW i \in 1 .. Len(d.log[r]),
                    d.log[r][i].cmd = <<b, n>>, bt2[b].strategy = "Append"
             PROVE  r = <<b, n>>
  BY DEF AtHome
<1>1. CASE bt2[b].strategy = bt[b].strategy
  BY <1>1 DEF AtHome
<1>2. CASE \A f \in Fields : ~Landed(d, b, n, f)
  <2>1. d.log[r] \in Seq(Changes)
    BY DEF Tables
  <2>2. i \in DOMAIN d.log[r] /\ d.log[r][i] \in Changes
    BY <2>1
  <2>3. d.log[r][i].field \in Fields
    BY <2>2 DEF Changes
  <2> QED BY <1>2, <2>2, <2>3 DEF Landed
<1> QED BY <1>1, <1>2

(* A step that leaves the tables and the lock alone.                       *)
LEMMA QuietStep ==
  ASSUME RInv, RecordsTypeOK', UNCHANGED <<db, work, holder, left, at>>,
         \A e \in Editors : PageIn(page'[e], db),
         \A b \in Batches :
           /\ \/ batch'[b].strategy = batch[b].strategy
              \/ batch[b].state = "None"
           /\ batch'[b].state = "None" => batch[b].state = "None"
           /\ batch'[b].state = "Committed" => Started(db, b),
         \A c \in Calls :
           /\ call'[c].phase # "idle" => batch[call'[c].batch].state # "None"
           /\ holder = c => call'[c].batch = call[c].batch /\ plan'[c] = plan[c]
           /\ call'[c].phase = "mark" => Started(db, call'[c].batch)
           /\ call'[c].phase \in {"apply", "rows"} => PlanOK(plan'[c], call'[c].batch, db, batch)
  PROVE  RInv'
<1>1. /\ RecordsTypeOK /\ Sound(db) /\ Sound(work) /\ AtHome(db, batch) /\ AtHome(work, batch)
      /\ Grown(db, work) /\ (\A w \in left : Informed(w, work)) /\ Apart(left)
      /\ EditWrites /\ ImportWrites /\ OthersUntouched /\ PreviewFirst
      /\ ImportIsWhole
  BY DEF RInv
<1>2. TablesOK /\ CallsOK /\ CallsOK'
  BY <1>1, TypeParts, PTL
<1>3. /\ Sound(db)' /\ Sound(work)' /\ Grown(db, work)'
      /\ (\A e \in Editors : PageIn(page[e], db))'
      /\ (\A w \in left : Informed(w, work))' /\ Apart(left)'
  BY <1>1
<1>4. AtHome(db, batch)' /\ AtHome(work, batch)'
  <2>1. \A b \in Batches :
          \/ batch'[b].strategy = batch[b].strategy
          \/ \A n \in Rows, f \in Fields : ~Landed(work, b, n, f) /\ ~Landed(db, b, n, f)
    BY <1>1, NotBegun
  <2>2. AtHome(db, batch')
    BY <1>1, <1>2, <2>1, AtHomeKept DEF TablesOK
  <2>3. AtHome(work, batch')
    BY <1>1, <1>2, <2>1, AtHomeKept DEF TablesOK
  <2> QED BY <2>2, <2>3
<1>5. PlansOK'
  <2> SUFFICES ASSUME NEW c \in Calls, Planned(c)'
               PROVE  PlanOK(plan'[c], call'[c].batch, db, batch')
    BY DEF PlansOK
  <2>1. call'[c].phase \in {"apply", "rows"}
    BY DEF Planned
  <2>2. /\ PlanOK(plan'[c], call'[c].batch, db, batch)
        /\ call'[c].batch \in Batches /\ batch[call'[c].batch].state # "None"
    BY <1>2, <2>1 DEF CallsOK
  <2>3. batch'[call'[c].batch].strategy = batch[call'[c].batch].strategy
    BY <2>2
  <2> QED BY <2>2, <2>3 DEF PlanOK, RowOK
<1>6. EditWrites'
  BY <1>1 DEF EditWrites
<1>7. ImportWrites'
  <2> SUFFICES ASSUME NEW c \in Calls, holder = c
               PROVE  Writing(plan'[c], call'[c].batch, at, left, work, batch')
    BY DEF ImportWrites
  <2>1. call'[c].phase = "rows" /\ call'[c].batch \in Batches
    BY <1>2 DEF CallsOK
  <2>2. /\ call'[c].batch = call[c].batch /\ plan'[c] = plan[c]
        /\ batch'[call'[c].batch].strategy = batch[call[c].batch].strategy
    BY <2>1
  <2> QED BY <1>1, <2>2 DEF ImportWrites, Writing
<1>8. OthersUntouched'
  BY <1>1 DEF OthersUntouched, InPlan
<1>9. PreviewFirst'
  BY <1>1 DEF PreviewFirst
<1>10. MarksWritten'
  BY DEF MarksWritten
<1>11. ImportIsWhole'
  BY <1>1, StartedCells DEF ImportIsWhole
<1> QED BY <1>3, <1>4, <1>5, <1>6, <1>7, <1>8, <1>9, <1>10, <1>11 DEF RInv

(***************************************************************************)
(* The transactions.                                                       *)
(***************************************************************************)
LEMMA BeginStep ==
  ASSUME RInv, RecordsTypeOK', NEW h \in Editors \cup Calls, NEW S \in SUBSET Writes,
         Begin(h, S), UNCHANGED <<page, batch, file, plan>>,
         \A c \in Calls : /\ call'[c].batch = call[c].batch
                          /\ call'[c].phase # call[c].phase =>
                               call[c].phase = "apply" /\ call'[c].phase = "rows",
         \A w \in S : Informed(w, db),
         Apart(S),
         h \in Editors => \A w \in S : w.cmd \in Commands,
         h \in Calls => S = {}
  PROVE  RInv'
<1>1. /\ RecordsTypeOK /\ Sound(db) /\ Sound(work) /\ AtHome(db, batch) /\ AtHome(work, batch)
      /\ Grown(db, work) /\ PlansOK /\ PreviewFirst /\ MarksWritten /\ ImportIsWhole
      /\ (\A e \in Editors : PageIn(page[e], db))
  BY DEF RInv
<1>2. TablesOK /\ CallsOK
  BY <1>1, TypeParts
<1>3. /\ holder = Nobody /\ work = db /\ holder' = h /\ left' = S /\ at' = 1
      /\ UNCHANGED <<db, work>>
  BY <1>2 DEF Begin, TablesOK, Idle
<1>4. /\ Sound(db)' /\ Sound(work)' /\ Grown(db, work)'
      /\ (\A e \in Editors : PageIn(page[e], db))'
      /\ AtHome(db, batch)' /\ AtHome(work, batch)'
      /\ (\A w \in left : Informed(w, work))' /\ Apart(left)'
  BY <1>1, <1>3
<1>5. PlansOK'
  BY <1>1, <1>3 DEF PlansOK, Planned
<1>6. EditWrites'
  BY <1>3 DEF EditWrites
<1>7. ImportWrites'
  <2> SUFFICES ASSUME NEW c \in Calls, holder' = c
               PROVE  Writing(plan[c], call'[c].batch, 1, {}, work, batch)
    BY <1>3, Holders DEF ImportWrites
  <2>1. CallsOK'
    BY TypeParts, PTL
  <2>2. plan'[c] \in Plans /\ plan' = plan
    BY <2>1 DEF CallsOK, Planned
  <2> QED BY <2>2, PlanRows DEF Writing
<1>8. OthersUntouched'
  BY <1>3 DEF OthersUntouched
<1>9. PreviewFirst'
  BY <1>1, <1>3 DEF PreviewFirst
<1>10. MarksWritten'
  BY <1>1, <1>3 DEF MarksWritten
<1>11. ImportIsWhole'
  BY <1>1, <1>3 DEF ImportIsWhole
<1> QED BY <1>4, <1>5, <1>6, <1>7, <1>8, <1>9, <1>10, <1>11 DEF RInv

(* A rollback, or the end of the process.  Calls only end or fail.         *)
LEMMA RollBackStep ==
  ASSUME RInv, RecordsTypeOK', RollBack, UNCHANGED <<page, batch, file>>,
         \A c \in Calls : /\ call'[c].batch = call[c].batch
                          /\ \/ call'[c].phase = call[c].phase /\ plan'[c] = plan[c]
                             \/ call[c].phase # "idle" /\ call'[c].phase \in {"idle", "fails"}
  PROVE  RInv'
<1>1. /\ RecordsTypeOK /\ Sound(db) /\ AtHome(db, batch)
      /\ Grown(db, work) /\ PlansOK /\ PreviewFirst /\ MarksWritten /\ ImportIsWhole
      /\ (\A e \in Editors : PageIn(page[e], db))
  BY DEF RInv
<1>2. TablesOK /\ CallsOK
  BY <1>1, TypeParts
<1>3. work' = db /\ holder' = Nobody /\ left' = {} /\ UNCHANGED db
  BY DEF RollBack
<1>4. /\ Sound(db)' /\ Sound(work)'
      /\ (\A e \in Editors : PageIn(page[e], db))'
      /\ AtHome(db, batch)' /\ AtHome(work, batch)'
      /\ (\A w \in left : Informed(w, work))' /\ Apart(left)'
  BY <1>1, <1>3 DEF Apart
<1>5. Grown(db, work)'
  BY <1>2, <1>3, GrownItself DEF TablesOK
<1>6. PlansOK'
  BY <1>1, <1>3 DEF PlansOK, Planned
<1>7. EditWrites' /\ ImportWrites' /\ OthersUntouched'
  BY <1>3, Holders DEF EditWrites, ImportWrites, OthersUntouched
<1>8. PreviewFirst'
  <2>1. \A b \in Batches : batch[b].state = "None" =>
          \A n \in Rows, f \in Fields : ~Landed(db, b, n, f)
    BY <1>1, NotBegun
  <2> QED BY <1>1, <1>3, <2>1 DEF PreviewFirst
<1>9. MarksWritten'
  BY <1>1, <1>3 DEF MarksWritten
<1>10. ImportIsWhole'
  BY <1>1, <1>3 DEF ImportIsWhole
<1> QED BY <1>4, <1>5, <1>6, <1>7, <1>8, <1>9, <1>10 DEF RInv

(* The committed tables grow to those of the transaction.                  *)
LEMMA CommitStepKeeps ==
  ASSUME RInv, RecordsTypeOK', Commits, UNCHANGED <<page, batch, file, plan>>,
         \A c \in Calls : /\ call'[c].batch = call[c].batch
                          /\ \/ call'[c].phase = call[c].phase /\ holder # c
                             \/ call'[c].phase = "mark" /\ holder = c /\ at = Len(plan[c]) + 1
  PROVE  RInv'
<1>1. /\ RecordsTypeOK /\ Sound(work) /\ AtHome(work, batch)
      /\ Grown(db, work) /\ PlansOK /\ PreviewFirst /\ MarksWritten /\ ImportIsWhole
      /\ ImportWrites /\ OthersUntouched
      /\ (\A e \in Editors : PageIn(page[e], db))
  BY DEF RInv
<1>2. TablesOK /\ ClientsOK /\ CallsOK
  BY <1>1, TypeParts
<1>3. left = {} /\ db' = work /\ work' = work /\ holder' = Nobody /\ left' = left
  BY DEF Commits
<1>4. /\ Sound(db)' /\ Sound(work)'
      /\ AtHome(db, batch)' /\ AtHome(work, batch)'
      /\ (\A w \in left : Informed(w, work))' /\ Apart(left)'
  BY <1>1, <1>3 DEF Apart
<1>5. Grown(db, work)'
  BY <1>2, <1>3, GrownItself DEF TablesOK
<1>6. (\A e \in Editors : PageIn(page[e], db))'
  BY <1>1, <1>2, <1>3, GrownPage DEF TablesOK, ClientsOK
<1>7. PlansOK'
  <2> SUFFICES ASSUME NEW c \in Calls, Planned(c)'
               PROVE  PlanOK(plan[c], call[c].batch, work, batch)
    BY <1>3 DEF PlansOK
  <2>1. Planned(c)
    BY DEF Planned
  <2>2. plan[c] \in Plans /\ PlanOK(plan[c], call[c].batch, db, batch)
    BY <1>1, <1>2, <2>1 DEF PlansOK, CallsOK
  <2> QED BY <1>1, <1>2, <2>2, GrownPlan DEF TablesOK
<1>8. EditWrites' /\ ImportWrites' /\ OthersUntouched'
  BY <1>3, Holders DEF EditWrites, ImportWrites, OthersUntouched
<1>9. PreviewFirst'
  <2>1. \A c \in Calls : call'[c].phase # "idle" => call[c].phase # "idle"
    BY <1>2 DEF CallsOK
  <2> QED BY <1>1, <1>3, <2>1 DEF PreviewFirst
<1>10. ASSUME NEW c \in Calls, holder = c, at = Len(plan[c]) + 1
       PROVE  /\ Started(work, call[c].batch)
              /\ \E v \in Versions :
                   LandedCells(work, call[c].batch) =
                     LandedCells(db, call[c].batch) \cup CellsIn(call[c].batch, v)
  <2> DEFINE b == call[c].batch
  <2>1. /\ Planned(c) /\ b \in Batches /\ plan[c] \in Plans
        /\ \A k \in Calls : holder = k => k = c
    BY <1>2, <1>10 DEF CallsOK, Planned
  <2>2. PlanOK(plan[c], b, db, batch)
    BY <1>1, <2>1 DEF PlansOK
  <2>3. PICK v \in Versions : Reads(plan[c], b, v)
    BY <2>2 DEF PlanOK
  <2>4. /\ DOMAIN plan[c] = 1 .. Len(plan[c]) /\ DOMAIN plan[c] \subseteq Rows
        /\ 1 \in DOMAIN plan[c] /\ (Len(plan[c]) + 1) - 1 = Len(plan[c])
    BY <2>1, PlanRows
  <2>5. ASSUME NEW n \in DOMAIN plan[c], NEW f \in Fields, plan[c][n].cells[f] # Empty
        PROVE  Landed(work, b, n, f)
    <3>1. n \in 1 .. at - 1
      BY <1>10, <2>4
    <3> QED BY <1>1, <1>3, <1>10, <2>5, <3>1 DEF ImportWrites, Writing
  <2>6. ASSUME NEW n \in Rows, NEW f \in Fields
        PROVE  Landed(work, b, n, f) <=>
                 \/ Landed(db, b, n, f)
                 \/ n \in DOMAIN plan[c] /\ plan[c][n].cells[f] # Empty
    <3>1. Landed(work, b, n, f) => Landed(db, b, n, f) \/ InPlan(b, n, f)
      BY <1>1, <2>1 DEF OthersUntouched
    <3>2. InPlan(b, n, f) => n \in DOMAIN plan[c] /\ plan[c][n].cells[f] # Empty
      BY <2>1 DEF InPlan
    <3>3. Landed(db, b, n, f) => Landed(work, b, n, f)
      BY <1>1, <2>1 DEF Grown
    <3> QED BY <2>5, <3>1, <3>2, <3>3
  <2>7. LandedCells(work, b) = LandedCells(db, b) \cup CellsIn(b, v)
    BY <2>3, <2>4, <2>6, CellsUnion
  <2>8. Started(work, b)
    <3>1. PICK f \in Fields : plan[c][1].cells[f] # Empty
      BY <2>2, <2>4 DEF PlanOK, RowOK
    <3> QED BY <2>4, <2>5, <3>1 DEF Started
  <2> QED BY <2>7, <2>8
<1>11. ASSUME NEW b \in Batches, Started(db, b) PROVE Started(work, b)
  BY <1>1, <1>11 DEF Grown, Started
<1>12. MarksWritten'
  <2> SUFFICES ASSUME NEW c \in Calls, call'[c].phase = "mark"
               PROVE  Started(work, call[c].batch)
    BY <1>3 DEF MarksWritten
  <2>1. CASE call[c].phase = "mark"
    <3>1. Started(db, call[c].batch) /\ call[c].batch \in Batches
      BY <1>1, <1>2, <2>1 DEF MarksWritten, CallsOK
    <3> QED BY <1>11, <3>1
  <2>2. CASE holder = c /\ at = Len(plan[c]) + 1
    BY <1>10, <2>2
  <2> QED BY <2>1, <2>2
<1>13. ImportIsWhole'
  <2> SUFFICES ASSUME NEW b \in Batches
               PROVE  /\ \E S \in SUBSET Versions :
                           LandedCells(work, b) = UNION {CellsIn(b, v) : v \in S}
                      /\ batch[b].state = "Committed" => LandedCells(work, b) # {}
    BY <1>3 DEF ImportIsWhole
  <2>1. PICK S \in SUBSET Versions : LandedCells(db, b) = UNION {CellsIn(b, v) : v \in S}
    BY <1>1 DEF ImportIsWhole
  <2>2. batch[b].state = "Committed" => LandedCells(work, b) # {}
    <3>1. batch[b].state = "Committed" => Started(db, b)
      BY <1>1, StartedCells DEF ImportIsWhole
    <3> QED BY <1>11, <3>1, StartedCells
  <2>3. CASE \E c \in Calls : holder = c /\ call[c].batch = b
    <3>1. PICK v \in Versions : LandedCells(work, b) = LandedCells(db, b) \cup CellsIn(b, v)
      <4>1. PICK c \in Calls : holder = c /\ call[c].batch = b
        BY <2>3
      <4>2. at = Len(plan[c]) + 1
        BY <4>1
      <4> QED BY <1>10, <4>1, <4>2
    <3>2. LandedCells(work, b) = UNION {CellsIn(b, u) : u \in S \cup {v}}
      BY <2>1, <3>1
    <3>3. S \cup {v} \in SUBSET Versions
      OBVIOUS
    <3> QED BY <2>2, <3>2, <3>3
  <2>4. CASE \A c \in Calls : holder = c => call[c].batch # b
    <3>1. \A n \in Rows, f \in Fields : Landed(work, b, n, f) <=> Landed(db, b, n, f)
      BY <1>1, <2>4 DEF OthersUntouched, InPlan, Grown
    <3>2. LandedCells(work, b) = LandedCells(db, b)
      BY <3>1 DEF LandedCells
    <3> QED BY <2>1, <2>2, <3>2
  <2> QED BY <2>3, <2>4
<1> QED BY <1>4, <1>5, <1>6, <1>7, <1>8, <1>9, <1>12, <1>13 DEF RInv

(* A cell write of the holder goes through.                                *)
LEMMA WriteStep ==
  ASSUME RInv, RecordsTypeOK', NEW w \in left, Known(work, w) \/ Current(w),
         work' = IF Known(work, w) THEN work ELSE Applied(work, w),
         left' = left \ {w},
         UNCHANGED <<db, holder, at, call, page, batch, file, plan>>
  PROVE  RInv'
<1>1. /\ RecordsTypeOK /\ Sound(db) /\ Sound(work) /\ AtHome(db, batch) /\ AtHome(work, batch)
      /\ Grown(db, work) /\ (\A v \in left : Informed(v, work)) /\ Apart(left)
      /\ PlansOK /\ EditWrites /\ ImportWrites /\ OthersUntouched /\ PreviewFirst
      /\ MarksWritten /\ ImportIsWhole /\ (\A e \in Editors : PageIn(page[e], db))
  BY DEF RInv
<1>2. TablesOK /\ CallsOK
  BY <1>1, TypeParts
<1>3. /\ db \in Tables /\ work \in Tables /\ w \in Writes /\ left \subseteq Writes
      /\ holder \in Editors \cup Calls
  BY <1>2 DEF TablesOK, Idle
<1>4. ASSUME NEW b \in Batches, NEW n \in Rows, NEW f \in Fields
      PROVE  Landed(work', b, n, f) <=>
               (Landed(work, b, n, f) \/ (w.cmd = <<b, n>> /\ w.field = f))
  <2>1. CASE Known(work, w)
    <3>1. w.cmd = <<b, n>> /\ w.field = f => Landed(work, b, n, f)
      BY <1>3, <2>1 DEF Known, Landed, Writes
    <3> QED BY <2>1, <3>1
  <2>2. CASE ~Known(work, w)
    BY <1>3, <2>2, AppliedLanded
  <2> QED BY <2>1, <2>2
<1>5. ASSUME NEW b \in Batches, NEW n \in Rows, w.cmd = <<b, n>>
      PROVE  /\ holder \in Calls /\ call[holder].batch = b /\ n = at - 1 /\ at > 1
             /\ n \in DOMAIN plan[holder] /\ plan[holder][n].cells[w.field] # Empty
             /\ batch[b].strategy = "Append" => w.rec = <<b, n>>
  <2>1. holder \notin Editors
    <3>1. w.cmd \in Batches \X Rows
      BY <1>5
    <3>2. w.cmd \notin Commands
      BY <3>1, IdsAssumption
    <3> QED BY <1>1, <3>2 DEF EditWrites
  <2>2. holder \in Calls
    BY <1>3, <2>1
  <2>3. /\ at > 1 /\ w.cmd = <<call[holder].batch, at - 1>> /\ at <= Len(plan[holder]) + 1
        /\ plan[holder][at - 1].cells[w.field] # Empty
        /\ batch[call[holder].batch].strategy = "Append" => w.rec = w.cmd
    BY <1>1, <2>2 DEF ImportWrites, Writing
  <2>4. n = at - 1 /\ plan[holder] \in Plans /\ at \in Nat
    BY <1>2, <1>5, <2>2, <2>3, DataAssumption DEF CallsOK, TablesOK, Planned
  <2>5. n \in DOMAIN plan[holder]
    BY <2>3, <2>4, PlanRows
  <2> QED BY <1>5, <2>2, <2>3, <2>4, <2>5
<1>6. Sound(work')
  BY <1>1, <1>3, AppliedSound DEF Current
<1>7. AtHome(work', batch)
  BY <1>1, <1>3, <1>5, AppliedAtHome
<1>8. Grown(db, work')
  BY <1>1, <1>3, AppliedGrown
<1>9. ASSUME NEW v \in left' PROVE Informed(v, work')
  <2>1. v \in left /\ v # w /\ v \in Writes /\ Informed(v, work)
    BY <1>1, <1>3
  <2>2. (v.expected = 0 /\ v.rec = w.rec) => v.field # w.field
    BY <1>1, <2>1 DEF Apart
  <2> QED BY <1>3, <2>1, <2>2, AppliedInformed
<1>10. Apart(left')
  BY <1>1 DEF Apart
<1>11. PlansOK' /\ EditWrites' /\ MarksWritten' /\ ImportIsWhole'
  BY <1>1 DEF PlansOK, Planned, EditWrites, MarksWritten, ImportIsWhole
<1>12. ImportWrites'
  <2> SUFFICES ASSUME NEW c \in Calls, holder = c
               PROVE  Writing(plan[c], call[c].batch, at, left', work', batch)
    BY DEF ImportWrites
  <2>1. /\ call[c].batch \in Batches /\ plan[c] \in Plans /\ at \in Nat
        /\ Writing(plan[c], call[c].batch, at, left, work, batch)
    BY <1>1, <1>2, DataAssumption DEF CallsOK, TablesOK, Planned, ImportWrites
  <2>2. ASSUME NEW n \in 1 .. at - 1, NEW f \in Fields, plan[c][n].cells[f] # Empty
        PROVE  \/ Landed(work', call[c].batch, n, f)
               \/ n = at - 1 /\ \E v \in left' : v.field = f
    <3>1. n \in Rows
      BY <2>1, PlanRows DEF Writing, Rows
    <3>2. CASE Landed(work, call[c].batch, n, f)
      BY <1>4, <2>1, <3>1, <3>2
    <3>3. CASE n = at - 1 /\ \E v \in left : v.field = f
      <4>1. PICK v \in left : v.field = f
        BY <3>3
      <4>2. CASE v = w
        <5>1. w.cmd = <<call[c].batch, n>>
          BY <2>1, <3>3 DEF Writing
        <5> QED BY <1>4, <2>1, <3>1, <4>1, <4>2, <5>1
      <4>3. CASE v # w
        BY <3>3, <4>1, <4>3
      <4> QED BY <4>2, <4>3
    <3> QED BY <2>1, <2>2, <3>2, <3>3 DEF Writing
  <2> QED BY <2>1, <2>2 DEF Writing
<1>13. OthersUntouched'
  <2> SUFFICES ASSUME NEW b \in Batches, NEW n \in Rows, NEW f \in Fields,
                      Landed(work', b, n, f)
               PROVE  Landed(db, b, n, f) \/ InPlan(b, n, f)
    BY DEF OthersUntouched, InPlan
  <2>1. CASE Landed(work, b, n, f)
    BY <1>1, <2>1 DEF OthersUntouched
  <2>2. CASE w.cmd = <<b, n>> /\ w.field = f
    BY <1>5, <2>2 DEF InPlan
  <2> QED BY <1>4, <2>1, <2>2
<1>14. PreviewFirst'
  <2>1. ASSUME NEW b \in Batches, batch[b].state = "None", NEW n \in Rows, NEW f \in Fields
        PROVE  ~Landed(work', b, n, f)
    <3>1. ~Landed(work, b, n, f)
      BY <1>1, <2>1 DEF PreviewFirst
    <3>2. CASE w.cmd = <<b, n>>
      <4>1. holder \in Calls /\ call[holder].batch = b
        BY <1>5, <3>2
      <4>2. call[holder].phase # "idle"
        BY <1>2, <4>1 DEF CallsOK
      <4> QED BY <1>1, <2>1, <4>1, <4>2 DEF PreviewFirst
    <3> QED BY <1>4, <3>1, <3>2
  <2> QED BY <1>1, <2>1 DEF PreviewFirst
<1> QED BY <1>1, <1>6, <1>7, <1>8, <1>9, <1>10, <1>11, <1>12, <1>13, <1>14 DEF RInv

(* The next row of an import is let in: its record is there, and is the    *)
(* one its plan was made from.                                             *)
LEMMA OpenStep ==
  ASSUME RInv, RecordsTypeOK', NEW c \in Calls, holder = c, left = {}, at <= Len(plan[c]),
         plan[c][at].create \/ work.rev[plan[c][at].rec] = plan[c][at].expected,
         work' = IF plan[c][at].create /\ work.rev[plan[c][at].rec] = 0
                   THEN Created(work, plan[c][at].rec) ELSE work,
         left' = CellsOf(c, at), at' = at + 1,
         UNCHANGED <<db, holder, call, page, batch, file, plan>>
  PROVE  RInv'
<1> DEFINE row == plan[c][at]
           b == call[c].batch
<1>1. /\ RecordsTypeOK /\ Sound(db) /\ Sound(work) /\ AtHome(db, batch) /\ AtHome(work, batch)
      /\ Grown(db, work)
      /\ PlansOK /\ EditWrites /\ ImportWrites /\ OthersUntouched /\ PreviewFirst
      /\ MarksWritten /\ ImportIsWhole /\ (\A e \in Editors : PageIn(page[e], db))
  BY DEF RInv
<1>2. TablesOK /\ CallsOK
  BY <1>1, TypeParts
<1>0. plan[c] \in Plans /\ Planned(c) /\ at \in Nat /\ at > 0
  BY <1>2, DataAssumption DEF TablesOK, CallsOK, Planned
<1>3. /\ db \in Tables /\ work \in Tables /\ b \in Batches
      /\ at \in Rows /\ at \in DOMAIN plan[c] /\ holder \notin Editors
  BY <1>0, <1>2, PlanRows, Holders DEF TablesOK, CallsOK
<1>4. /\ row \in RowPlans /\ row.rec \in Ids /\ row.expected \in Nat
      /\ RowOK(row, b, at, db, batch)
  BY <1>0, <1>1, <1>3, PlanRows DEF PlansOK, PlanOK, RowPlans
<1>5. RowOK(row, b, at, work, batch)
  BY <1>1, <1>3, <1>4, GrownRow
<1>6. /\ Sound(work') /\ AtHome(work', batch) /\ Grown(db, work')
      /\ \A a, n, f : Landed(work', a, n, f) <=> Landed(work, a, n, f)
  BY <1>1, <1>3, <1>4, CreatedKeeps
<1>7. work.rev[row.rec] \in Nat
  BY <1>3, <1>4 DEF Tables
<1>8. /\ work'.rev[row.rec] > 0
      /\ row.create \/ work'.cell[row.rec] = row.saw
  <2>1. CASE row.create /\ work.rev[row.rec] = 0
    <3>1. work' = Created(work, row.rec)
      BY <2>1
    <3> QED BY <1>3, <1>4, <2>1, <3>1, CreatedParts
  <2>2. CASE row.create /\ work.rev[row.rec] # 0
    BY <1>7, <2>2
  <2>3. CASE ~row.create
    <3>1. work.rev[row.rec] = row.expected /\ work' = work
      BY <2>3
    <3> QED BY <1>5, <2>3, <3>1 DEF RowOK, AsOf
  <2> QED BY <2>1, <2>2, <2>3
<1>9. ASSUME NEW f \in Fields
      PROVE  LET w == ImportWrite(c, at, f)
             IN /\ w.rec = row.rec /\ w.field = f /\ w.expected = 0
                /\ w.cmd = <<b, at>> /\ w.saw = row.saw[f]
  BY DEF ImportWrite
<1> HIDE DEF row, b
<1>10. ASSUME NEW w \in left' PROVE Informed(w, work')
  <2>1. PICK f \in Fields : w = ImportWrite(c, at, f)
    BY DEF CellsOf
  <2>2. w.saw \in {Unseen, work'.cell[row.rec][f]}
    BY <1>5, <1>8, <1>9, <2>1 DEF RowOK
  <2> QED BY <1>8, <1>9, <2>1, <2>2 DEF Informed
<1>11. Apart(left')
  <2>1. ASSUME NEW v \in left', NEW w \in left', v.field = w.field PROVE v = w
    <3>1. PICK f \in Fields : v = ImportWrite(c, at, f)
      BY DEF CellsOf
    <3>2. PICK g \in Fields : w = ImportWrite(c, at, g)
      BY DEF CellsOf
    <3> QED BY <1>9, <2>1, <3>1, <3>2
  <2> QED BY <2>1 DEF Apart
<1>12. PlansOK' /\ EditWrites' /\ MarksWritten' /\ ImportIsWhole'
  BY <1>1, <1>3 DEF PlansOK, Planned, EditWrites, MarksWritten, ImportIsWhole
<1>13. ImportWrites'
  <2>1. at \in Nat /\ at' - 1 = at /\ at' > 1 /\ at' <= Len(plan[c]) + 1
    BY <1>0, PlanRows
  <2>2. ASSUME NEW w \in left'
        PROVE  /\ w.cmd = <<b, at>> /\ plan[c][at].cells[w.field] # Empty
               /\ batch[b].strategy = "Append" => w.rec = w.cmd
    <3>1. PICK f \in Fields : w = ImportWrite(c, at, f) /\ plan[c][at].cells[f] # Empty
      BY DEF CellsOf
    <3> QED BY <1>5, <1>9, <3>1 DEF RowOK
  <2>3. ASSUME NEW f \in Fields, plan[c][at].cells[f] # Empty
        PROVE  \E w \in left' : w.field = f
    <3>1. ImportWrite(c, at, f) \in left'
      BY <2>3 DEF CellsOf
    <3> QED BY <1>9, <3>1
  <2>4. ASSUME NEW n \in 1 .. at, NEW f \in Fields, plan[c][n].cells[f] # Empty
        PROVE  Landed(work', b, n, f) \/ (n = at /\ \E w \in left' : w.field = f)
    <3>1. CASE n \in 1 .. at - 1
      BY <1>1, <1>6, <2>4, <3>1 DEF ImportWrites, Writing, b
    <3>2. CASE n = at
      BY <2>3, <2>4, <3>2
    <3> QED BY <2>1, <3>1, <3>2
  <2>5. Writing(plan[c], b, at', left', work', batch)
    BY <2>1, <2>2, <2>4 DEF Writing
  <2>6. ASSUME NEW k \in Calls, holder' = k
        PROVE  Writing(plan'[k], call'[k].batch, at', left', work', batch')
    <3>1. k = c /\ call'[k].batch = b /\ batch' = batch /\ plan' = plan
      BY <2>6 DEF b
    <3> QED BY <2>5, <3>1
  <2> QED BY <2>6 DEF ImportWrites
<1>14. OthersUntouched'
  BY <1>1, <1>6 DEF OthersUntouched, InPlan
<1>15. PreviewFirst'
  BY <1>1, <1>6 DEF PreviewFirst
<1> QED BY <1>1, <1>6, <1>10, <1>11, <1>12, <1>13, <1>14, <1>15 DEF RInv

(* A new record of the user.                                               *)
LEMMA CreateStep ==
  ASSUME RInv, RecordsTypeOK', NEW r \in Plain, CreateCustomRecord(r)
  PROVE  RInv'
<1>1. /\ RecordsTypeOK /\ Sound(db) /\ AtHome(db, batch)
      /\ PlansOK /\ OthersUntouched /\ PreviewFirst
      /\ MarksWritten /\ ImportIsWhole /\ (\A e \in Editors : PageIn(page[e], db))
  BY DEF RInv
<1>2. TablesOK /\ ClientsOK /\ CallsOK
  BY <1>1, TypeParts
<1>3. /\ db \in Tables /\ work = db /\ r \in Ids /\ db.rev[r] = 0 /\ left = {}
      /\ holder = Nobody /\ db' = Created(db, r) /\ work' = Created(db, r)
      /\ UNCHANGED <<holder, left, at, page, batch, file, call, plan>>
  BY <1>2 DEF CreateCustomRecord, TablesOK, Ids, Idle
<1>4. /\ Sound(db') /\ AtHome(db', batch) /\ db' \in Tables
      /\ \A b, n, f : Landed(db', b, n, f) <=> Landed(db, b, n, f)
      /\ Grown(db, db')
  BY <1>1, <1>3, CreatedKeeps, CreatedParts, GrownItself
<1>5. Grown(db', work')
  BY <1>3, <1>4, GrownItself
<1>6. \A e \in Editors : PageIn(page[e], db')
  BY <1>2, <1>3, <1>1, <1>4, GrownPage DEF ClientsOK
<1>7. PlansOK'
  <2> SUFFICES ASSUME NEW c \in Calls, Planned(c)
               PROVE  PlanOK(plan[c], call[c].batch, db', batch)
    BY <1>3 DEF PlansOK, Planned
  <2>1. plan[c] \in Plans /\ PlanOK(plan[c], call[c].batch, db, batch)
    BY <1>1, <1>2 DEF PlansOK, CallsOK
  <2> QED BY <1>3, <1>4, <2>1, GrownPlan
<1>8. EditWrites' /\ ImportWrites' /\ Apart(left')
      /\ (\A w \in left' : Informed(w, work'))
  BY <1>3, Holders DEF EditWrites, ImportWrites, Apart
<1>9. OthersUntouched' /\ PreviewFirst' /\ MarksWritten'
  BY <1>1, <1>3, <1>4 DEF OthersUntouched, PreviewFirst, MarksWritten, Started
<1>10. ImportIsWhole'
  <2>1. \A b \in Batches : LandedCells(db', b) = LandedCells(db, b)
    BY <1>4 DEF LandedCells
  <2> QED BY <1>1, <1>3, <2>1 DEF ImportIsWhole
<1> QED BY <1>3, <1>4, <1>5, <1>6, <1>7, <1>8, <1>9, <1>10 DEF RInv

-----------------------------------------------------------------------------
(***************************************************************************)
(* Every step.                                                             *)
(***************************************************************************)
(* The conditions of QuietStep hold of what did not change.                *)
LEMMA Unchanged ==
  ASSUME RInv
  PROVE  /\ \A e \in Editors : PageIn(page[e], db)
         /\ \A b \in Batches : batch[b].state = "Committed" => Started(db, b)
         /\ \A c \in Calls :
              /\ call[c].phase # "idle" =>
                   call[c].batch \in Batches /\ batch[call[c].batch].state # "None"
              /\ call[c].phase = "mark" => Started(db, call[c].batch)
              /\ call[c].phase \in {"apply", "rows"} => PlanOK(plan[c], call[c].batch, db, batch)
<1>1. /\ CallsOK /\ PreviewFirst /\ MarksWritten /\ PlansOK /\ ImportIsWhole
      /\ \A e \in Editors : PageIn(page[e], db)
  BY TypeParts DEF RInv
<1>2. \A c \in Calls : call[c].phase # "idle" =>
                   call[c].batch \in Batches /\ batch[call[c].batch].state # "None"
  BY <1>1 DEF CallsOK, PreviewFirst
<1> QED BY <1>1, <1>2, StartedCells DEF MarksWritten, PlansOK, Planned, ImportIsWhole

LEMMA RInvQuiet ==
  ASSUME RInv, RecordsTypeOK', UNCHANGED <<db, work, holder, left, at, batch, call, plan>>,
         \A e \in Editors : PageIn(page'[e], db)
  PROVE  RInv'
BY Unchanged, QuietStep

LEMMA InformedByPage ==
  ASSUME db \in Tables, NEW e \in Editors, page \in [Editors -> Pages],
         PageIn(page[e], db), NEW r \in Shown(e), NEW f \in Fields, NEW v, NEW c
  PROVE  Informed(Edit(e, r, f, v, c), db)
<1>1. /\ r \in Ids /\ page[e].rev[r] > 0 /\ page[e].rev[r] \in Nat /\ db.rev[r] \in Nat
      /\ AsOf(page[e].rev[r], page[e].cell[r], db, r)
  BY DEF Shown, PageIn, Pages, Tables
<1> DEFINE w == Edit(e, r, f, v, c)
<1>2. /\ w.rec = r /\ w.field = f /\ w.expected = page[e].rev[r] /\ w.saw = page[e].cell[r][f]
  BY DEF Edit
<1> HIDE DEF w
<1>3. w.expected <= db.rev[r] /\ (w.expected = db.rev[r] => w.saw = db.cell[r][f])
  BY <1>1, <1>2 DEF AsOf
<1> QED BY <1>1, <1>2, <1>3 DEF Informed, w

LEMMA SubmitsStep ==
  ASSUME RInv, RecordsTypeOK', NEW e \in Editors, NEW S \in SUBSET Writes, Submits(e, S),
         \A w \in S : Informed(w, db) /\ w.cmd \in Commands /\ w.expected > 0
  PROVE  RInv'
<1>1. Begin(e, S) /\ UNCHANGED <<page, batch, file, call, plan>>
  BY DEF Submits
<1>2. Apart(S) /\ e \notin Calls
  BY Holders DEF Apart
<1> QED BY <1>1, <1>2, BeginStep

LEMMA EditorSteps ==
  ASSUME RInv, RecordsTypeOK', NEW e \in Editors, EditorStep(e)
  PROVE  RInv'
<1>1. RecordsTypeOK /\ TablesOK /\ ClientsOK /\ (\A a \in Editors : PageIn(page[a], db))
  BY TypeParts DEF RInv
<1>2. db \in Tables /\ page \in [Editors -> Pages]
  BY <1>1 DEF TablesOK, ClientsOK
<1>3. ASSUME NEW r \in Shown(e), NEW f \in Fields, NEW v \in Cell, NEW c \in Commands
      PROVE  /\ Edit(e, r, f, v, c) \in Writes
             /\ Informed(Edit(e, r, f, v, c), db)
             /\ Edit(e, r, f, v, c).cmd \in Commands
             /\ Edit(e, r, f, v, c).expected > 0
  <2>1. r \in Ids /\ page[e].rev[r] > 0
    BY DEF Shown
  <2>2. Edit(e, r, f, v, c).cmd = c /\ Edit(e, r, f, v, c).expected = page[e].rev[r]
    BY DEF Edit
  <2>3. Edit(e, r, f, v, c) \in Writes
    BY <1>2, <2>1, EditTyped
  <2>4. Informed(Edit(e, r, f, v, c), db)
    BY <1>1, <1>2, InformedByPage
  <2> QED BY <2>1, <2>2, <2>3, <2>4
<1>4. CASE LoadCollection(e)
  <2>1. /\ UNCHANGED <<db, work, holder, left, at, batch, file, call, plan>>
        /\ page' = [page EXCEPT ![e] = [rev |-> db.rev, cell |-> db.cell]]
    BY <1>4 DEF LoadCollection
  <2>2. PageIn([rev |-> db.rev, cell |-> db.cell], db)
    BY <1>2 DEF PageIn, AsOf, Tables
  <2>3. \A a \in Editors : PageIn(page'[a], db)
    BY <1>1, <1>2, <2>1, <2>2
  <2> QED BY <2>1, <2>3, RInvQuiet
<1>5. CASE \E r \in Ids, f \in Fields, v \in Typed, c \in Commands : UpdateCell(e, r, f, v, c)
  <2>1. PICK r \in Ids, f \in Fields, v \in Typed, c \in Commands : UpdateCell(e, r, f, v, c)
    BY <1>5
  <2>2. r \in Shown(e) /\ Submits(e, {Edit(e, r, f, v, c)}) /\ v \in Cell
    BY <2>1, DataAssumption DEF UpdateCell
  <2> QED BY <1>3, <2>2, SubmitsStep
<1>6. CASE BulkEdit(e)
  <2>1. PICK S \in SUBSET Shown(e) : \E item \in [S -> Items] :
          Submits(e, {Edit(e, r, item[r].field, item[r].value, item[r].cmd) : r \in S})
    BY <1>6 DEF BulkEdit
  <2>2. PICK item \in [S -> Items] :
          Submits(e, {Edit(e, r, item[r].field, item[r].value, item[r].cmd) : r \in S})
    BY <2>1
  <2>3. ASSUME NEW r \in S
        PROVE  LET w == Edit(e, r, item[r].field, item[r].value, item[r].cmd)
               IN w \in Writes /\ Informed(w, db) /\ w.cmd \in Commands /\ w.expected > 0
    <3>1. /\ item[r].field \in Fields /\ item[r].value \in Cell /\ item[r].cmd \in Commands
          /\ r \in Shown(e)
      BY DataAssumption DEF Items
    <3> QED BY <1>3, <3>1
  <2>4. \A w \in {Edit(e, r, item[r].field, item[r].value, item[r].cmd) : r \in S} :
          w \in Writes /\ Informed(w, db) /\ w.cmd \in Commands /\ w.expected > 0
    BY <2>3
  <2>5. {Edit(e, r, item[r].field, item[r].value, item[r].cmd) : r \in S} \in SUBSET Writes
    BY <2>4
  <2> QED BY <2>2, <2>4, <2>5, SubmitsStep
<1>7. CASE \E r \in Ids, c \in Commands : \E i \in DOMAIN db.log[r] : Undo(e, r, i, c)
  <2>1. PICK r \in Ids, c \in Commands : \E i \in DOMAIN db.log[r] : Undo(e, r, i, c)
    BY <1>7
  <2>2. PICK i \in DOMAIN db.log[r] : Undo(e, r, i, c)
    BY <2>1
  <2>3. db.log[r][i].field \in Fields /\ db.log[r][i].before \in Cell
    <3>1. db.log[r] \in Seq(Changes)
      BY <1>2 DEF Tables
    <3>2. db.log[r][i] \in Changes
      BY <3>1
    <3> QED BY <3>2 DEF Changes
  <2>4. r \in Shown(e) /\ Submits(e, {Edit(e, r, db.log[r][i].field, db.log[r][i].before, c)})
    BY <2>2 DEF Undo
  <2> QED BY <1>3, <2>3, <2>4, SubmitsStep
<1> QED BY <1>4, <1>5, <1>6, <1>7 DEF EditorStep

LEMMA BatchSteps ==
  ASSUME RInv, RecordsTypeOK', NEW b \in Batches, BatchStep(b)
  PROVE  RInv'
<1>1. UNCHANGED <<db, work, holder, left, at, page, call, plan>>
  BY DEF BatchStep, Preview, Cancel, FileChanges
<1>2. ClientsOK
  BY TypeParts DEF RInv
<1>3. ASSUME NEW a \in Batches
      PROVE  /\ \/ batch'[a].strategy = batch[a].strategy
                \/ batch[a].state = "None"
             /\ batch'[a].state = "None" => batch[a].state = "None"
             /\ batch'[a].state = "Committed" => batch[a].state = "Committed"
  <2>1. CASE \E s \in Strategies : Preview(b, s)
    BY <1>2, <2>1 DEF Preview, ClientsOK
  <2>2. CASE Cancel(b)
    BY <1>2, <2>2 DEF Cancel, ClientsOK
  <2>3. CASE FileChanges(b)
    BY <2>3 DEF FileChanges
  <2> QED BY <2>1, <2>2, <2>3 DEF BatchStep
<1> QED BY <1>1, <1>3, Unchanged, QuietStep

(* A row of the plan Prepare makes.                                        *)
LEMMA RowPlanOK ==
  ASSUME db \in Tables, NEW b \in Batches, NEW n \in Rows, NEW cells \in [Fields -> Cell],
         cells # NoCells
  PROVE  /\ RowOK(RowPlan(b, n, cells), b, n, db, batch)
         /\ RowPlan(b, n, cells).cells = cells
<1>1. \E f \in Fields : cells[f] # Empty
  BY DEF NoCells
<1>2. RowOK(Appended(b, n, cells), b, n, db, batch)
  BY <1>1 DEF Appended, RowOK
<1>3. CASE ByKey(b) /\ Keyed(cells[KeyField]) # {}
  <2>1. PICK r \in Keyed(cells[KeyField]) : RowPlan(b, n, cells) = Updated(r, cells)
    BY <1>3 DEF RowPlan
  <2>2. r \in Ids /\ db.rev[r] > 0 /\ db.rev[r] \in Nat
    BY <2>1 DEF Keyed, Tables
  <2>3. batch[b].strategy # "Append"
    BY <1>3 DEF ByKey
  <2>4. RowOK(Updated(r, cells), b, n, db, batch)
    BY <1>1, <2>2, <2>3 DEF Updated, RowOK, AsOf
  <2>5. Updated(r, cells).cells = cells
    BY DEF Updated
  <2> QED BY <2>1, <2>4, <2>5
<1>4. CASE ~(ByKey(b) /\ Keyed(cells[KeyField]) # {})
  <2>1. RowPlan(b, n, cells) = Appended(b, n, cells)
    BY <1>4 DEF RowPlan
  <2>2. Appended(b, n, cells).cells = cells
    BY DEF Appended
  <2> QED BY <1>2, <2>1, <2>2
<1> QED BY <1>3, <1>4

(* A call moves on outside its transaction.                                *)
LEMMA GoesStep ==
  ASSUME RInv, RecordsTypeOK', NEW c \in Calls,
         NEW from \in Phases \ {"idle", "rows"}, NEW to \in Phases \ {"rows", "mark"},
         Goes(c, from, to),
         UNCHANGED <<db, work, holder, left, at, page>>,
         \A k \in Calls \ {c} : plan'[k] = plan[k],
         to = "apply" => PlanOK(plan'[c], call[c].batch, db, batch),
         \A b \in Batches :
           /\ batch'[b].strategy = batch[b].strategy
           /\ batch'[b].state = "None" => batch[b].state = "None"
           /\ batch'[b].state = "Committed" =>
                batch[b].state = "Committed" \/ (from = "mark" /\ b = call[c].batch)
  PROVE  RInv'
<1>1. CallsOK
  BY TypeParts DEF RInv
<1>2. /\ call[c].phase = from /\ call'[c].phase = to /\ call'[c].batch = call[c].batch
      /\ \A k \in Calls \ {c} : call'[k] = call[k]
  BY <1>1, GoesTyped
<1>3. ASSUME NEW k \in Calls
      PROVE  /\ call'[k].phase # "idle" => batch[call'[k].batch].state # "None"
             /\ holder = k => call'[k].batch = call[k].batch /\ plan'[k] = plan[k]
             /\ call'[k].phase = "mark" => Started(db, call'[k].batch)
             /\ call'[k].phase \in {"apply", "rows"} =>
                  PlanOK(plan'[k], call'[k].batch, db, batch)
  <2>1. CASE k = c
    <3>1. holder # c
      BY <1>1, <1>2 DEF CallsOK
    <3> QED BY <1>2, <2>1, <3>1, Unchanged
  <2>2. CASE k # c
    <3>1. call'[k] = call[k] /\ plan'[k] = plan[k]
      BY <1>2, <2>2
    <3> QED BY <3>1, Unchanged
  <2> QED BY <2>1, <2>2
<1>4. ASSUME NEW b \in Batches, batch'[b].state = "Committed"
      PROVE  Started(db, b)
  BY <1>2, <1>4, Unchanged
<1>5. \A e \in Editors : PageIn(page'[e], db)
  BY Unchanged
<1> QED BY <1>3, <1>4, <1>5, QuietStep

LEMMA RejectedPhases ==
  ASSUME CallsOK, Rejected, UNCHANGED plan, NEW k \in Calls
  PROVE  /\ call'[k].batch = call[k].batch
         /\ \/ call'[k].phase = call[k].phase /\ plan'[k] = plan[k]
            \/ call[k].phase # "idle" /\ call'[k].phase \in {"idle", "fails"}
<1>1. CASE k = holder
  BY <1>1 DEF CallsOK, CallRec, Rejected
<1>2. CASE k # holder
  BY <1>2 DEF Rejected
<1> QED BY <1>1, <1>2

LEMMA CommitSteps ==
  ASSUME RInv, RecordsTypeOK', NEW c \in Calls, CommitStep(c)
  PROVE  RInv'
<1>0. TablesOK /\ ClientsOK /\ CallsOK /\ db \in Tables
  BY TypeParts DEF RInv, TablesOK
<1>1. CASE \E b \in Batches : CommitFinds(c, b)
  <2>1. PICK b \in Batches : CommitFinds(c, b)
    BY <1>1
  <2>2. /\ UNCHANGED <<db, work, holder, left, at, page, batch, file, plan>>
        /\ batch[b].state = "Preview" /\ call[c].phase = "idle"
        /\ call'[c].phase \in {"hash", "fails"} /\ call'[c].batch = b
        /\ \A k \in Calls \ {c} : call'[k] = call[k]
    BY <1>0, <2>1 DEF CommitFinds, CallsOK
  <2>3. holder # c
    BY <1>0, <2>2 DEF CallsOK
  <2>4. ASSUME NEW k \in Calls
        PROVE  /\ call'[k].phase # "idle" => batch[call'[k].batch].state # "None"
               /\ holder = k => call'[k].batch = call[k].batch /\ plan'[k] = plan[k]
               /\ call'[k].phase = "mark" => Started(db, call'[k].batch)
               /\ call'[k].phase \in {"apply", "rows"} =>
                    PlanOK(plan'[k], call'[k].batch, db, batch)
    <3>1. CASE k = c
      BY <2>2, <2>3, <3>1
    <3>2. CASE k # c
      <4>1. call'[k] = call[k] /\ plan'[k] = plan[k]
        BY <2>2, <3>2
      <4> QED BY <4>1, Unchanged
    <3> QED BY <3>1, <3>2
  <2>5. \A e \in Editors : PageIn(page'[e], db)
    BY <2>2, Unchanged
  <2>6. \A a \in Batches : batch'[a].state = "Committed" => Started(db, a)
    BY <2>2, Unchanged
  <2> QED BY <2>2, <2>4, <2>5, <2>6, QuietStep
<1>2. CASE CommitHashes(c)
  <2>1. PICK to \in {"read", "fails"} : Goes(c, "hash", to)
    BY <1>2 DEF CommitHashes
  <2>2. UNCHANGED <<db, work, holder, left, at, page, batch, file, plan>>
    BY <1>2 DEF CommitHashes
  <2> QED BY <2>1, <2>2, GoesStep DEF Phases
<1>3. CASE CommitPrepares(c)
  <2> DEFINE b == call[c].batch
             rows == Content[b][file[b]]
  <2>1. /\ Goes(c, "read", IF RowErrors(b, rows) THEN "fails" ELSE "apply")
        /\ plan' = [plan EXCEPT ![c] = IF RowErrors(b, rows) THEN <<>>
                     ELSE [n \in DOMAIN rows |-> RowPlan(b, n, rows[n])]]
        /\ file[b] # "missing" /\ call[c].phase = "read"
        /\ UNCHANGED <<db, work, holder, left, at, page, batch, file>>
    BY <1>3 DEF CommitPrepares
  <2>2. b \in Batches /\ file[b] \in Versions
    BY <1>0, <2>1 DEF CallsOK, ClientsOK
  <2>3. rows \in Sheets
    BY <2>2, DataAssumption
  <2>4. \A k \in Calls \ {c} : plan'[k] = plan[k]
    BY <2>1
  <2>5. CASE RowErrors(b, rows)
    <3>1. Goes(c, "read", "fails")
      BY <2>1, <2>5
    <3> QED BY <2>1, <2>4, <3>1, GoesStep DEF Phases
  <2>6. CASE ~RowErrors(b, rows)
    <3>1. Goes(c, "read", "apply")
      BY <2>1, <2>6
    <3>2. ASSUME NEW n \in DOMAIN rows
          PROVE  /\ RowOK(RowPlan(b, n, rows[n]), b, n, db, batch)
                 /\ RowPlan(b, n, rows[n]).cells = rows[n]
      <4>1. n \in Rows /\ rows[n] \in [Fields -> Cell] /\ rows[n] # NoCells
        BY <2>3, <2>6, SheetRows DEF RowErrors
      <4> QED BY <1>0, <2>2, <4>1, RowPlanOK
    <3>3. plan'[c] = [n \in DOMAIN rows |-> RowPlan(b, n, rows[n])]
      BY <1>0, <2>1, <2>6 DEF ClientsOK
    <3>4. Reads(plan'[c], b, file[b])
      BY <3>2, <3>3 DEF Reads
    <3>5. PlanOK(plan'[c], b, db, batch)
      BY <2>2, <3>2, <3>3, <3>4 DEF PlanOK
    <3> QED BY <2>1, <2>4, <3>1, <3>5, GoesStep DEF Phases
  <2> QED BY <2>5, <2>6
<1>4. CASE ImportBegins(c)
  <2>1. Goes(c, "apply", "rows") /\ Begin(c, {}) /\ UNCHANGED <<page, batch, file, plan>>
    BY <1>4 DEF ImportBegins
  <2>2. \A k \in Calls : /\ call'[k].batch = call[k].batch
                         /\ call'[k].phase # call[k].phase =>
                               call[k].phase = "apply" /\ call'[k].phase = "rows"
    BY <1>0, <2>1, GoesTyped DEF Phases
  <2>3. c \notin Editors /\ Apart({})
    BY Holders DEF Apart
  <2> QED BY <2>1, <2>2, <2>3, BeginStep
<1>5. CASE OpenRow(c)
  <2>1. CASE Rejected
    <3>1. RollBack /\ UNCHANGED <<page, batch, file, plan>> /\ holder = c
      BY <1>5, <2>1 DEF OpenRow, Rejected
    <3>2. \A k \in Calls : /\ call'[k].batch = call[k].batch
                           /\ \/ call'[k].phase = call[k].phase /\ plan'[k] = plan[k]
                              \/ call[k].phase # "idle" /\ call'[k].phase \in {"idle", "fails"}
      BY <1>0, <2>1, <3>1, RejectedPhases
    <3> QED BY <3>1, <3>2, RollBackStep
  <2>2. CASE ~Rejected
    BY <1>5, <2>2, OpenStep DEF OpenRow
  <2> QED BY <2>1, <2>2
<1>6. CASE ImportCommits(c)
  <2>1. /\ holder = c /\ at = Len(plan[c]) + 1 /\ Commits /\ Goes(c, "rows", "mark")
        /\ UNCHANGED <<page, batch, file, plan>>
    BY <1>6 DEF ImportCommits
  <2>2. \A k \in Calls : /\ call'[k].batch = call[k].batch
                         /\ \/ call'[k].phase = call[k].phase /\ holder # k
                            \/ call'[k].phase = "mark" /\ holder = k /\ at = Len(plan[k]) + 1
    BY <1>0, <2>1, GoesTyped DEF Phases
  <2> QED BY <2>1, <2>2, CommitStepKeeps
<1>7. ASSUME NEW from \in {"mark", "fails"}, NEW state \in {"Committed", "Failed"},
             Marks(c, from, state), state = "Committed" => from = "mark"
      PROVE  RInv'
  <2> DEFINE b == call[c].batch
  <2>1. /\ Goes(c, from, "idle") /\ plan' = [plan EXCEPT ![c] = <<>>]
        /\ UNCHANGED <<db, work, holder, left, at, page, file>>
        /\ batch' = IF batch[b].state = "Preview"
                   THEN [batch EXCEPT ![b].state = state] ELSE batch
    BY <1>7 DEF Marks
  <2>2. \A a \in Batches :
           /\ batch'[a].strategy = batch[a].strategy
           /\ batch'[a].state = "None" => batch[a].state = "None"
           /\ batch'[a].state = "Committed" =>
                batch[a].state = "Committed" \/ (from = "mark" /\ a = call[c].batch)
    BY <1>0, <1>7, <2>1 DEF ClientsOK
  <2>3. \A k \in Calls \ {c} : plan'[k] = plan[k]
    BY <2>1
  <2> QED BY <2>1, <2>2, <2>3, GoesStep DEF Phases
<1>8. CASE CommitEndsEarly(c)
  <2>1. /\ call[c].phase # "idle"
        /\ call' = [call EXCEPT ![c].phase = "idle"]
        /\ plan' = [plan EXCEPT ![c] = <<>>]
        /\ UNCHANGED <<page, batch, file>>
        /\ \/ holder = c /\ RollBack
           \/ holder # c /\ UNCHANGED <<db, work, holder, left, at>>
    BY <1>8 DEF CommitEndsEarly
  <2>2. /\ call'[c].phase = "idle" /\ call'[c].batch = call[c].batch
        /\ \A k \in Calls \ {c} : call'[k] = call[k] /\ plan'[k] = plan[k]
    BY <1>0, <2>1 DEF CallsOK, CallRec
  <2>3. CASE holder = c /\ RollBack
    <3>1. \A k \in Calls : /\ call'[k].batch = call[k].batch
                           /\ \/ call'[k].phase = call[k].phase /\ plan'[k] = plan[k]
                              \/ call[k].phase # "idle" /\ call'[k].phase \in {"idle", "fails"}
      BY <2>1, <2>2
    <3> QED BY <2>1, <2>3, <3>1, RollBackStep
  <2>4. CASE holder # c /\ UNCHANGED <<db, work, holder, left, at>>
    <3>1. call[c].phase \in Phases \ {"idle", "rows"}
      BY <1>0, <2>1, <2>4 DEF CallsOK, CallRec
    <3>2. Goes(c, call[c].phase, "idle")
      BY <2>1 DEF Goes
    <3> QED BY <2>1, <2>2, <2>4, <3>1, <3>2, GoesStep DEF Phases
  <2> QED BY <2>1, <2>3, <2>4
<1> QED BY <1>1, <1>2, <1>3, <1>4, <1>5, <1>6, <1>7, <1>8
        DEF CommitStep, MarkCommitted, MarkFailed

(* The invariant is inductive.                                             *)
LEMMA RInvInit == Init => RInv
<1> SUFFICES ASSUME Init PROVE RInv
  OBVIOUS
<1>1. /\ db \in Tables /\ work = db /\ left = {} /\ holder = Nobody /\ at = 1
      /\ \A r \in Ids : db.rev[r] = 0 /\ db.log[r] = <<>> /\ db.cell[r] = NoCells
  BY DEF Init, Tables, NoCells, Cell
<1>2. TablesOK /\ ClientsOK /\ CallsOK
  <2>1. TablesOK
    BY <1>1, FirstRow DEF TablesOK
  <2>2. ClientsOK
    <3>1. [rev |-> db.rev, cell |-> db.cell] \in Pages
      BY <1>1 DEF Tables, Pages
    <3> QED BY <3>1 DEF Init, ClientsOK, Strategies, Versions
  <2>3. CallsOK
    <3>1. call \in [Calls -> CallRec] /\ \A c \in Calls : call[c].phase = "idle"
      BY DEF Init, CallRec, Phases
    <3> QED BY <1>1, <3>1, Holders DEF CallsOK, Planned
  <2> QED BY <2>1, <2>2, <2>3
<1>3. \A r \in Ids : Len(db.log[r]) = 0 /\ DOMAIN db.log[r] = {}
  BY <1>1
<1>4. \A b, n, f : ~Landed(db, b, n, f)
  BY <1>3 DEF Landed
<1>5. Sound(db)
  <2>1. ASSUME NEW r \in Ids PROVE Explains(db, r)
    <3>1. \A f \in Fields : db.cell[r][f] = Empty
      BY <1>1 DEF NoCells
    <3>2. \A f \in Fields : Shows(db.log[r], 0, f, Empty)
      BY DEF Shows
    <3> QED BY <1>1, <1>3, <3>1, <3>2 DEF Explains
  <2> QED BY <1>3, <2>1 DEF Sound, OnceEach, SawBefore
<1>6. AtHome(db, batch)
  BY <1>3 DEF AtHome
<1>7. Grown(db, db)
  BY <1>1, GrownItself
<1>8. \A e \in Editors : PageIn(page[e], db)
  BY <1>1 DEF Init, PageIn, AsOf, Tables
<1>9. \A c \in Calls : call[c].phase = "idle"
  BY DEF Init
<1>10. PlansOK /\ EditWrites /\ ImportWrites /\ OthersUntouched /\ Apart(left)
  BY <1>1, <1>9, Holders DEF PlansOK, Planned, EditWrites, ImportWrites, OthersUntouched, Apart
<1>11. PreviewFirst /\ MarksWritten
  BY <1>1, <1>4, <1>9 DEF PreviewFirst, MarksWritten
<1>13. ImportIsWhole
  <2>1. \A b \in Batches : LandedCells(db, b) = {} /\ batch[b].state = "None"
    BY <1>4 DEF LandedCells, Init
  <2>2. \A b \in Batches : LandedCells(db, b) = UNION {CellsIn(b, v) : v \in {}}
    BY <2>1
  <2> QED BY <2>1, <2>2 DEF ImportIsWhole
<1>12. RecordsTypeOK
  BY <1>2, TypeParts
<1> QED BY <1>1, <1>5, <1>6, <1>7, <1>8, <1>10, <1>11, <1>12, <1>13 DEF RInv

LEMMA RInvStep == RInv /\ [Next]_vars => RInv'
<1> SUFFICES ASSUME RInv, [Next]_vars PROVE RInv'
  OBVIOUS
<1>0. RecordsTypeOK'
  BY TypeStep DEF RInv
<1>1. CASE UNCHANGED vars
  BY <1>0, <1>1, RInvQuiet, Unchanged DEF vars
<1>2. ASSUME NEW r \in Plain, CreateCustomRecord(r) PROVE RInv'
  BY <1>0, <1>2, CreateStep
<1>3. ASSUME NEW e \in Editors, EditorStep(e) PROVE RInv'
  BY <1>0, <1>3, EditorSteps
<1>4. CASE WriteCell
  <2>1. CASE Rejected /\ left # {}
    <3>1. RollBack /\ UNCHANGED <<page, batch, file, plan>>
      BY <1>4, <2>1 DEF WriteCell, Rejected
    <3>2. CallsOK
      BY TypeParts DEF RInv
    <3>3. \A k \in Calls : /\ call'[k].batch = call[k].batch
                           /\ \/ call'[k].phase = call[k].phase /\ plan'[k] = plan[k]
                              \/ call[k].phase # "idle" /\ call'[k].phase \in {"idle", "fails"}
      BY <2>1, <3>1, <3>2, RejectedPhases
    <3> QED BY <1>0, <3>1, <3>3, RollBackStep
  <2>2. CASE ~Rejected
    <3>1. PICK w \in left : /\ Known(work, w) \/ Current(w)
                            /\ work' = IF Known(work, w) THEN work ELSE Applied(work, w)
                            /\ left' = left \ {w}
                            /\ UNCHANGED <<db, holder, at, call, page, batch, file, plan>>
      BY <1>4, <2>2 DEF WriteCell
    <3> QED BY <1>0, <3>1, WriteStep
  <2> QED BY <1>4, <2>1, <2>2 DEF WriteCell
<1>5. CASE EditCommits
  <2>1. /\ holder \in Editors /\ Commits /\ UNCHANGED <<page, batch, file, call, plan>>
    BY <1>5 DEF EditCommits
  <2>2. \A c \in Calls : holder # c
    BY <2>1, Holders
  <2> QED BY <1>0, <2>1, <2>2, CommitStepKeeps
<1>6. CASE EditEndsEarly
  BY <1>0, <1>6, RollBackStep DEF EditEndsEarly
<1>7. ASSUME NEW b \in Batches, BatchStep(b) PROVE RInv'
  BY <1>0, <1>7, BatchSteps
<1>8. ASSUME NEW c \in Calls, CommitStep(c) PROVE RInv'
  BY <1>0, <1>8, CommitSteps
<1> QED BY <1>1, <1>2, <1>3, <1>4, <1>5, <1>6, <1>7, <1>8 DEF Next

-----------------------------------------------------------------------------
(***************************************************************************)
(* The theorems.                                                           *)
(***************************************************************************)
(* The invariant of the proofs holds of every state the service can reach. *)
THEOREM RecordsInductive == Spec => []RInv
<1>1. RInv /\ [Next]_vars => RInv'
  BY RInvStep
<1> QED BY RInvInit, <1>1, PTL DEF Spec

(* Every variable has its type, a lock is held by a call only while it     *)
(* applies its rows, and the copy of a transaction is gone with its lock.  *)
THEOREM RecordsTypeCorrect == Spec => []RecordsTypeOK
<1>1. RInv => RecordsTypeOK
  BY DEF RInv
<1> QED BY RecordsInductive, <1>1, PTL

(* At every time the history of a record explains its cells, in the tables *)
(* and in the open transaction (the audit trail of ApplyUpdate).           *)
THEOREM HistoryAlwaysExplains == Spec => []HistoryExplainsCells
<1>1. RInv => HistoryExplainsCells
  BY DEF RInv, Sound, HistoryExplainsCells
<1> QED BY RecordsInductive, <1>1, PTL

(* No author of a change has replaced a value he had not seen, however old *)
(* his page or his plan was (the revision checks of ApplyUpdate and of     *)
(* ApplyImportedRows).                                                     *)
THEOREM NothingEverOverwrittenUnseen == Spec => []NothingOverwrittenUnseen
<1>1. ASSUME RInv PROVE NothingOverwrittenUnseen
  <2>1. db \in Tables /\ Sound(db)
    BY <1>1 DEF RInv, RecordsTypeOK
  <2>2. ASSUME NEW r \in Ids, NEW i \in DOMAIN db.log[r]
        PROVE  db.log[r][i].saw \in {Unseen, db.log[r][i].before}
    <3>1. db.log[r] \in Seq(Changes) /\ SawBefore(db.log[r])
      BY <2>1 DEF Tables, Sound
    <3>2. i \in 1 .. Len(db.log[r])
      BY <3>1
    <3> QED BY <3>1, <3>2 DEF SawBefore
  <2> QED BY <2>2 DEF NothingOverwrittenUnseen
<1> QED BY RecordsInductive, <1>1, PTL

(* However often Commit is called for an Append batch and wherever a call  *)
(* ends, each cell of a row is written once, into the record of the row    *)
(* (the record and command ids Prepare computes).                          *)
THEOREM AppendedRowsAlwaysLandOnce == Spec => []AppendedRowsLandOnce
<1>1. ASSUME RInv PROVE AppendedRowsLandOnce
  <2>1. db \in Tables /\ Sound(db) /\ AtHome(db, batch)
    BY <1>1 DEF RInv, RecordsTypeOK
  <2>2. ASSUME NEW b \in Batches, NEW n \in Rows, NEW r \in Ids, NEW i \in DOMAIN db.log[r],
               db.log[r][i].cmd = <<b, n>>, batch[b].strategy = "Append"
        PROVE  /\ r = <<b, n>>
               /\ \A j \in DOMAIN db.log[r] :
                    (db.log[r][j].cmd = <<b, n>> /\ db.log[r][j].field = db.log[r][i].field)
                      => j = i
    <3>1. db.log[r] \in Seq(Changes) /\ OnceEach(db.log[r])
      BY <2>1 DEF Tables, Sound
    <3>2. DOMAIN db.log[r] = 1 .. Len(db.log[r])
      BY <3>1
    <3>3. r = <<b, n>>
      BY <2>1, <2>2, <3>2 DEF AtHome
    <3>4. \A j \in DOMAIN db.log[r] :
            (db.log[r][j].cmd = <<b, n>> /\ db.log[r][j].field = db.log[r][i].field) => j = i
      BY <2>2, <3>1, <3>2 DEF OnceEach
    <3> QED BY <3>3, <3>4
  <2> QED BY <2>2 DEF AppendedRowsLandOnce
<1> QED BY RecordsInductive, <1>1, PTL

(* A batch is written as a whole or not at all, and a Committed one is     *)
(* written, whatever ends early (the transaction of ApplyImportedRows, and *)
(* MarkCommitted after it).                                                *)
THEOREM ImportAlwaysWhole == Spec => []ImportIsWhole
<1>1. RInv => ImportIsWhole
  BY DEF RInv
<1> QED BY RecordsInductive, <1>1, PTL
=============================================================================
