---------------------------- MODULE MCRecordCells ----------------------------
(* RecordCells on a small instance: one record of the user, one batch of   *)
(* two rows, and two fields.                                               *)
EXTENDS RecordCells, TLC

CONSTANTS r1, b1, key, note, x, y

(* The file names two keys.  The changed file is shorter: its one row has  *)
(* the key of the second row, and a note.                                  *)
MCContent ==
  b1 :> ("previewed" :> (1 :> (key :> x @@ note :> Empty) @@ 2 :> (key :> y @@ note :> Empty))
      @@ "changed"   :> (1 :> (key :> y @@ note :> x)))
=============================================================================
