SPECIFICATION Spec
CONSTANTS
  r1 = r1
  b1 = b1
  key = key
  note = note
  x = x
  y = y
  Plain = {r1}
  Batches = {b1}
  NRows = 2
  Fields = {key, note}
  KeyField = key
  Values = {x, y}
  Empty = Empty
  Typed = {x}
  Unseen = Unseen
  Editors = {e1}
  Commands = {k1}
  Calls = {c1}
  Nobody = Nobody
  Content <- MCContent
  MaxBulk = 2
  MaxEdits = 1
INVARIANT HistoryExplainsCells
INVARIANT NothingOverwrittenUnseen
INVARIANT AppendedRowsLandOnce
INVARIANT ImportIsWhole
