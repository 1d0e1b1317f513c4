SPECIFICATION Spec
CONSTANTS
  Drafts = {d1, d2}
  Confs = {c1, c2}
  Calls = {k1, k2}
  Accounts = {a, b}
  NoDraft = NoDraft
  NoConf = NoConf
  NoAccount = NoAccount
  MaxRevision = 2
INVARIANTS
  RowsAgree
  RecordsAreTrue
  AtMostOneCopy
  SentAsReviewed
PROPERTIES
  CallsReturn
  ImplementsCorrespondence
