CONSTANTS
  Entry = {e1}
  Blob = {b1, b2}
  Session = {s1}
  Repairer = {r1}
  MutationId = {m1}
  Alarm = alarm
  NoBlob = NoBlob
  NoRow = NoRow
  NoMutation = NoMutation
  Free = Free
  ByteSize = {1, 2}
  Policy <- TwoPolicies
  Grace = 1
  StaleAfter = 1
  Bucket = 1
  Serialized = FALSE
  MaxTime = 2
  MaxRev = 2
  MaxBatch = 1
  GcBatchSize = 2
  MaxRepair = 2
SPECIFICATION Spec
SYMMETRY Symmetry
INVARIANTS BytesMatchRows
PROPERTIES RowsWithinQuota
