CONSTANTS
  Entry = {e1}
  Blob = {b1}
  Session = {s1, s2}
  Repairer = {}
  MutationId = {m1}
  Alarm = alarm
  NoBlob = NoBlob
  NoRow = NoRow
  NoMutation = NoMutation
  Free = Free
  ByteSize = {1}
  Policy <- OnePolicy
  Grace = 1
  StaleAfter = 1
  Bucket = 1
  Serialized = FALSE
  MaxTime = 2
  MaxRev = 3
  MaxBatch = 1
  GcBatchSize = 2
  MaxRepair = 2
SPECIFICATION Spec
SYMMETRY Symmetry
INVARIANTS ReferencedObjectsExist
