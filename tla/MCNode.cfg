CONSTANTS
  Entry = {e1, e2}
  Blob = {b1, b2}
  Session = {s1, s2}
  Repairer = {r1}
  MutationId = {m1, m2}
  Alarm = alarm
  NoBlob = NoBlob
  NoRow = NoRow
  NoMutation = NoMutation
  Free = Free
  ByteSize = {1}
  Policy <- OnePolicy
  Grace = 1
  StaleAfter = 1
  Bucket = 1
  Serialized = TRUE
  MaxTime = 2
  MaxRev = 3
  MaxBatch = 2
  GcBatchSize = 2
  MaxRepair = 2
SPECIFICATION Spec
SYMMETRY Symmetry
INVARIANTS TypeOK ReferencedObjectsExist RetainedObjectsExist LiveIffCurrent EntriesFollowLog
PROPERTIES RepairKeepsManualPause CommitsExtendLog
