CONSTANTS
  Entry = {e1, e2}
  Blob = {b1}
  Session = {s1, s2}
  Repairer = {r1}
  MutationId = {m1, m2, m3}
  Alarm = alarm
  NoBlob = NoBlob
  NoRow = NoRow
  NoMutation = NoMutation
  Free = Free
  ByteSize = {1}
  Policy <- OnePolicy
  Grace = 1
  StaleAfter = 1
  Bucket = 1
  Serialized = FALSE
  MaxTime = 1
  MaxRev = 2
  MaxBatch = 1
  GcBatchSize = 2
  MaxRepair = 2
SPECIFICATION Spec
SYMMETRY Symmetry
INVARIANTS LiveIffCurrent RetainedNeverStaged EntriesFollowLog
PROPERTIES NothingMovesWhilePaused CommitsExtendLog
