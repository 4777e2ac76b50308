CONSTANTS
  v1 = v1
  v1again = v1again
  Vault = {v1, v1again}
  Sock = {s1, s2}
  Op = {q1, q2, flush}
  Flush = flush
  None = None
  Key = {1, 2}
  Batch = 1
  Call <- Calls
  VaultOf <- OneVault
  Again <- Reopened
  Device <- OneDevice
  Scenario <- AllScenarios
SPECIFICATION FairSpec
CHECK_DEADLOCK FALSE
INVARIANTS TypeOK OneAtATime GracefulMeansDrained PartsAccounted
PROPERTIES StorageKeepsPromise ShutdownEnds
