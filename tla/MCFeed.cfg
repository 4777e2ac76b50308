CONSTANTS
  c1 = c1
  c2 = c2
  c3 = c3
  d1 = d1
  d2 = d2
  e1 = e1
  e2 = e2
  h1 = h1
  h2 = h2
  Conns = {c1, c2, c3}
  Devices = {d1, d2}
  DeviceOf <- OwnerOf
  Entries = {e1, e2}
  Handlers = {h1, h2}
  None = None
  Workloads <- AllWorkloads
  PageLimit = 1
  MaxBatch = 2
  Loads = {0, 1}
  Files = {1, 2, 3}
  VersionIds = {1, 2, 3}
  Retention = 1
  PageRows = 1
SYMMETRY Alike
SPECIFICATION FeedSpec
INVARIANTS TypeOK ListingComplete NothingUntold PresenceShown HistoryListed
CHECK_DEADLOCK FALSE
