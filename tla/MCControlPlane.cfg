CONSTANTS
  owner = owner
  admin = admin
  guest = guest
  Users = {owner, admin, guest}
  v1 = v1
  v2 = v2
  Vaults = {v1, v2}
  Invites = {i1, i2}
  Requests = {r1}
  Jobs = {timer, j1, j2}
  Timer = timer
  None = None
  Scenarios <- AllScenarios
  MemberLimit = 2
  InviteTtl = 1
  Minute = 1
  Hour = 3
  DeliveryLimit = 2
  RequestTtl = 2
  Period = 3
  TokenTtl = 1
  Lifetime = 1
  FlushLimit = 1
  MaxTries = 2
SPECIFICATION FairSpec
INVARIANTS TypeOK SeatsBounded KeysMatchGrants RevokedStaysOut SuspensionOwed NoticeOnlyAfterErasure CheckoutsShareCustomer DeliveryPaced
PROPERTIES  PurgeCompletes
CHECK_DEADLOCK FALSE
