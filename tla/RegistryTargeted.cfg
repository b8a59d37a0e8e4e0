SPECIFICATION FairSpec
CONSTANTS
  Requests = {r1, r2}
  Devices = {d1}
  Users = {admin, alice}
  Admins = {admin}
  Objects = {o1}
  NoDevice = NoDevice
  NoUser = NoUser
  NoRequest = NoRequest
  MaxDevices = 1
  SharedReplies = FALSE
  MayReject = TRUE
INVARIANTS
  ForeignKeys
  CommitOnlyProvisioned
PROPERTIES
  RevokedBeforeRemoved
  NoWayBack
  RequestsTerminate
CHECK_DEADLOCK TRUE
