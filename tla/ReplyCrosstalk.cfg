SPECIFICATION Spec
CONSTANTS
  Requests = {r1, r2}
  Devices = {d1, d2}
  Users = {alice}
  Admins = {}
  Objects = {}
  NoDevice = NoDevice
  NoUser = NoUser
  NoRequest = NoRequest
  MaxDevices = 2
  SharedReplies = TRUE
  MayReject = TRUE
INVARIANTS
  CommitOnlyProvisioned
CHECK_DEADLOCK TRUE
