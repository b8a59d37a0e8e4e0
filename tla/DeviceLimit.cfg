SPECIFICATION Spec
CONSTANTS
  Requests = {r1, r2}
  Devices = {d1, d2}
  Users = {alice}
  Admins = {}
  Objects = {}
  NoDevice = NoDevice
  NoUser = NoUser
  NoRequest = NoRequest
  MaxDevices = 1
  SharedReplies = FALSE
  MayReject = FALSE
INVARIANTS
  LimitRespected
CHECK_DEADLOCK TRUE
