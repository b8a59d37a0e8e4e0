SPECIFICATION RetrySpec
CONSTANTS
  Requests = {r1}
  Devices = {d1}
  Users = {alice}
  Admins = {}
  Objects = {}
  NoDevice = NoDevice
  NoUser = NoUser
  NoRequest = NoRequest
  MaxDevices = 1
  SharedReplies = FALSE
  MayReject = FALSE
PROPERTIES
  DeletedOnRetry
CHECK_DEADLOCK TRUE
