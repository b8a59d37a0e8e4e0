SPECIFICATION ReportingSpec
CONSTANTS
  Users = {alice}
  Devices = {d1}
  NoUser = NoUser
  Objects = {o1}
  NoEntity = NoEntity
  NoMessage = NoMessage
  Configs = {"plain"}
  MaxValue = 1
  MaxInbox = 1
  MaxDelay = 1
PROPERTIES
  LiveCache
CHECK_DEADLOCK TRUE
