SPECIFICATION Spec
CONSTANTS
  Users = {alice, bob}
  Devices = {d1, d2}
  NoUser = NoUser
  Objects = {o1}
  NoEntity = NoEntity
  MaxValue = 0
INVARIANTS
  TypeOK
  OwnDevicesOnly
PROPERTIES
  OnlyOwnersRename
CHECK_DEADLOCK FALSE
