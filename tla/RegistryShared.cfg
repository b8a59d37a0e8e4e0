SPECIFICATION Spec
CONSTANTS
  Requests = {r1, r2}
  Devices = {d1, d2, d3}
  Users = {admin, alice}
  Admins = {admin}
  Objects = {o1}
  NoDevice = NoDevice
  NoUser = NoUser
  NoRequest = NoRequest
  MaxDevices = 1
  SharedReplies = TRUE
  MayReject = FALSE
CONSTRAINT AdminsOnlyDelete
SYMMETRY Symmetry
INVARIANTS
  TypeOK
  OvershootBounded
PROPERTIES
  DeletedMeansGone
  ImplementsLifecycle
CHECK_DEADLOCK TRUE
