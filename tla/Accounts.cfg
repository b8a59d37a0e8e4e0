SPECIFICATION Spec
CONSTANTS
  Requests = {r1, r2}
  Users = {u1, u2, u3}
  Keys = {env, k1, k2, k3, k4}
  ConfiguredKey = env
  NoUser = NoUser
  NoKey = NoKey
SYMMETRY Symmetry
INVARIANTS
  TypeOK
  KeyKnown
  OneAdmin
PROPERTIES
  AdminAfterStart
  ImplementsKeys
CHECK_DEADLOCK TRUE
