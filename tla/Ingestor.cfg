SPECIFICATION FairSpec
CONSTANTS
  Users = {alice}
  Devices = {d1}
  NoUser = NoUser
  Objects = {o1}
  NoEntity = NoEntity
  NoMessage = NoMessage
  Configs = {"command", "foreign", "garbage", "poison"}
  MaxValue = 2
  MaxInbox = 2
  MaxDelay = 2
INVARIANTS
  TypeOK
  NoGhosts
  RetainedKnown
PROPERTIES
  CacheMovesForward
  Recovers
  ImplementsCache
CHECK_DEADLOCK TRUE
