SPECIFICATION Spec
CONSTANTS
  Users = {alice, bob}
  MaxLine = 3
  MaxBytes = 3
  MaxLimit = 2
  MaxEvents = 4
  MaxDay = 2
  MaxRestarts = 2
  MaxFaults = 2
SYMMETRY Symmetry
INVARIANTS
  TypeOK
  NothingLost
  FewUnreadable
  OwnLogComplete
  SizeBounded
PROPERTIES
  Permanent
CHECK_DEADLOCK FALSE
