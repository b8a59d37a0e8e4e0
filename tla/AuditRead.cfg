SPECIFICATION Spec
CONSTANTS
  Users = {alice}
  MaxLine = 3
  MaxBytes = 3
  MaxLimit = 3
  MaxEvents = 6
  MaxDay = 2
  MaxRestarts = 2
  MaxFaults = 0
INVARIANTS
  LatestReadable
CHECK_DEADLOCK FALSE
