SPECIFICATION FairSpec
CONSTANTS
  Entries = {e1, e2, e3, e4}
  Timers = {t1, t2, t3}
  NoTimer = NoTimer
  BatchSize = 2
INVARIANTS
  TypeOK
  OneHome
  NeverStranded
  BatchBelowLimit
PROPERTIES
  ImplementsDelivery
  EntriesLeave
CHECK_DEADLOCK TRUE
