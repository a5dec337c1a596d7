SPECIFICATION FairSpec
CONSTANTS
  Request = {r1, r2}
  Key = {k1}
  None = None
  TTL = 1
  Retention = 1
  Faults = {"lookup", "fetch", "store"}
  MaxTime = 2
  MaxVersion = 2
INVARIANTS
  TypeOK
  OneFlightPerKey
  WaiterHasLeader
  NoUnbacked304
PROPERTIES
  RowNeverRegresses
  NoCallStartsOver
  EveryCallAnswered
