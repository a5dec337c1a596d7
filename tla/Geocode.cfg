SPECIFICATION FairSpec
CONSTANTS
  Request = {r1, r2, r3}
  Key = {k1}
  Name = {n1, n2}
  None = None
  Retention = 1
  Faults = {"lookup", "fetch"}
  MaxTime = 3
INVARIANTS
  TypeOK
  OneLookupPerKey
  SharedNameIsStored
PROPERTIES
  EveryCallAnswered
