SPECIFICATION Spec
CONSTANTS
  Request = {r1, r2}
  Key = {k1, k2}
  None = None
  TTL = 2
  Retention = 2
  Faults = {"lookup", "fetch", "store"}
  MaxTime = 3
  MaxVersion = 2
SYMMETRY CallersAndKeys
INVARIANTS
  FreshAnswersGranted
PROPERTIES
  Implements
