SPECIFICATION Spec
CONSTANTS
  Request = {r1, r2}
  Key = {k1}
  None = None
  TTL = 2
  Retention = 2
  Faults = {"fetch"}
  MaxTime = 3
  MaxVersion = 2
SYMMETRY Callers
PROPERTIES
  StaleIsLastStored
