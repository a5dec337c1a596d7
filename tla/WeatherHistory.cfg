SPECIFICATION HistorySpec
CONSTANTS
  Request = {r1, r2}
  Key = {k1}
  None = None
  TTL = 1
  Retention = 2
  Faults = {"lookup"}
  MaxTime = 3
  MaxVersion = 2
SYMMETRY Callers
INVARIANTS
  AnswersNeverRegress
PROPERTIES
  UsedRowsSurvive
