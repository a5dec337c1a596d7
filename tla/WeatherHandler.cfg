SPECIFICATION Spec
CONSTANTS
  Request = {r1}
  None = None
  TTL = 3
  MaxTime = 6
  MaxVersion = 2
  Second = 2
INVARIANTS
  TypeOK
  ReuseEndsWithGrant
  NotModifiedHasBody
  StaleAsksAgain
