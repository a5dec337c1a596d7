SPECIFICATION Spec
CONSTANTS
  Place = {1, 2, 3}
  None = None
  Version <- Versions
  Base <- Table
  Refresh <- Files
  MaxInt = 7
  MaxCounted = 2
  MaxLimit = 3
  DefaultLimit = 2
INVARIANTS
  TypeOK
  DeployedIsNewest
  PagesShowEachOnce
  PageHoldsItsMatches
