SPECIFICATION FairSpec
CONSTANTS
  City = {a, b}
  Position = {here}
  None = None
  MaxCalls = 4
  MaxReloads = 1
INVARIANTS
  TypeOK
  SavedIsDrawn
  ButtonOffWhileLocating
  SpinnerHasCause
PROPERTIES
  DrawnNeverGoesBack
  PageComesBack
