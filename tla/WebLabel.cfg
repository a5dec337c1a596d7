SPECIFICATION Spec
CONSTANTS
  City = {a}
  Position = {here}
  None = None
  MaxCalls = 2
  MaxReloads = 0
PROPERTIES
  CoordinateLabelKept
