SPECIFICATION FairSpec
CONSTANTS
  Request = {r1, r2}
  None = None
  Unset = Unset
  Malformed = Malformed
  Blank = Blank
  Missing = Missing
  Broken = Broken
  Invalid = Invalid
  DB = DB
  Elsewhere = Elsewhere
  Defaults <- BuiltIn
  Plain <- Tidied
  Levels <- LogLevels
  File <- Files
  Env <- Envs
  Reachable = {DB}
  FreePort = {8080}
  MaxConns = 1
  HandlerTimeout = 2
  ReadyTimeout = 1
  FetchTimeout = 1
  RefreshTimeout = 1
  WriteTimeout = 3
  DrainTimeout = 1
  Interval = 2
  Retention = 1
INVARIANTS
  TypeOK
  BootsAsWanted
  AnsweredInTime
  WorkEnds
  ZeroMeansDrained
  StaleRowsSwept
PROPERTIES
  StopsWhateverHangs
