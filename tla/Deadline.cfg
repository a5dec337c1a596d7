SPECIFICATION Spec
CONSTANTS
  Request = {r1}
  None = None
  Unset = Unset
  Malformed = Malformed
  Blank = Blank
  Missing = Missing
  Broken = Broken
  Invalid = Invalid
  DB = DB
  Elsewhere = Elsewhere
  Defaults <- BuiltIn
  Plain <- Tidied
  Levels <- LogLevels
  File <- Files
  Env <- Envs
  Reachable = {DB}
  FreePort = {8080}
  MaxConns = 1
  HandlerTimeout = 4
  ReadyTimeout = 1
  FetchTimeout = 2
  RefreshTimeout = 3
  WriteTimeout = 6
  DrainTimeout = 2
  Interval = 2
  Retention = 1
INVARIANTS
  SlowDependencyAnswered
