-------------------------------- MODULE Config --------------------------------
(***************************************************************************)
(* config.Load: built-in defaults, then config.yaml, then the environment. *)
(* The settings are represented by one of each kind: port is a number, url *)
(* a text, origins a comma-separated list, level the level of the log.     *)
(***************************************************************************)
EXTENDS Integers, Sequences

CONSTANTS
  Unset,      \* a key the file does not have, a variable empty or not set
  Malformed,  \* the text of a number that strconv.Atoi refuses
  Blank,      \* an empty piece of a comma-separated list
  Missing,    \* no file
  Broken,     \* a file that cannot be read or parsed
  Invalid,    \* what Load returns with an error
  Plain,      \* texts of a level, without their spaces and in lower case
  Levels,     \* the texts slog knows, and the level each names
  Defaults    \* the built-in settings

ASSUME SettingsAssumption ==
  /\ DOMAIN Defaults = {"port", "url", "origins", "level"}
  /\ Defaults = [s \in DOMAIN Defaults |-> Defaults[s]]
  /\ \A s \in DOMAIN Defaults : Defaults[s] # Unset
  /\ \A text \in DOMAIN Plain : Plain[text] # Unset
  /\ Missing # Broken

\* yaml.Unmarshal into the defaults: the keys that are there replace them.
Unmarshal(file) ==
  [s \in DOMAIN Defaults |-> IF file[s] # Unset THEN file[s] ELSE Defaults[s]]

EnvString(cfg, env, s) == IF env[s] # Unset THEN [cfg EXCEPT ![s] = env[s]] ELSE cfg

\* Mutant: a number that cannot be parsed is ignored.
EnvIntMutant(cfg, env, s) ==
  IF env[s] = Malformed THEN cfg ELSE EnvString(cfg, env, s)
\* A malformed number is an error and not a silent fallback.
EnvInt(cfg, env, s) ==
  IF env[s] = Malformed THEN Invalid ELSE EnvString(cfg, env, s)

\* The pieces of a list between its commas, without the empty ones.
Pieces(list) == SelectSeq(list, LAMBDA piece : piece # Blank)

EnvList(cfg, env, s) == IF env[s] # Unset THEN [cfg EXCEPT ![s] = Pieces(env[s])] ELSE cfg

EnvLevel(cfg, env, s) == IF env[s] # Unset THEN [cfg EXCEPT ![s] = Plain[env[s]]] ELSE cfg

ApplyEnv(cfg, env) ==
  LET numbers == EnvInt(cfg, env, "port") IN
  IF numbers = Invalid
  THEN Invalid
  ELSE EnvLevel(EnvString(EnvList(numbers, env, "origins"), env, "url"), env, "level")

\* A file that is not there is no error; a broken one is.
Load(file, env) ==
  CASE file = Missing -> ApplyEnv(Defaults, env)
    [] file = Broken -> Invalid
    [] OTHER -> ApplyEnv(Unmarshal(file), env)

\* setupLogger: a text that names no level is not refused.
LogLevel(text) == IF text \in DOMAIN Levels THEN Levels[text] ELSE "info"

\* What an operator who wrote file and env wants of setting s: the first layer
\* that gives it, with no blank among the origins of the environment and its
\* level tidied.
Wanted(file, env, s) ==
  LET given == [env EXCEPT !.origins = IF @ = Unset THEN Unset ELSE Pieces(@),
                           !.level = IF @ = Unset THEN Unset ELSE Plain[@]]
      layers == IF file = Missing THEN <<given, Defaults>> ELSE <<given, file, Defaults>>
      first == CHOOSE i \in DOMAIN layers :
                 layers[i][s] # Unset /\ \A j \in 1..(i - 1) : layers[j][s] = Unset
  IN  layers[first][s]

=============================================================================
