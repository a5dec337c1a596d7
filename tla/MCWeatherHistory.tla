--------------------------- MODULE MCWeatherHistory ---------------------------
(* Instances of WeatherHistory for TLC. *)
EXTENDS WeatherHistory, TLC

Callers == Permutations(Request)
=============================================================================
