---------------------------- MODULE MCWeatherCache ----------------------------
(* Instances of WeatherCache for TLC. *)
EXTENDS WeatherCache, TLC

\* Callers are interchangeable; used in runs without temporal properties only.
Callers == Permutations(Request)
=============================================================================
