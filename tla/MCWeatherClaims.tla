---------------------------- MODULE MCWeatherClaims ----------------------------
(* Instances of WeatherClaims for TLC. *)
EXTENDS WeatherClaims, TLC

Callers == Permutations(Request)
=============================================================================
