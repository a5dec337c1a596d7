-------------------------- MODULE ForecastRefinement --------------------------
(***************************************************************************)
(* WeatherCache implements ForecastService: hide the table, the flight     *)
(* group and every local variable of a call, and what is left is a service *)
(* that tells each caller a forecast with an expiry granted to it.         *)
(***************************************************************************)
EXTENDS WeatherCache

\* A call is asked from its arrival to the return of GetWeather, whatever it
\* reads, leads or waits for meanwhile.
CallOf(r) ==
  CASE pc[r] = "idle" -> "idle"
    [] pc[r] = "done" -> "told"
    [] OTHER -> "asked"

Promise == INSTANCE ForecastService WITH
  call <- [r \in Request |-> CallOf(r)],
  told <- [r \in Request |-> IF pc[r] = "done" THEN answer[r] ELSE None]

\* The promise is kept: no caller is told an expiry that was not granted to its
\* body, a storage time before its release, a fallback that is still fresh, or
\* the "should never happen" error of service.go:117.
Implements == Promise!ServiceSpec

=============================================================================
