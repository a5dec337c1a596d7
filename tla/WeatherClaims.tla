----------------------------- MODULE WeatherClaims -----------------------------
(***************************************************************************)
(* What the repository's documents say of the forecast lookup and the code *)
(* does not keep in every interleaving: TLC shows a behaviour of           *)
(* WeatherCache that breaks it.                                            *)
(***************************************************************************)
EXTENDS WeatherCache

Answers(r) == answer[r] = None /\ answer'[r] # None

\* README.md:187: "`stale-cache` means api.met.no was unreachable and this is
\* the last forecast we stored".  The fallback is the entry the leader read
\* before it entered the flight group, which a flight in between may have
\* replaced (service.go:62, 98-101).
StaleIsLastStored ==
  [][\A r \in Request :
       Answers(r) /\ answer'[r].source = "stale-cache" /\ row # None
         => answer'[r].body = row.body]_vars

=============================================================================
