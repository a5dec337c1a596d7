--------------------------- MODULE ForecastService ---------------------------
(***************************************************************************)
(* What weather.Service promises to whoever calls GetWeather, without the  *)
(* table, the flight group or the sweep that keep the promise.  A call is  *)
(* asked and some time later told; several calls may be told the same in   *)
(* one step.  WeatherCache implements this service, and WeatherHandler     *)
(* puts the HTTP handler and the browsers' caches in front of it.          *)
(***************************************************************************)
EXTENDS Integers, Sequences

CONSTANTS
  Request,     \* concurrent callers
  None,        \* a nil pointer
  TTL,         \* lifetime api.met.no grants in Expires
  MaxTime,     \* bound on the clock
  MaxVersion   \* bound on the number of upstream releases

ASSUME ServiceAssumption ==
  /\ None \notin Nat
  /\ TTL \in Nat /\ MaxTime \in Nat /\ MaxVersion \in Nat

VARIABLES
  now,     \* the wall clock
  since,   \* since[v]: when api.met.no released forecast v
  call,    \* each call: "idle", "asked" or "told"
  told     \* what a call was told and has not passed on yet, or None

service == <<now, since, call, told>>

Version == Len(since)

ServiceInit ==
  /\ now = 0
  /\ since = <<0>>
  /\ call = [r \in Request |-> "idle"]
  /\ told = [r \in Request |-> None]

-----------------------------------------------------------------------------

\* The times at which v was api.met.no's newest forecast.
Reign(v) == since[v] .. (IF v < Version THEN since[v + 1] ELSE now)

\* Expiries that may be quoted for forecast v: TTL after a moment of its reign,
\* or none at all, when the upstream sent none.
Granted(v) == {t + TTL : t \in Reign(v)} \cup {None}

Error(kind) == [source |-> kind, body |-> None, exp |-> None, at |-> None]

\* A forecast that goes with its own expiry and was stored after its release.
Forecast(v) ==
  [source : {"cache", "upstream"}, body : {v}, exp : Granted(v), at : since[v]..now]
\* The fallback: the same, except that its time is up.
Fallback(v) ==
  {[source |-> "stale-cache", body |-> v, exp |-> exp, at |-> at] :
     exp \in {e \in Granted(v) : e = None \/ e <= now}, at \in since[v]..now}

\* What a call may be told.  An unbacked 304 ("internal") is not among it.
Promised ==
  {Error("unavailable")} \cup UNION {Forecast(v) \cup Fallback(v) : v \in 1..Version}

Ask(r) ==
  /\ call[r] = "idle"
  /\ call' = [call EXCEPT ![r] = "asked"]
  /\ UNCHANGED <<now, since, told>>

\* The coordinate is out of range.
Refuse(r) ==
  /\ call[r] = "idle"
  /\ call' = [call EXCEPT ![r] = "told"]
  /\ told' = [told EXCEPT ![r] = Error("invalid")]
  /\ UNCHANGED <<now, since>>

\* One result for all the calls of S.
Tell(S) ==
  /\ \A r \in S : call[r] = "asked"
  /\ call' = [r \in Request |-> IF r \in S THEN "told" ELSE call[r]]
  /\ \E a \in Promised : told' = [r \in Request |-> IF r \in S THEN a ELSE told[r]]
  /\ UNCHANGED <<now, since>>

\* The caller takes the result and is free for another call.
Take(r) ==
  /\ call[r] = "told"
  /\ call' = [call EXCEPT ![r] = "idle"]
  /\ told' = [told EXCEPT ![r] = None]
  /\ UNCHANGED <<now, since>>

Publish ==
  /\ Version < MaxVersion
  /\ since' = Append(since, now)
  /\ UNCHANGED <<now, call, told>>

Tick ==
  /\ now < MaxTime
  /\ now' = now + 1
  /\ UNCHANGED <<since, call, told>>

ServiceNext ==
  \/ \E r \in Request : Ask(r) \/ Refuse(r) \/ Take(r)
  \/ \E S \in (SUBSET Request) \ {{}} : Tell(S)
  \/ Publish
  \/ Tick

ServiceSpec == ServiceInit /\ [][ServiceNext]_service

=============================================================================
