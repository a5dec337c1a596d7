---------------------------- MODULE WeatherHistory ----------------------------
(***************************************************************************)
(* WeatherCache with history variables: what callers have been told, and   *)
(* when the row was last used.  They record steps and enable none, so      *)
(* every behaviour of WeatherCache is one of this module.                  *)
(***************************************************************************)
EXTENDS WeatherCache

VARIABLES
  newest,    \* the newest release any caller has been given
  floor,     \* newest as it stood when each call arrived
  lastUse    \* when a caller was last answered with a stored forecast

history == <<newest, floor, lastUse>>
hvars == <<vars, history>>

\* The call's answer is determined in this step.
Answers(r) == answer[r] = None /\ answer'[r] # None

\* A stored forecast was used: served while fresh, or as the fallback.
Uses(r) ==
  /\ Answers(r)
  /\ pc[r] \in {"decide", "fetch"}
  /\ answer'[r].source \in {"cache", "stale-cache"}

\* The releases handed to callers when their GetWeather returns.
Told == {answer[r].body : r \in {q \in Request : pc[q] = "done"}} \ {None}

HistoryInit == newest = 0 /\ floor = [r \in Request |-> 0] /\ lastUse = None

Record ==
  /\ newest' = CHOOSE v \in {newest} \cup Told' : \A w \in {newest} \cup Told' : w <= v
  /\ floor' = [r \in Request |->
                 CASE pc[r] = "idle" /\ pc'[r] # "idle" -> newest
                   [] pc'[r] = "idle" -> 0
                   [] OTHER -> floor[r]]
  /\ lastUse' = IF \E r \in Request : Uses(r) THEN now ELSE lastUse

HistorySpec == Init /\ HistoryInit /\ [][Next /\ Record]_hvars

\* Once a caller has been given release v, no call that arrives later is given
\* an older one: not from the cache, not by joining somebody's flight, and not
\* by a 304 that revalidates an older copy.  It takes a reliable upstream and
\* store and one flight key; the fallback path breaks it (StaleIsLastStored).
AnswersNeverRegress ==
  \A r \in Request :
    answer[r] # None /\ answer[r].body # None => floor[r] <= answer[r].body

\* main.go:83, "evict cache rows not used within their retention window": a row
\* that was used is kept.  The claim checked is weaker by TTL, because a fresh
\* hit does not touch cached_at, and takes an upstream that answers: serving a
\* row as the fallback does not touch cached_at either, so that in an outage
\* longer than the retention the sweep removes a row that is in use.
UsedRowsSurvive ==
  [][row # None /\ row' = None /\ lastUse # None =>
       lastUse < now - (Retention - TTL)]_hvars

=============================================================================
