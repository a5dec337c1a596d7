----------------------------- MODULE WeatherCache -----------------------------
(***************************************************************************)
(* The cache-first forecast lookup of internal/weather: concurrent calls   *)
(* of service.GetWeather, the flight group that deduplicates refreshes,    *)
(* the conditional fetch from api.met.no, the upsert into weather_cache    *)
(* and the retention sweep that main.go runs over the same table.          *)
(*                                                                         *)
(* Every variable is about ONE row of weather_cache: rows of different     *)
(* coordinates share nothing but the sweep, which treats each row alone.   *)
(* Key is the set of flight-group entries that lead to that row.  There is *)
(* one per API process and one per spelling of the coordinate: "-0.0000"   *)
(* and "0.0000" are two flight keys and a single NUMERIC row.              *)
(*                                                                         *)
(* A forecast is named by the number of the upstream release it came from. *)
(* Its Last-Modified value is that same number.  Clocks of the API and of  *)
(* the database are one clock, now.                                        *)
(***************************************************************************)
EXTENDS Integers, Sequences

CONSTANTS
  Request,     \* concurrent callers of GetWeather (handler goroutines)
  Key,         \* flight-group keys that lead to the row
  None,        \* a nil pointer: no entry, no time, no flight
  TTL,         \* lifetime api.met.no grants in Expires
  Retention,   \* weatherRetention of cmd/api/main.go
  Faults,      \* which calls may fail: "lookup", "fetch", "store"
  MaxTime,     \* bound on the clock
  MaxVersion   \* bound on the number of upstream releases

Leading == {"fetch", "store", "extend", "return"}
PC == {"idle", "lookup", "decide", "wait", "done"} \cup Leading
Time == Nat \cup {None}
Body == Nat \cup {None}

\* A row of weather_cache, and model.go's CachedWeather without its key.
Entry == [body : Nat, lm : Body, exp : Time, at : Time]
Source == {"cache", "stale-cache", "upstream", "unavailable", "internal", "invalid"}

\* What GetWeather returns: a WeatherResult, or an error named by its kind.
Answer == [source : Source, body : Body, exp : Time, at : Time]

ASSUME NoneAssumption ==
  /\ None \notin Nat
  /\ None \notin Request
  /\ None \notin Key
  /\ None \notin Entry
  /\ None \notin Answer
ASSUME TimesAssumption ==
  TTL \in Nat /\ Retention \in Nat /\ MaxTime \in Nat /\ MaxVersion \in Nat
ASSUME FaultsAssumption == Faults \subseteq {"lookup", "fetch", "store"}

VARIABLES
  now,       \* the wall clock
  since,     \* since[v]: when api.met.no released forecast v
  row,       \* the row, or None
  pc,        \* where each call stands
  key,       \* the flight key of each call's coordinate
  seen,      \* (cached, cacheErr): the entry a call read, None after an error
  entry,     \* the CachedWeather a leader is about to upsert
             \* (both are reset to None after their last use)
  answer,    \* what a call is going to return
  inflight   \* the flight group: the leader of each key, or None

world == <<now, since>>
vars == <<now, since, row, pc, key, seen, entry, answer, inflight>>

Version == Len(since)

Init ==
  /\ now = 0
  /\ since = <<0>>
  /\ row = None
  /\ pc = [r \in Request |-> "idle"]
  /\ key = [r \in Request |-> None]
  /\ seen = [r \in Request |-> None]
  /\ entry = [r \in Request |-> None]
  /\ answer = [r \in Request |-> None]
  /\ inflight = [k \in Key |-> None]

-----------------------------------------------------------------------------
(* Results *)

Failure(kind) == [source |-> kind, body |-> None, exp |-> None, at |-> None]
ServeEntry(e, exp, source) ==
  [source |-> source, body |-> e.body, exp |-> exp, at |-> e.at]
ServeUpstream(e) ==
  [source |-> "upstream", body |-> e.body, exp |-> e.exp, at |-> now]

\* Fresh while now is before ExpiresAt; an entry without one is never fresh.
Fresh(e) == e # None /\ e.exp # None /\ now < e.exp

-----------------------------------------------------------------------------
(* The caller's part of GetWeather, before the flight group *)

\* A coordinate that passes validation is normalised to its flight key.
Arrive(r, k) ==
  /\ pc[r] = "idle"
  /\ pc' = [pc EXCEPT ![r] = "lookup"]
  /\ key' = [key EXCEPT ![r] = k]
  /\ UNCHANGED <<world, row, seen, entry, answer, inflight>>

\* A coordinate out of range is refused before anything is read.
Reject(r) ==
  /\ pc[r] = "idle"
  /\ pc' = [pc EXCEPT ![r] = "done"]
  /\ answer' = [answer EXCEPT ![r] = Failure("invalid")]
  /\ UNCHANGED <<world, row, key, seen, entry, inflight>>

\* repo.Get under the caller's own context: a cancelled or failing read is a
\* non-nil cacheErr just as a miss is, and the call goes on either way.
Lookup(r) ==
  /\ pc[r] = "lookup"
  /\ \/ seen' = [seen EXCEPT ![r] = row]
     \/ "lookup" \in Faults /\ UNCHANGED seen
  /\ pc' = [pc EXCEPT ![r] = "decide"]
  /\ UNCHANGED <<world, row, key, entry, answer, inflight>>

\* A hit that is still fresh is served without touching the flight group.
ServeFresh(r) ==
  /\ pc[r] = "decide"
  /\ Fresh(seen[r])
  /\ answer' = [answer EXCEPT ![r] = ServeEntry(seen[r], seen[r].exp, "cache")]
  /\ seen' = [seen EXCEPT ![r] = None]
  /\ pc' = [pc EXCEPT ![r] = "done"]
  /\ UNCHANGED <<world, row, key, entry, inflight>>

\* Mutant: a refresh starts without asking whether one is in flight.
LeadMutant(r) ==
  /\ pc[r] = "decide"
  /\ ~Fresh(seen[r])
  /\ inflight' = [inflight EXCEPT ![key[r]] = r]
  /\ pc' = [pc EXCEPT ![r] = "fetch"]
  /\ UNCHANGED <<world, row, key, seen, entry, answer>>
\* refresh.Do with no call in flight for the key: this caller runs the refresh,
\* with the entry it read itself.
Lead(r) ==
  /\ pc[r] = "decide"
  /\ ~Fresh(seen[r])
  /\ inflight[key[r]] = None
  /\ inflight' = [inflight EXCEPT ![key[r]] = r]
  /\ pc' = [pc EXCEPT ![r] = "fetch"]
  /\ UNCHANGED <<world, row, key, seen, entry, answer>>

\* refresh.Do with a call in flight: the caller's own lookup is forgotten.
Join(r) ==
  /\ pc[r] = "decide"
  /\ ~Fresh(seen[r])
  /\ inflight[key[r]] # None
  /\ seen' = [seen EXCEPT ![r] = None]
  /\ pc' = [pc EXCEPT ![r] = "wait"]
  /\ UNCHANGED <<world, row, key, entry, answer, inflight>>

-----------------------------------------------------------------------------
(* The leader's part: fetchAndStore *)

\* Mutant: the date is read from the table again instead of the leader's entry.
ConditionalSinceMutant(r) == IF row # None THEN row.lm ELSE None
\* If-Modified-Since is sent only for an entry the leader holds.
ConditionalSince(r) == IF seen[r] # None THEN seen[r].lm ELSE None

\* Expires and Last-Modified may be absent or malformed: both parse to nil.
GrantedExpiry == {now + TTL, None}

\* 200 with a well-formed body; api.met.no need not honour If-Modified-Since.
FetchBody(r) ==
  /\ pc[r] = "fetch"
  /\ \E exp \in GrantedExpiry, lm \in {Version, None} :
       entry' = [entry EXCEPT ![r] =
                   [body |-> Version, lm |-> lm, exp |-> exp, at |-> None]]
  /\ seen' = [seen EXCEPT ![r] = None]
  /\ pc' = [pc EXCEPT ![r] = "store"]
  /\ UNCHANGED <<world, row, key, answer, inflight>>

\* 304: nothing was released since the date the leader sent.  The copy of the
\* leader's entry gets the new expiry, nil included, and keeps its CachedAt.
FetchNotModified(r) ==
  /\ pc[r] = "fetch"
  /\ ConditionalSince(r) # None
  /\ Version <= ConditionalSince(r)
  /\ IF seen[r] # None
     THEN /\ \E exp \in GrantedExpiry :
               entry' = [entry EXCEPT ![r] = [seen[r] EXCEPT !.exp = exp]]
          /\ pc' = [pc EXCEPT ![r] = "extend"]
          /\ UNCHANGED answer
     ELSE /\ answer' = [answer EXCEPT ![r] = Failure("internal")]
          /\ pc' = [pc EXCEPT ![r] = "return"]
          /\ UNCHANGED entry
  /\ seen' = [seen EXCEPT ![r] = None]
  /\ UNCHANGED <<world, row, key, inflight>>

\* Network error, timeout, 429, another status, an oversized or malformed body:
\* serve the entry the leader read, however old, or fail when it read none.
FetchFail(r) ==
  /\ pc[r] = "fetch"
  /\ "fetch" \in Faults
  /\ answer' = [answer EXCEPT ![r] =
                  IF seen[r] # None
                  THEN ServeEntry(seen[r], seen[r].exp, "stale-cache")
                  ELSE Failure("unavailable")]
  /\ seen' = [seen EXCEPT ![r] = None]
  /\ pc' = [pc EXCEPT ![r] = "return"]
  /\ UNCHANGED <<world, row, key, entry, inflight>>

\* Mutant: ON CONFLICT leaves cached_at as it was.
UpsertMutant(e) ==
  \/ row' = [e EXCEPT !.at = IF row # None THEN row.at ELSE now]
  \/ "store" \in Faults /\ UNCHANGED row
\* repo.Set: one upsert that stamps cached_at.  Its error is only logged, so a
\* write that failed after taking effect is the same step as a success.
Upsert(e) ==
  \/ row' = [e EXCEPT !.at = now]
  \/ "store" \in Faults /\ UNCHANGED row

\* The write and the answer after a 200.
Store(r) ==
  /\ pc[r] = "store"
  /\ Upsert(entry[r])
  /\ answer' = [answer EXCEPT ![r] = ServeUpstream(entry[r])]
  /\ entry' = [entry EXCEPT ![r] = None]
  /\ pc' = [pc EXCEPT ![r] = "return"]
  /\ UNCHANGED <<world, key, seen, inflight>>

\* Mutant: the 304 only touches expires_at of whatever the row holds by then.
ExtendMutant(r) ==
  /\ pc[r] = "extend"
  /\ row' = IF row = None THEN None ELSE [row EXCEPT !.exp = entry[r].exp, !.at = now]
  /\ answer' = [answer EXCEPT ![r] = ServeEntry(entry[r], entry[r].exp, "cache")]
  /\ entry' = [entry EXCEPT ![r] = None]
  /\ pc' = [pc EXCEPT ![r] = "return"]
  /\ UNCHANGED <<world, key, seen, inflight>>
\* The write and the answer after a 304.
Extend(r) ==
  /\ pc[r] = "extend"
  /\ Upsert(entry[r])
  /\ answer' = [answer EXCEPT ![r] = ServeEntry(entry[r], entry[r].exp, "cache")]
  /\ entry' = [entry EXCEPT ![r] = None]
  /\ pc' = [pc EXCEPT ![r] = "return"]
  /\ UNCHANGED <<world, key, seen, inflight>>

\* Those whose call of Do ends with the leader's.
Sharing(r) == {q \in Request : q = r \/ (pc[q] = "wait" /\ key[q] = key[r])}

\* Mutant: the callers that joined are woken without the result.
ReturnSilentMutant(r) ==
  /\ pc[r] = "return"
  /\ inflight' = [inflight EXCEPT ![key[r]] = None]
  /\ pc' = [q \in Request |-> IF q \in Sharing(r) THEN "done" ELSE pc[q]]
  /\ UNCHANGED <<world, row, key, seen, entry, answer>>
\* Mutant: when the refresh fails the callers that joined try again.
ReturnRetryMutant(r) ==
  LET again == IF answer[r].source = "unavailable" THEN Sharing(r) \ {r} ELSE {} IN
  /\ pc[r] = "return"
  /\ inflight' = [inflight EXCEPT ![key[r]] = None]
  /\ answer' = [q \in Request |-> IF q \in Sharing(r) \ again THEN answer[r] ELSE answer[q]]
  /\ pc' = [q \in Request |-> IF q \in again THEN "decide"
                             ELSE IF q \in Sharing(r) THEN "done" ELSE pc[q]]
  /\ UNCHANGED <<world, row, key, seen, entry>>
\* Mutant: the callers that joined are not woken.
ReturnMutant(r) ==
  /\ pc[r] = "return"
  /\ inflight' = [inflight EXCEPT ![key[r]] = None]
  /\ pc' = [pc EXCEPT ![r] = "done"]
  /\ UNCHANGED <<world, row, key, seen, entry, answer>>
\* The flight group forgets the key and hands one result to every caller.
Return(r) ==
  /\ pc[r] = "return"
  /\ inflight' = [inflight EXCEPT ![key[r]] = None]
  /\ answer' = [q \in Request |-> IF q \in Sharing(r) THEN answer[r] ELSE answer[q]]
  /\ pc' = [q \in Request |-> IF q \in Sharing(r) THEN "done" ELSE pc[q]]
  /\ UNCHANGED <<world, row, key, seen, entry>>

\* GetWeather has returned and the goroutine serves another request.
Reply(r) ==
  /\ pc[r] = "done"
  /\ pc' = [pc EXCEPT ![r] = "idle"]
  /\ key' = [key EXCEPT ![r] = None]
  /\ answer' = [answer EXCEPT ![r] = None]
  /\ UNCHANGED <<world, row, seen, entry, inflight>>

-----------------------------------------------------------------------------
(* The environment *)

\* The cleanup goroutine: at any tick, whatever the calls are doing.
DeleteStale ==
  /\ row # None
  /\ row.at < now - Retention
  /\ row' = None
  /\ UNCHANGED <<world, pc, key, seen, entry, answer, inflight>>

\* api.met.no releases a new forecast.
Publish ==
  /\ Version < MaxVersion
  /\ since' = Append(since, now)
  /\ UNCHANGED <<now, row, pc, key, seen, entry, answer, inflight>>

Tick ==
  /\ now < MaxTime
  /\ now' = now + 1
  /\ UNCHANGED <<since, row, pc, key, seen, entry, answer, inflight>>

Fetch(r) == FetchBody(r) \/ FetchNotModified(r) \/ FetchFail(r)
Decide(r) == ServeFresh(r) \/ Lead(r) \/ Join(r)
Progress(r) ==
  Lookup(r) \/ Decide(r) \/ Fetch(r) \/ Store(r) \/ Extend(r) \/ Return(r)
Caller(r) == (\E k \in Key : Arrive(r, k)) \/ Reject(r) \/ Progress(r) \/ Reply(r)

Next == (\E r \in Request : Caller(r)) \/ DeleteStale \/ Publish \/ Tick

Spec == Init /\ [][Next]_vars

\* A call that has arrived keeps moving: every database call and the fetch run
\* under a deadline (the request's, or refreshTimeout), so each one ends.
FairSpec == Spec /\ \A r \in Request : WF_vars(Progress(r))

-----------------------------------------------------------------------------
(* Properties *)

\* Every variable has its type; a call has an answer exactly from the moment
\* GetWeather's outcome is known, and an entry to upsert exactly while a leader
\* is about to write it.
TypeOK ==
  /\ now \in Nat
  /\ since \in Seq(Nat) /\ since # <<>>
  /\ row \in Entry \cup {None}
  /\ pc \in [Request -> PC]
  /\ key \in [Request -> Key \cup {None}]
  /\ seen \in [Request -> Entry \cup {None}]
  /\ entry \in [Request -> Entry \cup {None}]
  /\ answer \in [Request -> Answer \cup {None}]
  /\ inflight \in [Key -> Request \cup {None}]
  /\ \A r \in Request :
       /\ (answer[r] # None) <=> (pc[r] \in {"return", "done"})
       /\ (entry[r] # None) <=> (pc[r] \in {"store", "extend"})

\* "Concurrent requests for the same coordinate share a single upstream fetch"
\* (README.md:8): no two calls with one flight key are inside fetchAndStore.
OneFlightPerKey ==
  \A r, q \in Request :
    pc[r] \in Leading /\ pc[q] \in Leading /\ key[r] = key[q] => r = q

\* Nobody waits on a flight that is over: a joined caller always has a leader
\* at work on its key.
WaiterHasLeader ==
  \A r \in Request : pc[r] = "wait" =>
    \E q \in Request : inflight[key[r]] = q /\ pc[q] \in Leading /\ key[q] = key[r]

\* Release v was the newest one at time t.
Newest(v, t) ==
  /\ v \in 1..Version
  /\ since[v] <= t
  /\ v < Version => t <= since[v + 1]

\* Each body goes with the expiry granted to that body: what is answered as
\* fresh ("cache" or "upstream") until exp was the upstream's newest forecast
\* TTL before exp, so no client is told to keep a forecast longer than that.
FreshAnswersGranted ==
  \A r \in Request :
    answer[r] # None /\ answer[r].source \in {"cache", "upstream"} /\ answer[r].exp # None
      => Newest(answer[r].body, answer[r].exp - TTL)

\* service.go:117: a 304 with no entry to back it "should never happen".
NoUnbacked304 ==
  \A r \in Request : answer[r] # None => answer[r].source # "internal"

\* An upsert never replaces a forecast by an older release.  True of one flight
\* key only: two leaders may store in the opposite order of their fetches.
RowNeverRegresses == [][row # None /\ row' # None => row.body <= row'.body]_vars

\* The call whose steps bring r to its answer: its own, or its leader's.
Bearer(r) == IF pc[r] = "wait" THEN inflight[key[r]] ELSE r

\* How many steps of its bearer r is from its answer; beyond all, without one.
StepsLeft(r) ==
  IF Bearer(r) = None THEN 6
  ELSE CASE pc[Bearer(r)] \in {"idle", "done"} -> 0
         [] pc[Bearer(r)] = "return" -> 1
         [] pc[Bearer(r)] \in {"store", "extend"} -> 2
         [] pc[Bearer(r)] = "fetch" -> 3
         [] pc[Bearer(r)] = "decide" -> 4
         [] OTHER -> 5

\* The flight group takes every result for an answer, a failure included
\* (service.go:71): each step of a call or of its leader brings the call closer
\* to its answer, and nobody's step throws it back, so that five steps always
\* do.  No call has to go through a refresh twice.
NoCallStartsOver ==
  [][\A r \in Request : pc[r] \notin {"idle", "done"} =>
       /\ StepsLeft(r)' <= StepsLeft(r)
       /\ pc'[Bearer(r)] # pc[Bearer(r)] => StepsLeft(r)' < StepsLeft(r)]_vars

\* Every call that has arrived is answered, leader or follower, whatever fails.
EveryCallAnswered == \A r \in Request : pc[r] = "lookup" ~> pc[r] = "done"

=============================================================================
