# A verification project for skynapi

skynapi is a small weather service: a Go API that answers forecasts from
api.met.no, city searches from Postgres and place names from Nominatim, a web
page that talks to it, and the scripts that fill its database. This directory
holds TLA+ modules that model its core, TLC configurations that check them on
small instances, and proofs that TLAPS checks for every value of the constants.
Paths below are relative to the repository; line numbers refer to the commit
these files were written against.

## 1. Inventory

| Component | State | Operations | Talks to |
|---|---|---|---|
| Weather service, `internal/weather/service.go` | the singleflight group (one entry per coordinate key being refreshed); per call the cached entry it read | `GetWeather`, `fetchAndStore` | weather cache table, MET client, its handler |
| Weather cache table, `weather/pgx_repository.go`, migrations 002 and 008 | one row per coordinate rounded to 4 places: body, expires_at, last_modified, cached_at | `Get`, `Set` (upsert), `DeleteStale` | Postgres |
| MET client, `weather/met_client.go` | none | `Fetch`: conditional GET, 10 s timeout | api.met.no |
| Weather handler, `weather/handler.go` | none | status mapping, `Cache-Control`, weak `ETag`, 304 | browser and edge caches |
| Geocode service, `internal/geocode/service.go` | the singleflight group, keyed at 2 places | `Reverse` | geocode cache table, Nominatim client |
| Geocode cache table, `geocode/pgx_repository.go`, migration 006 | one row per rounded coordinate: place, cached_at | `Get`, `Set`, `DeleteStale` | Postgres |
| Nominatim client, `geocode/nominatim_client.go` | none | `Reverse`, label from the address | Nominatim |
| Server, `internal/server/server.go`, `clientip.go` | httprate's counters per address | middleware chain, `clientIP`, rate limit, timeouts, `/healthz`, `/readyz` | proxies in front, handlers |
| Process, `cmd/api/main.go` | two cleanup tickers, the pool, the HTTP server | start-up, `runCacheCleanup`, shutdown | everything above |
| City search, `internal/city` | none (read-only) | ranked, paginated query | Postgres |
| Configuration, `internal/config`, and `setupLogger` | none | defaults, then file, then environment; the level of the log | process |
| Pool, `internal/db` | pgxpool (library) | `NewPool` | Postgres |
| Web client, `caddy/html/index.html` | place, label, forecast, request version, timers | search, pick, geolocate, swipe, refresh | the API |
| Forecast and gesture modules, `forecast.mjs`, `swipe.mjs`, `landscape.mjs` | none or one gesture | pure functions, a recogniser | web client |
| Place import, `scripts/refresh_geonames.py`, migration 009, `Dockerfile.migrations`, `initdb` | dated rows of `city_search_places` | generated upserts re-applied at every deploy | Postgres |

How they interact. A request passes the proxies, `clientIP`, the limiter and a
20 s timeout, and reaches a handler that calls its service. Services read their
table under the request's context, then enter a singleflight group: the first
caller of a key (the leader) calls upstream and upserts under a context of its
own (15 s, detached from the request), and callers that arrive meanwhile
(followers) share what it returns. The cleanup goroutines delete rows by age
from the same tables, whatever the calls are doing. Two API processes share the
tables and nothing else.

### What is hard here

* **A value read before the flight group and used after it.** `GetWeather`
  reads the row at line 62 and hands it to whichever refresh it ends up leading:
  it decides the conditional date (90), is the fallback (101) and is what a 304
  writes back (109). Anything may have happened to the row in between: another
  flight, another process, the sweep.
* **Shared outcomes.** A follower's own lookup is discarded; it gets the
  leader's result, failure included.
* **Two flight keys for one row.** Each process has its own group, and within one
  process a tiny negative coordinate prints as `-0.0000`, a key of its own for
  the row of `0.0000`.
* **The upsert is unconditional.** Two writers may store in the opposite order of
  their fetches, and a write may fail after the caller has its answer.
* **Ages and expiries.** `expires_at` decides freshness, `cached_at` decides
  eviction, and only an upsert moves either.
* **Forgeable headers.** The limiter's account is found by counting hops from the
  right of a list whose left end the client writes.
* **Asynchrony in the page.** Replies, the geolocation callback and the timers of
  failed requests come in any order, and two kinds of late reply write what the
  next visit opens with.
* **Timeouts that add up.** A handler's 20 s and a refresh's 15 s follow each
  other, under a write deadline of 30 s and a shutdown of 10 s.
* **A pool that empties.** Handlers and the sweep share the connections, a hung
  query holds one, and `pool.Close` waits for all of them.
* **Two caches in a row.** Browsers reuse a forecast unasked for as long as
  `Cache-Control` says, renew it by a 304, and count its age from a moment the
  server does not know.
* **Migrations that run again.** Every deployment applies every file again, over
  rows that were refreshed, edited or imported since, and may break off between
  two files.

### What makes each component correct

* Weather lookup: one refresh per key at a time; every call is answered; what is
  served as fresh was granted that expiry; a 304 always has an entry behind it;
  the row does not go back to an older release; later callers do not see older
  forecasts than earlier ones; rows in use are not evicted.
* Geocode lookup: the same for the flight; the name handed out is the name
  stored.
* Request cap: nobody exceeds it by inventing headers, nobody is refused on
  another's account.
* Weather handler: no browser's cache outlives `Expires`; a 304 to a browser is
  sent only for the body it holds; the fallback of an outage, and a forecast without
  an expiry, is not reused unasked.
* Process: it comes up with the settings asked for or not at all; answers that need no
  refresh come before the write deadline; tables stay bounded while sweeps succeed; shutdown
  ends whatever hangs, and its exit code is honest.
* City search: ranking, page and total are consistent, and pages neither overlap
  nor leave a gap.
* Web client: the place remembered is the place drawn; a late reply never replaces
  a later one; no second current-location request; no endless spinner.
* Forecast processing (planned): each hour's rain is counted once.
* Place import: whatever was broken off and applied again, a completed deployment
  leaves the newest version of every row.

## 2. Modules

| Module | What it is |
|---|---|
| `WeatherCache` | `GetWeather`, `fetchAndStore`, the flight group, the table and the sweep |
| `ForecastService` | what `weather.Service` promises its callers, without any of these |
| `ForecastRefinement` | the mapping under which `WeatherCache` implements `ForecastService` |
| `WeatherHandler` | the HTTP handler over `ForecastService`, and browsers' caches in front of it |
| `WeatherHistory` | `WeatherCache` with what callers were told and when the row was used |
| `WeatherClaims` | a statement of the documents about it that some interleaving breaks |
| `Geocode` | `Reverse`, its flight group, its table and the sweep |
| `Config` | `config.Load` as an operator on a file and an environment |
| `Process` | `main.go`: boot, deadlines, pool, sweep, shutdown and restart, using `Config` |
| `RateLimit` | proxies, `clientIP` and the limiter |
| `CitySearch` | `GET /v1/cities`, and the migrations its table comes from |
| `WebClient` | the place shown by the web page |
| `*Proofs` | theorems about `WeatherCache` with its refinement, `WeatherHandler`, `WeatherHistory`, `Geocode`, `Process`, `RateLimit`, `CitySearch`, `WebClient` |
| `MC*` | instances and symmetry sets for TLC |

`WeatherHandler` stands on the abstract service and not on `WeatherCache`: the
refinement makes what holds of the one hold of the other, and each state space
stays small enough to be explored.

Operators whose name ends in `Mutant` stand beside the definition they vary and
are used by no specification. Each is a plausible bug: putting it in the place of
the original makes the property listed with it in `PROJECT.json` fail.

### WeatherCache

One row of `weather_cache` is modelled: rows of different coordinates share only
the sweep, which treats each row alone. `Key` is the set of flight keys that lead
to that row, one for each process and each spelling of the coordinate.

| Variable | Code |
|---|---|
| `now` | the clock; the API's and the database's are one |
| `since` | when api.met.no released each forecast; a forecast is named by its number, which is also its Last-Modified |
| `row` | the row: `body`, `lm` (last_modified), `exp` (expires_at), `at` (cached_at), or `None` |
| `pc`, `key` | where a call stands, and the key of line 70 |
| `seen` | `cached, cacheErr`: the entry, or `None` for a miss and for an error alike, as the code tests only `cacheErr == nil` |
| `entry` | the `CachedWeather` about to be upserted |
| `answer` | the `WeatherResult` or error the call will return |
| `inflight` | `s.refresh`, the leader of each key |

The actions follow the code from top to bottom. `Reject` and `Arrive` are the
validation and normalisation (55-60, 70), `Lookup` is `repo.Get` (62),
`ServeFresh` the early return (65-68), `Lead` and `Join` the two outcomes of
entering `refresh.Do` (71). A leader goes on with one of `FetchBody`,
`FetchNotModified` and `FetchFail` (94-120 with `met_client.go` 41-111), then
`Store` (122-134) or `Extend` (109-115), both of which contain the upsert, then
`Return`, where `Do` forgets the key and gives the result to the leader and all
followers. `Reply` frees the goroutine. `DeleteStale` is the sweep, `Publish` and
`Tick` the environment. The steps are cut where another actor can get in: at each
database call, at the upstream call and at the flight group.

Abstractions. A local variable is reset after its last use. Expires and
Last-Modified may each be absent or unparsable (`None`); an Expires that is there
is `TTL` after the answer. A 200 may come although a date was sent; a 304 comes
only when nothing was released since that date. A failed `Set` either took effect
or never will, both of which are steps of `Upsert`. Every reason for a failed
fetch (network, timeout, 429, other status, size, malformed JSON) has the same
effect and is one step. The text of keys, dates and bodies is not modelled.

### ForecastService and ForecastRefinement

A call is `Ask`ed and later told: `Tell(S)` gives one result to any set of calls
that are waiting. The result is a release with an expiry granted to that very
release (or none), stored after its release; or the fallback, which differs in
that its time is up; or "unavailable". Which release, how old, and whether a
lookup, a flight or a 304 brought it is left open, as is how often "unavailable"
may be said: README.md:174 says 503 comes only when the cache is empty and the
upstream is down, but a leader whose own lookup missed or failed refuses for
everybody who joined, some of whom read an entry that would have done.
`ForecastRefinement` hides everything but the clock, the releases and the calls'
outcomes. A step of `WeatherCache` is a `Refuse` (`Reject`), a `Tell` (`ServeFresh`
for one call, `Return` for a flight), an `Ask`, a `Take`, or a stutter.

### WeatherHandler

`RespondTo` is `getWeather` after the service has answered (`handler.go` 53-98):
status, `Cache-Control` (`MaxAge`: whole seconds left, no-cache when none) and the
ETag, which stands for its body. `Get`, `GetMalformed` and `Respond` are the ends of
a request on the server, with requests whose browser has gone. `Receive`, `Evict`
and `Lose` are external: a browser's HTTP cache as RFC 9111 has it, one request per
browser at a time, the copy's age counted from the request. The clock has
`Second` ticks to the second, so that rounding to seconds can be wrong. A reply and a
copy also remember whether the service had an expiry to give (`dated`), which is not
sent and is there for `StaleAsksAgain`. Shared
caches in front (the Caddyfile sets none up) and clients that send a list or `*` as
If-None-Match are left out.

### Config and Process

`Load` composes the three layers; one number, one text, one list and the level of the
log stand for the settings of each kind. `Plain` is what trimming and lower-casing makes
of the environment's level, and `LogLevel` is `setupLogger`, which takes a text that names
no level, the empty one included, for "info": `config.go:70` promises a failed boot for
malformed numbers only, and so does `BootsAsWanted`. `Wanted` says independently what an operator means: the first
layer that gives the setting. `Process` follows `run()`: `Start` to `Listen` and their
failures, `Signal`, `Shutdown` (`Drained`, `DrainTimedOut`), the deferred calls
(`Unwind`), `pool.Close` and the exit code, `Kill` at any time, and the next start,
which finds the table as it was. `open` says that there may be connections the server
accepted. As long as there are, requests begin: while `Shutdown` waits, on a connection
that was new, and after an error, until the process ends. `Drained` is the end of the last
of them, since `Shutdown` closes the idle ones. A request has a deadline (`left`), an age, and a
connection or not; a forecast that needs a refresh goes on under
`refreshTimeout`, detached. The sweep waits for its tick, for a connection and
for the database, in which it may hang. Time is counted by timers that run down, and
`Tick` may not pass a deadline. Of the two sweeps one is followed; of the flight
group, which `WeatherCache` models, nothing; a `row` is only its age.

### CitySearch

A place's row is its modification date and its rank for the one query followed.
`Listings` are the orders in which Postgres may return the matches, `Select` the
statement with its window count, `Offset` the product that wraps at the width of
an int, `Search` service and handler on top of it. `Deploy`, `Apply`, `ApplyFail` are the
runner of the migrations image (`Dockerfile.migrations:6`, which the hosted stack starts
at each deployment), one migration and transaction at a time, and ending early on one
that fails or that is a Git LFS pointer. `initdb/010-run-migrations.sh` is the same loop
without the test for pointers, run once on a fresh volume. `Upsert` is what
`refresh_geonames.py` generates. The first migrations are taken to find their work done;
`000`, a pointer in this repository, could not be read for it. `local` remembers versions that no refresh wrote,
for the property only. A reader goes from page to page by what each answer says.

### Geocode

The same shape with a simpler row. `Hit` serves a stored name whatever its age,
`Miss` is a lookup that found nothing or failed, and there is no fallback. The
upstream name changes over time (`Rename`). How a label is built from an address
is not modelled; an address without one is a failed lookup.

### RateLimit

`Send` is a client with any `X-Forwarded-For` of at most `MaxForged` hops,
`Forward` a proxy that appends the address it saw, and `ForwardedFor` and
`ClientIP` are `clientip.go` 34-65 and 23-32. The header is the flattened list of
hops without blanks; a hop is an address or junk that `net.ParseIP` refuses. An
address stands for what `httprate.CanonicalizeIP` makes of it, an IPv4 address or
an IPv6 /64. A TCP peer is an address and a port, and the port is kept, because
dropping it would be up to a library that is not in the repository. The limiter
itself is external: a counter for this minute and the last, the last one weighed
by a share that the model leaves open.

### WebClient

The page's handlers are atomic, as JavaScript's are; the order in which replies,
callbacks, timers and clicks come is free. `ver` is `weatherVer`, `calls` the
forecast requests in flight with the callbacks each carries (`from`, `before`),
`lookups` the name lookups, `timers` the 2.5 s timers of failed requests, `label`
is `locTxt`, `saved` localStorage, `shown` whether `app` or `loading` is displayed.
`drawn` is the place whose forecast `render` drew last; `drawnBy`, the version that
drew it, is not in the code and is there for `DrawnNeverGoesBack`. `Open` is
`initLocation`, `Pick` the click on a search result, `AskCurrent` the
current-location button, `Located` and `NotLocated` the geolocation callbacks,
`ForecastReply`, `ForecastFail` and `TakeDown` the three endings of
`fetchWeather`, `LookupReply` and `LookupFail` those of `reverseGeocode`. `Reload`
keeps `saved` and nothing else. A label is the place it names, "—" is `None`. The
overlay can be opened by Ctrl-K over anything, so a pick is possible at any time;
the current-location button is part of `app`. Storage that refuses writes, several
tabs, and a `render` that throws halfway are left out.

## 3. What the runs check

| Run | Result | What it shows |
|---|---|---|
| `WeatherOneKey` | passes | `TypeOK`, `OneFlightPerKey`, `WaiterHasLeader`, `NoUnbacked304`, `RowNeverRegresses`, `NoCallStartsOver` and `EveryCallAnswered`, for callers of one key, with every call failing at will, the sweep and a new release |
| `WeatherTwoKeys` | passes | `FreshAnswersGranted` and `Implements`: with two keys racing on the row and every call failing at will, an expiry is only ever served with the body it was granted to, and the lookup keeps the service's promise |
| `WeatherHistory` | passes | `AnswersNeverRegress` and `UsedRowsSurvive` while upstream and writes work, with lookups that may fail |
| `WeatherStaleSnapshot` | refuted | README.md:187: "`stale-cache` means ... this is the last forecast we stored" |
| `WeatherHandler` | passes | `TypeOK`, `ReuseEndsWithGrant`, `NotModifiedHasBody`, `StaleAsksAgain`, over any behaviour of the service, with delays, lost connections and evictions |
| `Geocode` | passes | `TypeOK`, `OneLookupPerKey`, `SharedNameIsStored` and `EveryCallAnswered` |
| `Process` | passes | `TypeOK`, `BootsAsWanted`, `AnsweredInTime`, `WorkEnds`, `ZeroMeansDrained`, `StaleRowsSwept` and `StopsWhateverHangs`, with signals, kills, restarts, failures and a database that may never answer |
| `Deadline` | refuted | server.go:17-19: the handler's limit sits below the write timeout "so a slow dependency surfaces as a 503 rather than a dropped connection" |
| `RateLimit` | passes | `CapHolds`, `RefusedOnOwnAccount` |
| `CitySearch` | passes | `TypeOK`, `DeployedIsNewest`, `PagesShowEachOnce`, `PageHoldsItsMatches`, with deployments broken off and repeated and rows edited in between |
| `WebClient` | passes | `TypeOK`, `SavedIsDrawn`, `ButtonOffWhileLocating`, `SpinnerHasCause`, `DrawnNeverGoesBack`, `PageComesBack`, with picks, geolocation, replies in any order, failures, timers and a reload |
| `WebLabel` | refuted | index.html:1055: "keep the coordinate label if reverse lookup fails" |

The refuted statements are listed as findings. A leader whose own lookup precedes
another flight's upsert falls back to an older forecast than the table holds: a
narrow window. (The same window lets a caller fetch once more than README.md:176
says, and two spellings of one coordinate are two keys, so that both may fetch at
once.) A lookup that takes its 20 s and a refresh that takes its 15 s end 35 s
after the request, and what the handler then writes is lost: it takes a database
that hangs and an upstream that is slow at the same time. In the page no race is needed:
pick a city, go to the current location, and let the name lookup fail, and the
forecast of the current location stays under the city's name.

The passing properties have limits that are the code's and not the models'.

* `RowNeverRegresses` and `SharedNameIsStored` take one flight key: with two, the
  unconditional upsert lets the later store of the earlier fetch win.
* `AnswersNeverRegress` takes an upstream and a store that work: the fallback serves
  what the leader happened to read.
* `UsedRowsSurvive` takes an upstream that works: serving the fallback does not
  touch `cached_at`, so that an outage longer than the retention removes rows in
  use. Names (`geocode`) have no such property: a hit never moves `cached_at`, so a
  name in daily use is looked up again every 90 days.
* `AnsweredInTime` is about the lookup stage, before a refresh (see `Deadline`). With the
  refresh `WorkEnds` bounds a request by the sum of the two limits, 35 s, which is more
  than the write deadline.
* `ZeroMeansDrained` is about handlers at work, not about what was heard: an answer
  written after the write deadline is lost whatever the exit code says (see `Deadline`).
* `StaleRowsSwept` speaks of a process that has swept: the first sweep comes 6 h after
  start, and a process restarted more often never sweeps.
* `Implements` lets the service say "unavailable" at any time, so that the 503 a
  follower gets from a leader whose own lookup missed (`service.go:103`) is permitted:
  README.md:174 says otherwise, as told above.
* In the page, a geolocation callback overrides a city picked meanwhile, and the timer of
  a failed request shows the page while a later one is loading, although
  `index.html:1297` says that only the latest call may update the UI. The model does both
  and no property forbids them: `SavedIsDrawn` and `PageComesBack` hold all the same.
* `PageHoldsItsMatches` takes an offset that fits an int. Beyond it the product
  wraps, to an error or to an earlier page; and a page past the last match says that
  the total is 0.
* `DeployedIsNewest` is about a completed deployment: while one is under way, or after
  one that broke off, a row may hold the earlier of two versions of equal date.

### Bounds

| Constant | Values | Why that is enough |
|---|---|---|
| `Request` | 2 or 3 callers; 1 browser | a leader, and a follower or one whose lookup predates the flight it enters; a goroutine serves one request after another. Browsers meet only in the service, whose promise does not depend on other calls, so one is enough |
| `Key` | 1 or 2 | two are needed for two leaders to race on the row |
| `MaxVersion` | 2 releases | an older and a newer one; the properties compare pairs |
| `MaxTime`, `TTL`, `Retention` | time to 3, lifetimes 1 or 2 | an entry can expire, be extended, expire again and be evicted |
| `Second`, with `TTL` 3 and `MaxTime` 6 | 2 ticks | half a second is lost by truncation and would be won by rounding up |
| `Faults` | the calls that may fail | all three in `WeatherOneKey` and `WeatherTwoKeys`; fewer where the property needs a working call |
| `Name` | 2 names | a rename during a lookup |
| deadlines of `Process.cfg` | handler 2, write 3, others 1, interval 2 | scaled: the order that the properties depend on is kept, and the proofs cover every value |
| deadlines of `Deadline.cfg` | handler 4, write 6, fetch 2, refresh 3, drain 2 | the code's own, in units of 5 s (the probe's 2 s count as one) |
| `MaxConns` | 1 | a pool that a single hung query exhausts |
| `File`, `Env` | 4 files, 48 environments | missing, broken, and setting different keys; malformed, blank-containing and absent overrides; a level with spaces and capitals, a blank one, one that is none |
| `Place`, `Version`, `Refresh` | 3 places, 2 refreshes | equal and different dates and ranks, no date, a row only the second file has |
| `MaxInt`, `MaxLimit`, `MaxCounted` | 7, 3, 2 | pages whose offset wraps, a limit above the number of matches, a total that saturates |
| `City`, `Position`, `MaxCalls`, `MaxReloads` | 2, 1, 4, 1 | two picks and two current-location requests overlapping; what a reload opens with; version numbers start over |
| `Client`, `Proxy`, `Port`, `Limit`, `MaxForged` | 2, 2, 2, 2, 1 | one client trying the other's address, more forged hops are covered by the proof |

Deadlock is checked in every run. Symmetry over callers, keys or names is used
where no liveness property is checked.

### Fairness

In `WeatherCache` and `Geocode` `FairSpec` asks weak fairness of each caller's
`Progress` steps and of nothing else. The code justifies it: a database read runs
under the request's context, which `middleware.Timeout` ends after 20 s; the
upstream call and the write run under `refreshTimeout` (15 s); both then return,
and the Go scheduler runs every runnable goroutine. When the database or the
upstream never answers, the deadline is the step (`Lookup` or `FetchFail` as a
failure). Arrivals, releases, the clock and the sweep are not fair.

`Process` asks it of the clock, of what a deadline ends (`Expire`), of a sweep whose
context was cancelled, and of main's own steps at the end (`Closing`). It is not asked
of any answer of Postgres or an upstream, nor of the sweep's query, which has no
deadline: `StopsWhateverHangs` holds although it never ends by itself.

`WebClient` asks weak fairness of the script's start, of each forecast request
(the server's 30 s write timeout, or the network, ends it), of each timer, and of
the geolocation callback: it has a timeout of 10 s, which starts when the viewer
has answered the prompt, so the assumption is that the prompt is answered. Clicks
and name lookups are not fair.

## 4. What is proved

TLAPS proves, for every value of the constants:

| Theorem | Statement | Beyond the constants' assumptions |
|---|---|---|
| `WeatherCacheProofs!TypeCorrect` | `Spec => []TypeOK` | |
| `WeatherCacheProofs!OneFlight` | `Spec => []OneFlightPerKey` | |
| `WeatherCacheProofs!NoOrphan` | `Spec => []WaiterHasLeader` | |
| `WeatherCacheProofs!FreshAnswersAreGranted` | `Spec => []FreshAnswersGranted` | |
| `WeatherCacheProofs!No304WithoutEntry` | `Spec => []NoUnbacked304` | |
| `WeatherCacheProofs!RowMovesForward` | `Spec => RowNeverRegresses` | one key (`SingleKey`) |
| `WeatherCacheProofs!CallsMoveOn` | `Spec => NoCallStartsOver` | |
| `WeatherCacheProofs!ForecastRefines` | `Spec => Implements` | |
| `WeatherHistoryProofs!AnswersMoveForward` | `HistorySpec => []AnswersNeverRegress` | one key, and only lookups fail (`Orderly`) |
| `WeatherHistoryProofs!SweepSparesUsedRows` | `HistorySpec => UsedRowsSurvive` | the upstream answers (`Reliable`) |
| `WeatherHandlerProofs!TypeCorrect`, `NoReusePastGrant`, `NotModifiedSafe`, `StaleNotReused` | `Spec => []` of `TypeOK`, `ReuseEndsWithGrant`, `NotModifiedHasBody`, `StaleAsksAgain` | |
| `GeocodeProofs!TypeCorrect`, `OneLookup` | as for the forecast | |
| `GeocodeProofs!SharedNameAlwaysStored` | `Spec => []SharedNameIsStored` | one key and writes that do not fail (`SoleWriter`) |
| `ProcessProofs!TypeCorrect`, `BootsAsAsked`, `AnswersInTime`, `WorkIsBounded`, `ZeroIsDrained`, `RowsAreSwept` | `Spec => []` of `TypeOK`, `BootsAsWanted`, `AnsweredInTime`, `WorkEnds`, `ZeroMeansDrained`, `StaleRowsSwept` | |
| `RateLimitProofs!CapAlwaysHolds`, `RefusalsAreOwn` | `Spec => []CapHolds`, `Spec => RefusedOnOwnAccount` | as many proxies as configured, at least one (`Configured`) |
| `CitySearchProofs!OneListing` | every table has exactly one listing of its matches | |
| `CitySearchProofs!TypeCorrect`, `PagesHold`, `PagesShow`, `DeployedNewest` | `Spec => []` of `TypeOK`, `PageHoldsItsMatches`, `PagesShowEachOnce`, `DeployedIsNewest` | |
| `WebClientProofs!TypeCorrect`, `SavedMatchesScreen`, `ButtonMatchesRequest`, `SpinnerIsAccountedFor` | `Spec => []` of `TypeOK`, `SavedIsDrawn`, `ButtonOffWhileLocating`, `SpinnerHasCause` | |
| `WebClientProofs!ScreenMovesForward` | `Spec => DrawnNeverGoesBack` | |

The constants' assumptions say that `None` is none of the other values, that times
and bounds are naturals (in `Process` also that the handler's limit is below the
write deadline, the probe's and the fetch's below the limits around them), that
`Faults` names calls, that every built-in setting has a value, and that an
environment gives text to the settings it gives, for the level one that `Plain` tidies. In `CitySearch` places are
numbers and finitely many, fewer than `MaxInt` (an int has 64 bits); versions are typed,
and those of a refresh have a date, which `refresh_geonames.py` sees to.

**Forecast lookup.** `TypeOK` is inductive by itself. The flight properties
are not: that two calls of one key are never both leading follows only because
each leader is the one registered under its key and each registered call leads.
`FlightInv` is that correspondence (`LeaderRegistered`, `RegisteredLeads`,
`KeyKnown`), and both `OneFlightPerKey` and `WaiterHasLeader` follow from it.
`FreshAnswersGranted` speaks of answers, whose body and expiry have travelled
through the table, a call's local copy and an entry about to be written, so
`GrantInv` says of each of these places that its expiry was granted to its body
(`EntriesGenuine`, `AnswerBacked`) and that releases lie in the past
(`PastReleases`); a 304 preserves it because the entry revalidated is the very one
whose date was sent, and nothing was released since. `RowMovesForward` adds what
one key buys: only the registered leader writes, so what it holds is at least as
new as the row (`StoresForward`).

**The way to an answer.** `FlightInv` also gives each call in progress one bearer of its
fate: itself, or while it waits the leader registered under its key. `StepsLeft` counts
the stages between the bearer and the answer, and `CallsMoveOn` says that every step
of the bearer lowers the count and nobody else's raises it (`OnwardNearer`,
`NearerStep`). It is the part of `EveryCallAnswered` that needs no fairness.

**Refinement.** On top of these, `KeptInv` says of the row, of every copy and of
every answer that it was stored after its release, and that a leader only ever holds an
entry whose time is up, which makes the fallback's expiry one that has passed. What may
be told is shown to remain so (`KeptIsPromised`), and `StepRefines` maps each step.

**History.** The history variables only watch (`HistoryHidden`), so all of the above
holds of `HistorySpec`. `AnswersMoveForward` needs an upper bound for everything at
once: `AtMost(v)` says that nothing told, stored, read or determined is newer than
`v`, and `ToldInv` that it holds of the row, of an entry about to be written and of a
result about to be handed out. Copies keep it (`AtMostStable`), and an upsert makes
the row such a bound again (`UpsertStep`), because with one key nobody else leads. A
call that read the row thus has what was told before it arrived, and so has one that joins a flight.
`SweepSparesUsedRows` needs that copies are no younger than the row and that
nothing is fresh longer than TTL after it was stamped (`UseInv`), and that with an
upstream that answers every use is a fresh hit (`UseIsFreshHit`).

**Handler.** `Within` bounds how long a body may be reused by the end of its reign
and TTL, and by now if it is `Spent`, the fallback of an outage or without an expiry.
`Coherent` carries it from the service's answer through the response
to the copy. The tag of a request under way is the tag of the copy, since a copy
is neither evicted nor replaced meanwhile: that is why a 304 finds its body. The
arithmetic is `WholeSeconds`: truncation never adds.

**Process.** A handler's age and what is left of its time add up to the budget of
its stage at most (`WorkBounded`): `HandlerTimeout` in the lookup, with the fetch's limit
on top in the fetch and with the whole refresh's in the store, where a fetch that ended
early leaves its time to the write. `AnsweredInTime` is the first budget, `WorkEnds` the
last. Exit code 0 is only decided with no
handler at work and no connection left on which one could begin (`ZeroInv`). A row that a successful sweep, or
one under way, has judged young ages no further than to the next tick (`RowsYoung`).
`LoadIsWanted` compares `Load`, layer by layer, with the first layer that gives a
setting.

**Rate limit.** The proof rests on a lemma about headers: behind as many proxies as
configured the hop that `ForwardedFor` selects is the one the outermost proxy
appended, the client's own address, whatever the length of the list. Each client
is then alone on its account, and the account's counts are the client's.

**City search.** `Before` is a strict total order of the matches (`BeforeOrders`), so a
match's rank, the number of matches before it, is a bijection onto the positions
(`RankOrders`, `RankIsTaken`): `OneListing`. Pages cut from one and the same listing
fit together, which `PagerInv` says of a reader in its midst, and `PagesHold` computes for
a single answer. That the offset wraps only beyond what the property speaks of is
`WrapFits`. For deployments `RowInv` says which versions a row may hold while files are
applied, in whatever order deployments broke off: some version `j` that was really given
to it and that is not older than any given in the reach of the deployment so far
(`Reach`), or none if nothing was given. It may come from a later file, of an earlier deployment, and only at the end,
when every file is in reach, is it the newest.

**Page.** `SavedIsDrawn` needs `LookupsBelong`: a name is looked up only after
its forecast was drawn, and as long as its version is the latest that forecast is
still the one drawn. `ButtonOffWhileLocating` needs that there is one
current-location request at most, or the first of two to end would give the button
back too early. `SpinnerHasCause` is inductive by itself: who puts the spinner up leaves a
request or the geolocation behind, and what ends without taking it down starts a timer
or is superseded by a later request. It is the part of `PageComesBack` that needs no
fairness.

Only model-checked: liveness (both `EveryCallAnswered`, `StopsWhateverHangs`,
`PageComesBack`), which is out of the prover's reach. Every other property of a passing
run is the statement of a theorem.

## 5. What is not modelled, and the plan

Left out for good: logging, JSON and HTML formatting, routing and CORS, the parsing
of GeoNames archives, table definitions, the API description, and the scenery of
the page (`landscape.mjs`), which keep no state that matters; the geocode handler,
which maps three outcomes to status codes; how a label is put together from an
address. The text of coordinates is not modelled: that `-0.0000` and `0.0000` are
two keys of one row is represented by `Key`.

Left to do, in this order:

1. The search box of the page (debounce, abort, results of an earlier query over a
   later text, `index.html` 1149-1294), and the selected day (cards, swipes).
2. Pure functions of the page against reference definitions: the rain accounting of
   `forecast.mjs` on days that change the clock, and the swipe recogniser.
3. The rounding of coordinates with its minus zero, tying `Key` to text.

## 6. Running

    tlc -config WeatherOneKey.cfg MCWeatherCache.tla
    tlapm WeatherCacheProofs.tla

`PROJECT.json` lists every run with its module, every theorem, the source lines of
every definition, and the hazards with the properties that watch over them. The
largest runs have about two million states and take one to two minutes each.
