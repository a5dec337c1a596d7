---------------------------- MODULE WeatherHandler ----------------------------
(***************************************************************************)
(* GET /v1/weather: the HTTP handler of internal/weather in front of the   *)
(* forecast service, and behind the HTTP cache that every browser puts     *)
(* between its page and the network.  The service is the abstract one, so  *)
(* that what holds here holds of whatever implements it.                   *)
(*                                                                         *)
(* A body stands for its ETag: weakETag hashes the bytes.  The clock is    *)
(* finer than the seconds of max-age: Second of its ticks are one second.  *)
(***************************************************************************)
EXTENDS ForecastService

CONSTANT Second
ASSUME SecondAssumption == Second \in Nat \ {0}

VARIABLES
  exchange,  \* each browser's request under way: [tag, at], or None
  reply,     \* the response on its way back, or None
  copy       \* the response its HTTP cache holds, or None

web == <<exchange, reply, copy>>
vars == <<service, web>>

Body == Nat \cup {None}
Time == Nat \cup {None}
Status == {200, 304, 422, 500, 503}
Source == {"cache", "stale-cache", "upstream", "unavailable", "invalid", "internal", "none"}
Result == [source : Source, body : Body, exp : Time, at : Time]
Exchange == [tag : Body, at : Nat]
\* dated is not sent: the service had an expiry for what it answered.
Reply == [status : Status, body : Body, age : Nat, source : Source, dated : BOOLEAN]
Copy == [body : Nat, until : Nat, source : Source, dated : BOOLEAN]

ASSUME WebAssumption ==
  None \notin Result /\ None \notin Exchange /\ None \notin Reply /\ None \notin Copy

Init ==
  /\ ServiceInit
  /\ exchange = [r \in Request |-> None]
  /\ reply = [r \in Request |-> None]
  /\ copy = [r \in Request |-> None]

-----------------------------------------------------------------------------
(* The handler *)

\* Mutant: the time left is rounded up to the next second.
MaxAgeMutant(exp) ==
  IF exp # None /\ exp > now THEN Second * ((exp - now + Second - 1) \div Second) ELSE 0
\* Cache-Control: the whole seconds left until the expiry, computed when the
\* answer is written.  No expiry or one in the past is no-cache, which asks the
\* browser the same as a max-age of 0: not to reuse the copy unasked.
MaxAge(exp) == IF exp # None /\ exp > now THEN Second * ((exp - now) \div Second) ELSE 0

\* Mutant: any If-None-Match is taken for a match.
MatchesETagMutant(tag, body) == tag # None
\* If-None-Match names the body.  Browsers send the one tag they hold, never
\* a list or "*".
MatchesETag(tag, body) == tag = body

Failed(status) == 
  [status |-> status, body |-> None, age |-> 0, source |-> "none", dated |-> FALSE]

\* Mutant: a cached answer without an expiry is good for a second.
RespondToMutant(tag, a) ==
  CASE a.source = "invalid" -> Failed(422)
    [] a.source = "unavailable" -> Failed(503)
    [] a.source = "internal" -> Failed(500)
    [] OTHER ->
         [status |-> IF MatchesETag(tag, a.body) THEN 304 ELSE 200, body |-> a.body,
          age |-> IF a.exp = None THEN Second ELSE MaxAge(a.exp), source |-> a.source,
          dated |-> a.exp # None]
\* getWeather after the service has answered.  A 304 carries the same headers
\* as a 200; body stands for the ETag there.
RespondTo(tag, a) ==
  CASE a.source = "invalid" -> Failed(422)
    [] a.source = "unavailable" -> Failed(503)
    [] a.source = "internal" -> Failed(500)
    [] OTHER ->
         [status |-> IF MatchesETag(tag, a.body) THEN 304 ELSE 200,
          body |-> a.body, age |-> MaxAge(a.exp), source |-> a.source,
          dated |-> a.exp # None]

\* A request of a browser that has none under way and no copy it may reuse: with
\* the tag of the copy it has.
Sends(r) ==
  /\ exchange[r] = None
  /\ copy[r] # None => copy[r].until <= now
  /\ exchange' = [exchange EXCEPT ![r] =
       [tag |-> IF copy[r] # None THEN copy[r].body ELSE None, at |-> now]]

\* Both coordinates parse: the service is asked, or finds them out of range.
Get(r) ==
  /\ Sends(r)
  /\ Ask(r) \/ Refuse(r)
  /\ UNCHANGED <<reply, copy>>

\* A coordinate is missing or not a number: the service is not asked.
GetMalformed(r) ==
  /\ Sends(r) /\ call[r] = "idle"
  /\ reply' = [reply EXCEPT ![r] = Failed(422)]
  /\ UNCHANGED <<service, copy>>

\* The service has answered; the response of a connection that is gone goes
\* nowhere.
Respond(r) ==
  /\ Take(r)
  /\ IF exchange[r] # None
     THEN reply' = [reply EXCEPT ![r] = RespondTo(exchange[r].tag, told[r])]
     ELSE UNCHANGED reply
  /\ UNCHANGED <<exchange, copy>>

-----------------------------------------------------------------------------
(* The browser's HTTP cache, RFC 9111 *)

\* A 200 replaces the copy and a 304 renews its headers.  Age is counted from
\* the request, not from the arrival of the response (section 4.2.3).
Receive(r) ==
  /\ reply[r] # None
  /\ LET m == reply[r] IN
     copy' = [copy EXCEPT ![r] =
       CASE m.status = 200 ->
              [body |-> m.body, until |-> exchange[r].at + m.age, source |-> m.source,
               dated |-> m.dated]
         [] m.status = 304 /\ @ # None ->
              [@ EXCEPT !.until = exchange[r].at + m.age, !.source = m.source,
                        !.dated = m.dated]
         [] OTHER -> @]
  /\ exchange' = [exchange EXCEPT ![r] = None]
  /\ reply' = [reply EXCEPT ![r] = None]
  /\ UNCHANGED service

\* Mutant: what is on its way back is kept for the next request.
LoseMutant(r) ==
  /\ exchange[r] # None
  /\ exchange' = [exchange EXCEPT ![r] = None]
  /\ UNCHANGED <<service, reply, copy>>
\* The connection is lost, or the page gone, whatever the server still does.
Lose(r) ==
  /\ exchange[r] # None
  /\ exchange' = [exchange EXCEPT ![r] = None]
  /\ reply' = [reply EXCEPT ![r] = None]
  /\ UNCHANGED <<service, copy>>

\* The cache makes room; not for a copy that is being revalidated.
Evict(r) ==
  /\ exchange[r] = None /\ copy[r] # None
  /\ copy' = [copy EXCEPT ![r] = None]
  /\ UNCHANGED <<service, exchange, reply>>

Browser(r) == Get(r) \/ GetMalformed(r) \/ Respond(r) \/ Receive(r) \/ Lose(r) \/ Evict(r)

World ==
  /\ (\E S \in (SUBSET Request) \ {{}} : Tell(S)) \/ Publish \/ Tick
  /\ UNCHANGED web

Next == (\E r \in Request : Browser(r)) \/ World

Spec == Init /\ [][Next]_vars

-----------------------------------------------------------------------------
(* Properties *)

\* Every variable has its type, and a response belongs to a request.
TypeOK ==
  /\ now \in Nat
  /\ since \in Seq(Nat) /\ since # <<>>
  /\ call \in [Request -> {"idle", "asked", "told"}]
  /\ told \in [Request -> Result \cup {None}]
  /\ exchange \in [Request -> Exchange \cup {None}]
  /\ reply \in [Request -> Reply \cup {None}]
  /\ copy \in [Request -> Copy \cup {None}]
  /\ \A r \in Request :
       /\ (told[r] # None) <=> (call[r] = "told")
       /\ reply[r] # None => exchange[r] # None

\* The browser may show its copy without asking anybody.
Reusable(r) == copy[r] # None /\ now < copy[r].until

\* "Let browsers ... absorb repeat reads until the upstream forecast expires"
\* (handler.go:82): a forecast that a browser may reuse unasked was api.met.no's
\* newest less than TTL ago, whatever the delays on the way and however often
\* the copy was renewed by a 304.
ReuseEndsWithGrant ==
  \A r \in Request :
    Reusable(r) /\ copy[r].body < Version => now < since[copy[r].body + 1] + TTL

\* A browser is told 304 only for the body in its cache, so that the page never
\* gets an empty answer or renews one forecast with another's expiry.
NotModifiedHasBody ==
  \A r \in Request :
    reply[r] # None /\ reply[r].status = 304
      => copy[r] # None /\ copy[r].body = reply[r].body

\* What was answered is the last known forecast of an outage, or one that came
\* without an expiry, from wherever it came.
Spent(m) == m.source = "stale-cache" \/ ~m.dated

\* "Stale data (expiry in the past) is marked non-cacheable" (handler.go:83), and
\* "missing expiry" is treated the same (handler.go:110): neither is ever shown again
\* without asking, so that the badge of an outage goes away as soon as the
\* upstream is back.  A 304 that has no expiry to give also ends what an earlier
\* answer allowed for the same body.
StaleAsksAgain == \A r \in Request : copy[r] # None /\ Spent(copy[r]) => ~Reusable(r)

=============================================================================
