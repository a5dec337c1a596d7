-------------------------- MODULE WeatherHandlerProofs --------------------------
(***************************************************************************)
(* Theorems about WeatherHandler, for any number of browsers, any lifetime *)
(* of a forecast and any granularity of the clock.                         *)
(***************************************************************************)
EXTENDS WeatherHandler, TLAPS

USE ServiceAssumption, SecondAssumption, WebAssumption
    DEF Body, Time, Status, Source

\* The newest moment at which v was api.met.no's newest forecast.
End(v) == IF v < Version THEN since[v + 1] ELSE now

PastReleases == \A v \in 1..Version : since[v] <= now

\* What a call was told is an error, or an expiry granted to the body.
Quoted(a) ==
  \/ a.source \in {"invalid", "unavailable"}
  \/ /\ a.source \in {"cache", "upstream", "stale-cache"}
     /\ a.body \in 1..Version
     /\ a.exp # None => a.exp <= End(a.body) + TTL
     /\ a.source = "stale-cache" /\ a.exp # None => a.exp <= now

\* A forecast that may be reused until then: not past what was granted to it,
\* and not at all when it is the fallback of an outage or has no expiry.
Within(body, until, spent) ==
  /\ body \in 1..Version
  /\ until <= now \/ until <= End(body) + TTL
  /\ spent => until <= now

\* What belongs to one browser: the answer under way to it, its request, which
\* names the copy that will still be there, the response, and the copy.
Coherent(r) ==
  /\ call[r] = "told" => Quoted(told[r])
  /\ exchange[r] # None =>
       /\ exchange[r].tag = IF copy[r] # None THEN copy[r].body ELSE None
       /\ exchange[r].at <= now
  /\ reply[r] # None =>
       /\ reply[r].status \in {200, 304} =>
            Within(reply[r].body, exchange[r].at + reply[r].age, Spent(reply[r]))
       /\ reply[r].status = 304 => copy[r] # None /\ copy[r].body = reply[r].body
  /\ copy[r] # None => Within(copy[r].body, copy[r].until, Spent(copy[r]))

CacheInv == TypeOK /\ PastReleases /\ \A r \in Request : Coherent(r)

LEMMA CacheInit == Init => CacheInv
  <1> SUFFICES ASSUME Init PROVE CacheInv
    OBVIOUS
  <1>1. since \in Seq(Nat) /\ since # <<>> /\ Version = 1 /\ since[1] = 0 /\ now = 0
    BY DEF Init, ServiceInit, Version
  <1>2. TypeOK
    BY <1>1 DEF Init, ServiceInit, TypeOK
  <1>3. PastReleases
    BY <1>1 DEF PastReleases
  <1> QED
    BY <1>2, <1>3 DEF Init, ServiceInit, CacheInv, Coherent

-----------------------------------------------------------------------------
(* The header: a whole number of seconds, and never past the expiry. *)

LEMMA WholeSeconds ==
  ASSUME NEW left \in Nat
  PROVE  Second * (left \div Second) \in Nat /\ Second * (left \div Second) <= left
  <1> DEFINE q == left \div Second
  <1>1. q \in Nat /\ left = Second * q + (left % Second) /\ left % Second \in Nat
    OBVIOUS
  <1>2. Second * q \in Nat
    BY <1>1
  <1> QED
    BY <1>1, <1>2

LEMMA MaxAgeBound ==
  ASSUME now \in Nat, NEW exp \in Time
  PROVE  /\ MaxAge(exp) \in Nat
         /\ MaxAge(exp) = 0 \/ (exp # None /\ now + MaxAge(exp) <= exp)
  <1>1. CASE exp # None /\ exp > now
    <2>1. exp \in Nat /\ exp - now \in Nat
      BY <1>1
    <2>2. MaxAge(exp) = Second * ((exp - now) \div Second)
      BY <1>1 DEF MaxAge
    <2> DEFINE m == Second * ((exp - now) \div Second)
    <2>3. m \in Nat /\ m <= exp - now
      BY <2>1, WholeSeconds
    <2>4. now + m <= exp
      <3> HIDE DEF m
      <3> QED BY <2>1, <2>3
    <2> QED
      BY <1>1, <2>2, <2>3, <2>4
  <1>2. CASE ~(exp # None /\ exp > now)
    BY <1>2 DEF MaxAge
  <1> QED
    BY <1>1, <1>2

\* A response to a request made then with this tag: it grants no more than the
\* service was granted, and it is a 304 for that tag only.
Answers(m, tag, at) ==
  /\ m \in Reply
  /\ m.status \in {200, 304} => Within(m.body, at + m.age, Spent(m))
  /\ m.status = 304 => tag # None /\ m.body = tag

LEMMA ResponseWithin ==
  ASSUME now \in Nat, since \in Seq(Nat), since # <<>>, PastReleases,
         NEW tag \in Body, NEW at \in Nat, at <= now,
         NEW a \in Result, Quoted(a), NEW m, m = RespondTo(tag, a)
  PROVE  Answers(m, tag, at)
  <1>1. CASE a.source \in {"invalid", "unavailable"}
    BY <1>1 DEF Answers, RespondTo, Failed, Reply
  <1>2. CASE a.source \notin {"invalid", "unavailable"}
    <2>1. /\ a.body \in 1..Version
          /\ a.exp # None => a.exp <= End(a.body) + TTL
          /\ a.source = "stale-cache" /\ a.exp # None => a.exp <= now
          /\ a.source \in {"cache", "upstream", "stale-cache"}
      BY <1>2 DEF Quoted
    <2>2. a.exp \in Time /\ Version \in Nat
      BY DEF Result, Version
    <2>3. m = [status |-> IF MatchesETag(tag, a.body) THEN 304 ELSE 200,
               body |-> a.body, age |-> MaxAge(a.exp), source |-> a.source,
               dated |-> a.exp # None]
      BY <2>1 DEF RespondTo
    <2>4. m.body = a.body /\ m.age = MaxAge(a.exp) /\ m.source = a.source
          /\ m.dated = (a.exp # None) /\ m.status \in {200, 304} /\ (m.status = 304 => tag = a.body)
      BY <2>3 DEF MatchesETag
    <2>5. MaxAge(a.exp) \in Nat
          /\ (MaxAge(a.exp) = 0 \/ (a.exp # None /\ now + MaxAge(a.exp) <= a.exp))
      BY <2>2, MaxAgeBound
    <2>6. m \in Reply
      BY <2>1, <2>2, <2>3, <2>5 DEF Reply
    <2>7. End(a.body) \in Nat
      BY <2>1, <2>2 DEF End, Version
    <2>8. at + MaxAge(a.exp) <= now \/ at + MaxAge(a.exp) <= End(a.body) + TTL
      BY <2>1, <2>2, <2>5, <2>7
    <2>9. a.source = "stale-cache" \/ a.exp = None => at + MaxAge(a.exp) <= now
      BY <2>1, <2>2, <2>5
    <2>10. Spent(m) => a.source = "stale-cache" \/ a.exp = None
      BY <2>4 DEF Spent
    <2>11. Within(a.body, at + MaxAge(a.exp), Spent(m))
      <3> DEFINE until == at + MaxAge(a.exp)
      <3>1. until \in Nat
        BY <2>5
      <3>2. until <= now \/ until <= End(a.body) + TTL
        BY <2>8
      <3>3. Spent(m) => until <= now
        BY <2>9, <2>10
      <3> HIDE DEF until
      <3>4. Within(a.body, until, Spent(m))
        BY <2>1, <3>1, <3>2, <3>3, Zenon DEF Within
      <3> QED
        BY <3>4 DEF until
    <2>12. Within(m.body, at + m.age, Spent(m))
      BY <2>4, <2>11
    <2>13. m.status = 304 => tag # None /\ m.body = tag
      BY <2>1, <2>2, <2>4
    <2> QED
      BY <2>6, <2>12, <2>13, Zenon DEF Answers
  <1> QED
    BY <1>1, <1>2

-----------------------------------------------------------------------------
(* What was granted stays granted: releases are only ever added, now. *)

Moves ==
  /\ now' \in Nat /\ now <= now'
  /\ since' = since \/ (since' = Append(since, now) /\ now' = now)

LEMMA EndGrows ==
  ASSUME now \in Nat, since \in Seq(Nat), since # <<>>, PastReleases, Moves,
         NEW v \in 1..Version
  PROVE  v \in 1..Version' /\ End(v) \in Nat /\ End(v)' \in Nat /\ End(v) <= End(v)'
  <1>1. Version \in Nat /\ v \in Nat /\ 1 <= v /\ v <= Version
    BY DEF Version
  <1>2. now' \in Nat /\ now <= now'
    BY DEF Moves
  <1>3. ASSUME NEW w \in 1..Version PROVE since[w] \in Nat
    BY DEF Version
  <1>4. v < Version => End(v) = since[v + 1]
    BY <1>1 DEF End
  <1>5. v = Version => End(v) = now
    BY <1>1 DEF End
  <1>6. CASE since' = since
    <2>1. Version' = Version
      BY <1>6 DEF Version
    <2>2. CASE v < Version
      <3>1. End(v)' = since[v + 1]
        BY <1>6, <2>1, <2>2 DEF End
      <3> QED
        BY <1>1, <1>3, <1>4, <2>1, <2>2, <3>1
    <2>3. CASE v = Version
      <3>1. End(v)' = now'
        BY <1>1, <2>1, <2>3 DEF End
      <3> QED
        BY <1>1, <1>2, <1>5, <2>1, <2>3, <3>1
    <2> QED
      BY <1>1, <2>2, <2>3
  <1>7. CASE since' = Append(since, now) /\ now' = now
    <2>1. Version' = Version + 1 /\ since'[Version + 1] = now
          /\ \A w \in 1..Version : since'[w] = since[w]
      BY <1>7 DEF Version
    <2>2. End(v)' = since'[v + 1]
      BY <1>1, <2>1 DEF End
    <2>3. CASE v = Version
      BY <1>1, <1>5, <2>1, <2>2, <2>3
    <2>4. CASE v < Version
      <3>1. v + 1 \in 1..Version
        BY <1>1, <2>4
      <3> QED
        BY <1>1, <1>3, <1>4, <2>1, <2>2, <2>4, <3>1
    <2> QED
      BY <1>1, <2>3, <2>4
  <1> QED
    BY <1>6, <1>7 DEF Moves

LEMMA WithinStable ==
  ASSUME now \in Nat, since \in Seq(Nat), since # <<>>, PastReleases, Moves,
         NEW body, NEW until \in Nat, NEW spent, Within(body, until, spent)
  PROVE  Within(body, until, spent)'
  <1>1. body \in 1..Version /\ body \in 1..Version'
        /\ End(body) \in Nat /\ End(body)' \in Nat /\ End(body) <= End(body)'
    BY EndGrows DEF Within
  <1>2. now' \in Nat /\ now <= now'
    BY DEF Moves
  <1>3. until <= now' \/ until <= End(body)' + TTL
    BY <1>1, <1>2 DEF Within
  <1>4. spent => until <= now'
    BY <1>2 DEF Within
  <1> QED
    BY <1>1, <1>3, <1>4 DEF Within

LEMMA QuotedStable ==
  ASSUME now \in Nat, since \in Seq(Nat), since # <<>>, PastReleases, Moves,
         NEW a \in Result, Quoted(a)
  PROVE  Quoted(a)'
  <1>1. CASE a.source \in {"invalid", "unavailable"}
    BY <1>1 DEF Quoted
  <1>2. CASE a.source \notin {"invalid", "unavailable"}
    <2>1. /\ a.body \in 1..Version
          /\ a.exp # None => a.exp <= End(a.body) + TTL
          /\ a.source = "stale-cache" /\ a.exp # None => a.exp <= now
          /\ a.source \in {"cache", "upstream", "stale-cache"}
      BY <1>2 DEF Quoted
    <2>2. a.body \in 1..Version'
          /\ End(a.body) \in Nat /\ End(a.body)' \in Nat /\ End(a.body) <= End(a.body)'
      BY <2>1, EndGrows
    <2>3. now' \in Nat /\ now <= now' /\ a.exp \in Time
      BY DEF Moves, Result
    <2>4. a.exp # None => a.exp <= End(a.body)' + TTL
      BY <2>1, <2>2, <2>3
    <2>5. a.source = "stale-cache" /\ a.exp # None => a.exp <= now'
      BY <2>1, <2>3
    <2> QED
      BY <2>1, <2>2, <2>4, <2>5 DEF Quoted
  <1> QED
    BY <1>1, <1>2

\* The service keeps its promises in the terms of Quoted.
LEMMA PromisedQuoted ==
  ASSUME now \in Nat, since \in Seq(Nat), since # <<>>, PastReleases, NEW a \in Promised
  PROVE  a \in Result /\ Quoted(a)
  <1>1. Version \in Nat
    BY DEF Version
  <1>2. CASE a = Error("unavailable")
    BY <1>2 DEF Error, Result, Quoted
  <1>3. ASSUME NEW v \in 1..Version, a \in Forecast(v) \cup Fallback(v)
        PROVE  a \in Result /\ Quoted(a)
    <2>1. since[v] \in Nat /\ End(v) \in Nat
      BY <1>1 DEF Version, End
    <2>2. ASSUME NEW e \in Granted(v)
          PROVE  e \in Time /\ (e # None => e <= End(v) + TTL)
      <3>1. CASE e = None
        BY <3>1
      <3>2. CASE e # None
        <4>1. PICK t \in Reign(v) : e = t + TTL
          BY <3>2 DEF Granted
        <4>2. t \in since[v]..End(v)
          BY <4>1 DEF Reign, End
        <4> QED
          BY <2>1, <4>1, <4>2
      <3> QED
        BY <3>1, <3>2
    <2>3. CASE a \in Forecast(v)
      <3>1. a.source \in {"cache", "upstream"} /\ a.body = v /\ a.exp \in Granted(v)
            /\ a.at \in since[v]..now
            /\ a = [source |-> a.source, body |-> a.body, exp |-> a.exp, at |-> a.at]
        BY <2>3 DEF Forecast
      <3>2. a.exp \in Time /\ (a.exp # None => a.exp <= End(v) + TTL)
        BY <2>2, <3>1
      <3>3. a.at \in Nat
        BY <2>1, <3>1
      <3>4. a \in Result
        BY <3>1, <3>2, <3>3 DEF Result
      <3> QED
        BY <3>1, <3>2, <3>4 DEF Quoted
    <2>4. CASE a \in Fallback(v)
      <3>1. PICK exp \in {e \in Granted(v) : e = None \/ e <= now}, at \in since[v]..now :
              a = [source |-> "stale-cache", body |-> v, exp |-> exp, at |-> at]
        BY <2>4 DEF Fallback
      <3>2. exp \in Time /\ (exp # None => exp <= End(v) + TTL) /\ (exp # None => exp <= now)
        BY <2>2, <3>1
      <3>3. at \in Nat
        BY <2>1, <3>1
      <3>4. a \in Result
        BY <3>1, <3>2, <3>3 DEF Result
      <3> QED
        BY <3>1, <3>2, <3>4 DEF Quoted
    <2> QED
      BY <1>3, <2>3, <2>4
  <1> QED
    BY <1>2, <1>3 DEF Promised

-----------------------------------------------------------------------------
LEMMA WorldMoves == ASSUME TypeOK, [Next]_vars PROVE Moves
  <1> USE DEF TypeOK, Moves, service, web
  <1>1. ASSUME NEW r \in Request, Browser(r) PROVE UNCHANGED <<now, since>>
    BY <1>1 DEF Browser, Get, GetMalformed, Respond, Receive, Lose, Evict, Ask, Refuse, Take
  <1>2. CASE World
    BY <1>2 DEF World, Tell, Publish, Tick
  <1>3. CASE UNCHANGED vars
    BY <1>3 DEF vars
  <1> QED
    BY <1>1, <1>2, <1>3 DEF Next

LEMMA PastReleasesStep ==
  ASSUME TypeOK, PastReleases, Moves
  PROVE  PastReleases'
  <1>1. CASE since' = since
    BY <1>1 DEF PastReleases, Version, TypeOK, Moves
  <1>2. CASE since' = Append(since, now) /\ now' = now
    BY <1>2 DEF PastReleases, Version, TypeOK
  <1> QED
    BY <1>1, <1>2 DEF Moves

\* A step that leaves a browser alone leaves it coherent.
LEMMA Untouched ==
  ASSUME TypeOK, PastReleases, Moves, NEW r \in Request, Coherent(r),
         call'[r] = call[r], told'[r] = told[r], exchange'[r] = exchange[r],
         reply'[r] = reply[r], copy'[r] = copy[r]
  PROVE  Coherent(r)'
  <1>1. now \in Nat /\ since \in Seq(Nat) /\ since # <<>> /\ now' \in Nat /\ now <= now'
    BY DEF TypeOK, Moves
  <1>2. call[r] = "told" => Quoted(told[r])'
    BY <1>1, QuotedStable DEF TypeOK, Coherent
  <1>3. exchange[r] # None => exchange[r].at \in Nat /\ exchange[r].at <= now'
    BY <1>1 DEF TypeOK, Coherent, Exchange
  <1>4. ASSUME reply[r] # None, reply[r].status \in {200, 304}
        PROVE  Within(reply[r].body, exchange[r].at + reply[r].age, Spent(reply[r]))'
    <2>1. exchange[r].at \in Nat /\ reply[r].age \in Nat
      BY <1>3, <1>4 DEF TypeOK, Reply
    <2>2. exchange[r].at + reply[r].age \in Nat
      BY <2>1
    <2>3. Within(reply[r].body, exchange[r].at + reply[r].age, Spent(reply[r]))
      BY <1>4 DEF Coherent
    <2> DEFINE u == exchange[r].at + reply[r].age
    <2>4. ASSUME NEW until \in Nat, NEW body, NEW spent, Within(body, until, spent)
          PROVE  Within(body, until, spent)'
      BY <1>1, <2>4, WithinStable
    <2> QED
      BY <2>2, <2>3, <2>4 DEF Within
  <1>5. copy[r] # None => Within(copy[r].body, copy[r].until, Spent(copy[r]))'
    BY <1>1, WithinStable DEF TypeOK, Coherent, Copy
  <1> QED
    BY <1>2, <1>3, <1>4, <1>5 DEF Coherent

LEMMA CacheStep == CacheInv /\ [Next]_vars => CacheInv'
  <1> SUFFICES ASSUME CacheInv, [Next]_vars PROVE CacheInv'
    OBVIOUS
  <1>a. TypeOK /\ PastReleases /\ Moves /\ PastReleases'
    BY WorldMoves, PastReleasesStep DEF CacheInv
  <1>b. now \in Nat /\ since \in Seq(Nat) /\ since # <<>>
    BY <1>a DEF TypeOK
  \* What remains of a step of one browser.
  <1>c. ASSUME NEW r \in Request, TypeOK', Coherent(r)',
               \A q \in Request \ {r} :
                 /\ call'[q] = call[q] /\ told'[q] = told[q] /\ exchange'[q] = exchange[q]
                 /\ reply'[q] = reply[q] /\ copy'[q] = copy[q]
        PROVE  CacheInv'
    BY <1>a, <1>c, Untouched DEF CacheInv
  <1>d. ASSUME UNCHANGED <<now, since>>, NEW body, NEW until, NEW spent
        PROVE  Within(body, until, spent)' = Within(body, until, spent)
    BY <1>d DEF Within, End, Version
  <1>1. ASSUME NEW r \in Request, Get(r) \/ GetMalformed(r) PROVE CacheInv'
    <2> DEFINE x == [tag |-> IF copy[r] # None THEN copy[r].body ELSE None, at |-> now]
    <2>1. exchange' = [exchange EXCEPT ![r] = x] /\ exchange[r] = None
          /\ UNCHANGED <<now, since, copy>>
      BY <1>1 DEF Get, GetMalformed, Sends, Ask, Refuse, service
    <2>2. x \in Exchange /\ x # None
      BY <1>a, <1>b DEF TypeOK, Copy, Exchange
    <2> DEFINE c == call'[r]
               a == told'[r]
               m == reply'[r]
    <2>3. /\ call' = [call EXCEPT ![r] = c] /\ c \in {"idle", "asked", "told"}
          /\ told' = [told EXCEPT ![r] = a] /\ a \in Result \cup {None}
          /\ reply' = [reply EXCEPT ![r] = m] /\ m \in Reply \cup {None}
          /\ (a # None) <=> (c = "told")
          /\ c = "told" => a = Error("invalid")
          /\ m # None => m = Failed(422)
      <3>1. reply[r] = None /\ (told[r] # None <=> call[r] = "told") /\ told[r] \in Result \cup {None}
        BY <1>a, <2>1 DEF TypeOK
      <3>2. Error("invalid") \in Result /\ Failed(422) \in Reply
        BY DEF Error, Failed, Result, Reply
      <3>3. CASE Get(r) /\ Ask(r)
        <4>1. call[r] = "idle" /\ call' = [call EXCEPT ![r] = "asked"] /\ UNCHANGED <<told, reply>>
          BY <3>3 DEF Get, Ask
        <4> QED
          BY <1>a, <3>1, <4>1 DEF TypeOK
      <3>4. CASE Get(r) /\ Refuse(r)
        <4>1. /\ call' = [call EXCEPT ![r] = "told"] /\ reply' = reply
              /\ told' = [told EXCEPT ![r] = Error("invalid")]
          BY <3>4 DEF Get, Refuse
        <4> QED
          BY <1>a, <3>1, <3>2, <4>1 DEF TypeOK
      <3>5. CASE GetMalformed(r)
        <4>1. call' = call /\ call[r] = "idle" /\ told' = told
              /\ reply' = [reply EXCEPT ![r] = Failed(422)]
          BY <3>5 DEF GetMalformed, service
        <4> QED
          BY <1>a, <3>1, <3>2, <4>1 DEF TypeOK
      <3> QED
        BY <1>1, <3>3, <3>4, <3>5 DEF Get
    <2>4. TypeOK'
      <3> HIDE DEF x, c, a, m
      <3> QED
        BY <1>a, <2>1, <2>2, <2>3 DEF TypeOK
    <2>5. Coherent(r)'
      <3>1. exchange'[r] = x /\ copy'[r] = copy[r]
        BY <1>a, <2>1 DEF TypeOK
      <3>2. call'[r] = "told" => Quoted(told[r])'
        BY <2>3 DEF Quoted, Error
      <3>3. x.at <= now' /\ x.tag = IF copy[r] # None THEN copy[r].body ELSE None
        BY <1>b, <2>1
      <3>4. reply'[r] # None => reply'[r].status \notin {200, 304}
        BY <2>3 DEF Failed
      <3>5. copy[r] # None => Within(copy[r].body, copy[r].until, Spent(copy[r]))'
        BY <1>d, <2>1 DEF CacheInv, Coherent
      <3> HIDE DEF x
      <3> QED
        BY <2>1, <3>1, <3>2, <3>3, <3>4, <3>5 DEF Coherent
    <2>6. \A q \in Request \ {r} :
            /\ call'[q] = call[q] /\ told'[q] = told[q] /\ exchange'[q] = exchange[q]
            /\ reply'[q] = reply[q] /\ copy'[q] = copy[q]
      <3> HIDE DEF x, c, a, m
      <3> QED
        BY <1>a, <2>1, <2>3 DEF TypeOK
    <2> QED
      BY <1>c, <2>4, <2>5, <2>6
  <1>2. ASSUME NEW r \in Request, Respond(r) PROVE CacheInv'
    <2>1. /\ call[r] = "told" /\ call' = [call EXCEPT ![r] = "idle"]
          /\ told' = [told EXCEPT ![r] = None] /\ UNCHANGED <<now, since, exchange, copy>>
      BY <1>2 DEF Respond, Take
    <2>2. told[r] \in Result /\ Quoted(told[r])
      BY <1>a, <2>1 DEF TypeOK, CacheInv, Coherent
    <2>3. PICK m \in Reply \cup {None} :
            /\ reply' = [reply EXCEPT ![r] = m]
            /\ m # None => exchange[r] # None
            /\ m # None /\ m.status \in {200, 304}
                 => Within(m.body, exchange[r].at + m.age, Spent(m))
            /\ m # None /\ m.status = 304 => copy[r] # None /\ copy[r].body = m.body
      <3>1. CASE exchange[r] = None
        <4>1. reply[r] = None /\ reply' = [reply EXCEPT ![r] = None]
          BY <1>2, <1>a, <3>1 DEF Respond, TypeOK
        <4> QED
          BY <4>1
      <3>2. CASE exchange[r] # None
        <4> DEFINE m == RespondTo(exchange[r].tag, told[r])
        <4>1. reply' = [reply EXCEPT ![r] = m]
          BY <1>2, <3>2 DEF Respond
        <4>2. /\ exchange[r].tag \in Nat \cup {None} /\ exchange[r].at \in Nat
              /\ exchange[r].at <= now
              /\ exchange[r].tag = IF copy[r] # None THEN copy[r].body ELSE None
          BY <1>a, <3>2 DEF TypeOK, Exchange, CacheInv, Coherent
        <4>3. Answers(m, exchange[r].tag, exchange[r].at)
          BY <1>a, <1>b, <2>2, <4>2, ResponseWithin
        <4>4. m # None /\ m \in Reply \cup {None}
          BY <4>3 DEF Answers
        <4>5. m.status = 304 => copy[r] # None /\ copy[r].body = m.body
          BY <4>2, <4>3 DEF Answers
        <4> HIDE DEF m
        <4>6. /\ m \in Reply \cup {None}
              /\ reply' = [reply EXCEPT ![r] = m]
              /\ m # None => exchange[r] # None
              /\ m # None /\ m.status \in {200, 304}
                   => Within(m.body, exchange[r].at + m.age, Spent(m))
              /\ m # None /\ m.status = 304 => copy[r] # None /\ copy[r].body = m.body
          BY <3>2, <4>1, <4>3, <4>4, <4>5 DEF Answers
        <4> QED
          BY <4>6, Zenon
      <3> QED
        BY <3>1, <3>2
    <2>4. TypeOK'
      BY <1>a, <2>1, <2>3 DEF TypeOK
    <2>5. Coherent(r)'
      <3>1. call'[r] = "idle" /\ reply'[r] = m
        BY <1>a, <2>1, <2>3 DEF TypeOK
      <3>2. m # None /\ m.status \in {200, 304}
              => Within(m.body, exchange[r].at + m.age, Spent(m))'
        BY <1>d, <2>1, <2>3 DEF Within, End, Version
      <3>3. copy[r] # None => Within(copy[r].body, copy[r].until, Spent(copy[r]))'
        BY <1>d, <2>1 DEF CacheInv, Coherent
      <3> QED
        BY <2>1, <2>3, <3>1, <3>2, <3>3 DEF CacheInv, Coherent
    <2>6. \A q \in Request \ {r} :
            call'[q] = call[q] /\ told'[q] = told[q] /\ reply'[q] = reply[q]
      BY <1>a, <2>1, <2>3 DEF TypeOK
    <2> QED
      BY <1>c, <2>1, <2>4, <2>5, <2>6
  <1>3. ASSUME NEW r \in Request, Receive(r) PROVE CacheInv'
    <2>1. /\ reply[r] # None /\ reply[r] \in Reply
          /\ exchange[r] # None /\ exchange[r].at \in Nat
          /\ exchange' = [exchange EXCEPT ![r] = None]
          /\ reply' = [reply EXCEPT ![r] = None]
          /\ UNCHANGED <<now, since, call, told>>
      BY <1>3, <1>a DEF Receive, TypeOK, Exchange, service
    <2> DEFINE m == reply[r]
               u == exchange[r].at + m.age
    <2>2. /\ m.status \in {200, 304} => Within(m.body, u, Spent(m)) /\ m.body \in Nat
          /\ m.status = 304 => copy[r] # None /\ copy[r].body = m.body
          /\ u \in Nat
      BY <2>1 DEF CacheInv, Coherent, Within, Reply
    <2>3. PICK c \in Copy \cup {None} :
            /\ copy' = [copy EXCEPT ![r] = c]
            /\ c # None => Within(c.body, c.until, Spent(c))
      <3>1. CASE m.status = 200
        <4> DEFINE c == [body |-> m.body, until |-> u, source |-> m.source, dated |-> m.dated]
        <4>1. copy' = [copy EXCEPT ![r] = c]
          BY <1>3, <1>a, <3>1 DEF Receive, TypeOK
        <4>2. c \in Copy
          BY <2>1, <2>2, <3>1 DEF Copy, Reply
        <4>3. Within(c.body, c.until, Spent(c))
          BY <2>2, <3>1 DEF Spent
        <4> HIDE DEF c
        <4>4. c \in Copy \cup {None}
          BY <4>2
        <4> QED
          BY <4>1, <4>3, <4>4, Zenon
      <3>2. CASE m.status = 304
        <4> DEFINE c == [copy[r] EXCEPT !.until = u, !.source = m.source, !.dated = m.dated]
        <4>1. copy[r] \in Copy /\ copy[r].body = m.body
          BY <1>a, <2>2, <3>2 DEF TypeOK
        <4>2. copy' = [copy EXCEPT ![r] = c]
          BY <1>3, <1>a, <2>2, <3>2 DEF Receive, TypeOK
        <4>3. c \in Copy /\ c.body = m.body /\ c.until = u
                 /\ c.source = m.source /\ c.dated = m.dated
          <5>1. m.source \in Source /\ m.dated \in BOOLEAN /\ u \in Nat /\ m.body \in Nat
            BY <2>1, <2>2, <3>2 DEF Reply
          <5> HIDE DEF m, u
          <5> QED
            BY <4>1, <5>1 DEF Copy
        <4>4. Within(m.body, u, Spent(m))
          BY <2>2, <3>2
        <4> HIDE DEF c, m, u
        <4>5. c \in Copy \cup {None} /\ Within(c.body, c.until, Spent(c))
          BY <4>3, <4>4 DEF Spent
        <4> QED
          BY <4>2, <4>5, Zenon
      <3>3. CASE m.status \notin {200, 304}
        <4>1. copy' = [copy EXCEPT ![r] = copy[r]] /\ copy[r] \in Copy \cup {None}
          BY <1>3, <1>a, <3>3 DEF Receive, TypeOK
        <4> QED
          BY <4>1 DEF CacheInv, Coherent
      <3> QED
        BY <3>1, <3>2, <3>3
    <2>4. TypeOK'
      BY <1>a, <2>1, <2>3 DEF TypeOK
    <2>5. Coherent(r)'
      <3>1. exchange'[r] = None /\ reply'[r] = None /\ copy'[r] = c
        BY <1>a, <2>1, <2>3 DEF TypeOK
      <3>2. c # None => Within(c.body, c.until, Spent(c))'
        BY <1>d, <2>1, <2>3
      <3>3. call[r] = "told" => Quoted(told[r])'
        BY <2>1 DEF CacheInv, Coherent, Quoted, End, Version
      <3> QED
        BY <2>1, <3>1, <3>2, <3>3 DEF Coherent
    <2>6. \A q \in Request \ {r} :
            exchange'[q] = exchange[q] /\ reply'[q] = reply[q] /\ copy'[q] = copy[q]
      BY <1>a, <2>1, <2>3 DEF TypeOK
    <2> QED
      BY <1>c, <2>1, <2>4, <2>5, <2>6
  <1>4. ASSUME NEW r \in Request, Lose(r) \/ Evict(r) PROVE CacheInv'
    <2>1. PICK c \in {copy[r], None} :
            /\ exchange' = [exchange EXCEPT ![r] = None]
            /\ reply' = [reply EXCEPT ![r] = None]
            /\ copy' = [copy EXCEPT ![r] = c]
            /\ UNCHANGED <<now, since, call, told>>
      BY <1>4, <1>a DEF Lose, Evict, TypeOK, service
    <2>2. TypeOK'
      BY <1>a, <2>1 DEF TypeOK
    <2>3. Coherent(r)'
      <3>1. exchange'[r] = None /\ reply'[r] = None /\ copy'[r] = c
        BY <1>a, <2>1 DEF TypeOK
      <3>2. c # None => Within(c.body, c.until, Spent(c))'
        BY <1>d, <2>1 DEF CacheInv, Coherent
      <3>3. call[r] = "told" => Quoted(told[r])'
        BY <2>1 DEF CacheInv, Coherent, Quoted, End, Version
      <3> QED
        BY <2>1, <3>1, <3>2, <3>3 DEF Coherent
    <2>4. \A q \in Request \ {r} :
            exchange'[q] = exchange[q] /\ reply'[q] = reply[q] /\ copy'[q] = copy[q]
      BY <1>a, <2>1 DEF TypeOK
    <2> QED
      BY <1>c, <2>1, <2>2, <2>3, <2>4
  <1>5. ASSUME NEW S \in SUBSET Request, Tell(S), UNCHANGED web PROVE CacheInv'
    <2>1. PICK a \in Promised :
            /\ told' = [r \in Request |-> IF r \in S THEN a ELSE told[r]]
            /\ call' = [r \in Request |-> IF r \in S THEN "told" ELSE call[r]]
            /\ UNCHANGED <<now, since, exchange, reply, copy>>
      BY <1>5 DEF Tell, web
    <2>2. a \in Result /\ Quoted(a)
      BY <1>a, <1>b, PromisedQuoted
    <2>3. TypeOK'
      BY <1>a, <2>1, <2>2 DEF TypeOK
    <2>4. ASSUME NEW r \in Request PROVE Coherent(r)'
      <3>1. CASE r \notin S
        BY <1>a, <2>1, <3>1, Untouched DEF CacheInv
      <3>2. CASE r \in S
        <4>1. Quoted(told[r])'
          BY <2>1, <2>2, <3>2 DEF Quoted, End, Version
        <4> QED
          BY <2>1, <4>1 DEF CacheInv, Coherent, Within, End, Version
      <3> QED
        BY <3>1, <3>2
    <2> QED
      BY <1>a, <2>3, <2>4 DEF CacheInv
  <1>6. CASE ((Publish \/ Tick) /\ UNCHANGED web) \/ UNCHANGED vars
    <2>1. UNCHANGED <<call, told, exchange, reply, copy>>
      BY <1>6 DEF Publish, Tick, web, vars, service
    <2>2. now' \in Nat /\ since' \in Seq(Nat) /\ since' # <<>>
      BY <1>a, <1>b DEF Moves
    <2>3. TypeOK'
      BY <1>a, <2>1, <2>2 DEF TypeOK
    <2> QED
      BY <1>a, <2>1, <2>3, Untouched DEF CacheInv
  <1> QED
    BY <1>1, <1>2, <1>3, <1>4, <1>5, <1>6 DEF Next, Browser, World

LEMMA CacheInvariant == Spec => []CacheInv
  BY CacheInit, CacheStep, PTL DEF Spec

\* Type correctness, and no response without the request it answers.
THEOREM TypeCorrect == Spec => []TypeOK
  <1>1. CacheInv => TypeOK
    BY DEF CacheInv
  <1> QED
    BY <1>1, CacheInvariant, PTL

\* No browser reuses a forecast unasked for longer than TTL after the next one
\* came out, whatever was delayed, lost, revalidated or evicted.
THEOREM NoReusePastGrant == Spec => []ReuseEndsWithGrant
  <1>1. CacheInv => ReuseEndsWithGrant
    <2> SUFFICES ASSUME CacheInv, NEW r \in Request, Reusable(r), copy[r].body < Version
                 PROVE  now < since[copy[r].body + 1] + TTL
      BY DEF ReuseEndsWithGrant
    <2> DEFINE body == copy[r].body
               until == copy[r].until
    <2>1. now \in Nat /\ since \in Seq(Nat) /\ copy[r] \in Copy /\ now < until
      BY DEF CacheInv, TypeOK, Reusable
    <2>2. Within(body, until, Spent(copy[r]))
      BY DEF CacheInv, Coherent, Reusable
    <2>3. body \in 1..Version /\ until \in Nat /\ Version \in Nat
      BY <2>1, <2>2 DEF Within, Copy, Version
    <2>4. until <= now \/ until <= End(body) + TTL
      BY <2>2 DEF Within
    <2>5. body < Version /\ End(body) = since[body + 1]
      BY DEF End
    <2>6. since[body + 1] \in Nat
      BY <2>1, <2>3, <2>5 DEF Version
    <2> HIDE DEF body, until
    <2>7. now < since[body + 1] + TTL
      BY <2>1, <2>3, <2>4, <2>5, <2>6, ServiceAssumption
    <2> QED
      BY <2>7 DEF body
  <1> QED
    BY <1>1, CacheInvariant, PTL

\* A 304 always finds, in the browser it goes to, the body it stands for.
THEOREM NotModifiedSafe == Spec => []NotModifiedHasBody
  <1>1. CacheInv => NotModifiedHasBody
    BY DEF CacheInv, Coherent, NotModifiedHasBody
  <1> QED
    BY <1>1, CacheInvariant, PTL

\* Neither the fallback of an outage nor a forecast without an expiry is ever
\* reused unasked.
THEOREM StaleNotReused == Spec => []StaleAsksAgain
  <1>1. CacheInv => StaleAsksAgain
    BY DEF CacheInv, TypeOK, Coherent, Within, Copy, Reusable, StaleAsksAgain
  <1> QED
    BY <1>1, CacheInvariant, PTL

=============================================================================
