-------------------------- MODULE WeatherCacheProofs --------------------------
(***************************************************************************)
(* Theorems about WeatherCache, for any number of callers, flight keys,    *)
(* releases and clock ticks: its invariants, and that it implements        *)
(* ForecastService, whatever may fail.                                     *)
(***************************************************************************)
EXTENDS ForecastRefinement, TLAPS

USE DEF Leading, PC, Time, Body, Source

\* Type correctness: whatever is interleaved, the upsert always has an entry to
\* write and a finished call always has an answer.
LEMMA TypeInit == Init => TypeOK
  <1>1. Init => since \in Seq(Nat) /\ since # <<>>
    BY DEF Init
  <1> QED
    BY <1>1, NoneAssumption DEF Init, TypeOK, Entry, Answer

LEMMA TypeStep == TypeOK /\ [Next]_vars => TypeOK'
  <1> SUFFICES ASSUME TypeOK, [Next]_vars PROVE TypeOK'
    OBVIOUS
  <1> USE NoneAssumption, TimesAssumption, FaultsAssumption DEF world, TypeOK
  <1>1. ASSUME NEW r \in Request, NEW k \in Key, Arrive(r, k) PROVE TypeOK'
    BY <1>1 DEF Arrive
  <1>2. ASSUME NEW r \in Request, Reject(r) PROVE TypeOK'
    <2>1. Failure("invalid") \in Answer
      BY DEF Failure, Answer
    <2> QED
      BY <1>2, <2>1 DEF Reject
  <1>3. ASSUME NEW r \in Request, Lookup(r) PROVE TypeOK'
    BY <1>3 DEF Lookup
  <1>4. ASSUME NEW r \in Request, ServeFresh(r) PROVE TypeOK'
    <2>1. seen[r] \in Entry
      BY <1>4 DEF ServeFresh, Fresh
    <2>2. ServeEntry(seen[r], seen[r].exp, "cache") \in Answer
      BY <2>1 DEF ServeEntry, Answer, Entry
    <2> QED
      BY <1>4, <2>2 DEF ServeFresh
  <1>5. ASSUME NEW r \in Request, Lead(r) PROVE TypeOK'
    BY <1>5 DEF Lead
  <1>6. ASSUME NEW r \in Request, Join(r) PROVE TypeOK'
    BY <1>6 DEF Join
  <1>7. ASSUME NEW r \in Request, FetchBody(r) PROVE TypeOK'
    <2>1. PICK exp \in GrantedExpiry, lm \in {Version, None} :
            entry' = [entry EXCEPT ![r] =
                        [body |-> Version, lm |-> lm, exp |-> exp, at |-> None]]
      BY <1>7 DEF FetchBody
    <2>2. Version \in Nat /\ exp \in Time
      BY DEF Version, GrantedExpiry
    <2>3. [body |-> Version, lm |-> lm, exp |-> exp, at |-> None] \in Entry
      BY <2>2 DEF Entry
    <2> QED
      BY <1>7, <2>1, <2>3 DEF FetchBody
  <1>8. ASSUME NEW r \in Request, FetchNotModified(r) PROVE TypeOK'
    <2>1. CASE seen[r] # None
      <3>1. PICK exp \in GrantedExpiry :
              entry' = [entry EXCEPT ![r] = [seen[r] EXCEPT !.exp = exp]]
        BY <1>8, <2>1 DEF FetchNotModified
      <3>2. seen[r] \in Entry /\ exp \in Time
        BY <2>1 DEF GrantedExpiry
      <3>3. [seen[r] EXCEPT !.exp = exp] \in Entry
        BY <3>2 DEF Entry
      <3> QED
        BY <1>8, <2>1, <3>1, <3>3 DEF FetchNotModified
    <2>2. CASE seen[r] = None
      <3>1. Failure("internal") \in Answer
        BY DEF Failure, Answer
      <3>2. /\ answer' = [answer EXCEPT ![r] = Failure("internal")]
            /\ pc' = [pc EXCEPT ![r] = "return"]
            /\ seen' = [seen EXCEPT ![r] = None]
            /\ UNCHANGED <<now, since, row, key, entry, inflight>>
            /\ pc[r] = "fetch"
        BY <1>8, <2>2 DEF FetchNotModified
      <3> QED
        BY <3>1, <3>2
    <2> QED
      BY <2>1, <2>2
  <1>9. ASSUME NEW r \in Request, FetchFail(r) PROVE TypeOK'
    <2> DEFINE a == IF seen[r] # None
                    THEN ServeEntry(seen[r], seen[r].exp, "stale-cache")
                    ELSE Failure("unavailable")
    <2>1. a \in Answer
      BY DEF ServeEntry, Failure, Answer, Entry
    <2>2. answer' = [answer EXCEPT ![r] = a]
      BY <1>9 DEF FetchFail
    <2> QED
      BY <1>9, <2>1, <2>2 DEF FetchFail
  <1>10. ASSUME NEW r \in Request, Store(r) PROVE TypeOK'
    <2>1. entry[r] \in Entry
      BY <1>10 DEF Store
    <2>2. row' \in Entry \cup {None}
      BY <1>10, <2>1 DEF Store, Upsert, Entry
    <2>3. ServeUpstream(entry[r]) \in Answer
      BY <2>1 DEF ServeUpstream, Answer, Entry
    <2> QED
      BY <1>10, <2>2, <2>3 DEF Store
  <1>11. ASSUME NEW r \in Request, Extend(r) PROVE TypeOK'
    <2>1. entry[r] \in Entry
      BY <1>11 DEF Extend
    <2>2. row' \in Entry \cup {None}
      BY <1>11, <2>1 DEF Extend, Upsert, Entry
    <2>3. ServeEntry(entry[r], entry[r].exp, "cache") \in Answer
      BY <2>1 DEF ServeEntry, Answer, Entry
    <2> QED
      BY <1>11, <2>2, <2>3 DEF Extend
  <1>12. ASSUME NEW r \in Request, Return(r) PROVE TypeOK'
    <2>1. answer[r] \in Answer
      BY <1>12 DEF Return
    <2> QED
      BY <1>12, <2>1 DEF Return, Sharing
  <1>13. ASSUME NEW r \in Request, Reply(r) PROVE TypeOK'
    BY <1>13 DEF Reply
  <1>14. CASE DeleteStale
    BY <1>14 DEF DeleteStale
  <1>15. CASE Publish
    BY <1>15 DEF Publish
  <1>16. CASE Tick
    BY <1>16 DEF Tick
  <1>17. CASE UNCHANGED vars
    BY <1>17 DEF vars
  <1> QED
    BY <1>1, <1>2, <1>3, <1>4, <1>5, <1>6, <1>7, <1>8, <1>9, <1>10, <1>11, <1>12,
       <1>13, <1>14, <1>15, <1>16, <1>17
    DEF Next, Caller, Progress, Decide, Fetch

THEOREM TypeCorrect == Spec => []TypeOK
  BY TypeInit, TypeStep, PTL DEF Spec

-----------------------------------------------------------------------------
(* The flight group.  OneFlightPerKey is not inductive: it needs the map to  *)
(* agree with the program counters in both directions.                       *)

\* A call at work in fetchAndStore is the one the map names for its key.
LeaderRegistered ==
  \A r \in Request : pc[r] \in Leading => inflight[key[r]] = r

\* The map names nobody else.
RegisteredLeads ==
  \A k \in Key : inflight[k] # None =>
    pc[inflight[k]] \in Leading /\ key[inflight[k]] = k

\* Beyond arrival every call has a flight key, and one that waits has a flight.
KeyKnown ==
  \A r \in Request :
    /\ pc[r] \in Leading \cup {"lookup", "decide", "wait"} => key[r] \in Key
    /\ pc[r] = "wait" => inflight[key[r]] # None

FlightInv == LeaderRegistered /\ RegisteredLeads /\ KeyKnown

LEMMA FlightInit == Init => FlightInv
  BY NoneAssumption DEF Init, FlightInv, LeaderRegistered, RegisteredLeads, KeyKnown

LEMMA FlightStep == TypeOK /\ FlightInv /\ [Next]_vars => FlightInv'
  <1> SUFFICES ASSUME TypeOK, FlightInv, [Next]_vars PROVE FlightInv'
    OBVIOUS
  <1> USE NoneAssumption
      DEF TypeOK, FlightInv, LeaderRegistered, RegisteredLeads, KeyKnown
  <1>1. ASSUME NEW r \in Request, NEW k \in Key, Arrive(r, k) PROVE FlightInv'
    BY <1>1 DEF Arrive
  <1>2. ASSUME NEW r \in Request, Reject(r) PROVE FlightInv'
    BY <1>2 DEF Reject
  <1>3. ASSUME NEW r \in Request, Lookup(r) PROVE FlightInv'
    BY <1>3 DEF Lookup
  <1>4. ASSUME NEW r \in Request, ServeFresh(r) PROVE FlightInv'
    BY <1>4 DEF ServeFresh
  <1>5. ASSUME NEW r \in Request, Lead(r) PROVE FlightInv'
    BY <1>5 DEF Lead
  <1>6. ASSUME NEW r \in Request, Join(r) PROVE FlightInv'
    BY <1>6 DEF Join
  <1>7. ASSUME NEW r \in Request, FetchBody(r) PROVE FlightInv'
    BY <1>7 DEF FetchBody
  <1>8. ASSUME NEW r \in Request, FetchNotModified(r) PROVE FlightInv'
    <2>1. PICK s \in {"extend", "return"} : pc' = [pc EXCEPT ![r] = s]
      BY <1>8 DEF FetchNotModified
    <2>2. pc[r] = "fetch" /\ UNCHANGED <<key, inflight>>
      BY <1>8 DEF FetchNotModified
    <2> QED
      BY <2>1, <2>2
  <1>9. ASSUME NEW r \in Request, FetchFail(r) PROVE FlightInv'
    BY <1>9 DEF FetchFail
  <1>10. ASSUME NEW r \in Request, Store(r) PROVE FlightInv'
    BY <1>10 DEF Store
  <1>11. ASSUME NEW r \in Request, Extend(r) PROVE FlightInv'
    BY <1>11 DEF Extend
  <1>12. ASSUME NEW r \in Request, Return(r) PROVE FlightInv'
    <2>1. key[r] \in Key /\ inflight[key[r]] = r
      BY <1>12 DEF Return
    <2>2. ASSUME NEW q \in Request
          PROVE  /\ pc'[q] = IF q \in Sharing(r) THEN "done" ELSE pc[q]
                 /\ key'[q] = key[q]
                 /\ key[q] # key[r] => inflight'[key[q]] = inflight[key[q]]
      BY <1>12, <2>1 DEF Return
    <2>3. ASSUME NEW q \in Request, pc'[q] \in Leading \cup {"wait"} PROVE key[q] # key[r]
      BY <2>1, <2>2, <2>3 DEF Sharing
    <2>4. LeaderRegistered' /\ KeyKnown'
      <3>1. ASSUME NEW q \in Request, pc'[q] \in Leading PROVE inflight'[key'[q]] = q
        BY <2>2, <2>3, <3>1
      <3>2. ASSUME NEW q \in Request, pc'[q] \in Leading \cup {"lookup", "decide", "wait"}
            PROVE  key'[q] \in Key
        BY <2>2, <3>2
      <3>3. ASSUME NEW q \in Request, pc'[q] = "wait" PROVE inflight'[key'[q]] # None
        BY <2>2, <2>3, <3>3
      <3> QED
        BY <3>1, <3>2, <3>3
    <2>5. ASSUME NEW k \in Key, inflight'[k] # None
          PROVE  pc'[inflight'[k]] \in Leading /\ key'[inflight'[k]] = k
      <3>1. k # key[r] /\ inflight'[k] = inflight[k] /\ key' = key
        BY <1>12, <2>1, <2>5 DEF Return
      <3>2. inflight[k] \in Request /\ pc[inflight[k]] \in Leading /\ key[inflight[k]] = k
        BY <2>5, <3>1
      <3>3. inflight[k] \notin Sharing(r)
        BY <3>1, <3>2 DEF Sharing
      <3> QED
        BY <1>12, <3>1, <3>2, <3>3 DEF Return
    <2> QED
      BY <2>4, <2>5
  <1>13. ASSUME NEW r \in Request, Reply(r) PROVE FlightInv'
    BY <1>13 DEF Reply
  <1>14. CASE DeleteStale \/ Publish \/ Tick \/ UNCHANGED vars
    BY <1>14 DEF DeleteStale, Publish, Tick, vars
  <1> QED
    BY <1>1, <1>2, <1>3, <1>4, <1>5, <1>6, <1>7, <1>8, <1>9, <1>10, <1>11, <1>12,
       <1>13, <1>14
    DEF Next, Caller, Progress, Decide, Fetch

LEMMA FlightInvariant == Spec => []FlightInv
  BY FlightInit, FlightStep, TypeCorrect, PTL DEF Spec

\* Two calls with one flight key are never both inside fetchAndStore, whatever
\* fails: the deduplication that protects the api.met.no quota.
THEOREM OneFlight == Spec => []OneFlightPerKey
  <1>1. FlightInv => OneFlightPerKey
    BY DEF FlightInv, LeaderRegistered, OneFlightPerKey
  <1> QED
    BY <1>1, FlightInvariant, PTL

\* No joined caller is ever left without a leader at work on its key.
THEOREM NoOrphan == Spec => []WaiterHasLeader
  <1>1. TypeOK /\ FlightInv => WaiterHasLeader
    BY DEF TypeOK, FlightInv, RegisteredLeads, KeyKnown, WaiterHasLeader
  <1> QED
    BY <1>1, FlightInvariant, TypeCorrect, PTL

-----------------------------------------------------------------------------
(* The way to an answer.  FlightInv gives every waiting call a leader, and a *)
(* leader never waits, so that each step has one bearer.                     *)

LEMMA StepsByStage ==
  ASSUME TypeOK, FlightInv, NEW r \in Request, pc[r] \notin {"idle", "done"}
  PROVE  /\ Bearer(r) \in Request
         /\ pc[r] # "wait" => Bearer(r) = r
         /\ pc[r] = "wait" => pc[Bearer(r)] \in Leading /\ key[Bearer(r)] = key[r]
         /\ StepsLeft(r) = CASE pc[Bearer(r)] = "return" -> 1
                             [] pc[Bearer(r)] \in {"store", "extend"} -> 2
                             [] pc[Bearer(r)] = "fetch" -> 3
                             [] pc[Bearer(r)] = "decide" -> 4
                             [] OTHER -> 5
  <1>1. /\ Bearer(r) \in Request
        /\ pc[r] # "wait" => Bearer(r) = r
        /\ pc[r] = "wait" => pc[Bearer(r)] \in Leading /\ key[Bearer(r)] = key[r]
    BY DEF TypeOK, FlightInv, RegisteredLeads, KeyKnown, Bearer
  <1>2. Bearer(r) # None /\ pc[Bearer(r)] \notin {"idle", "done"}
    BY <1>1, NoneAssumption
  <1> QED
    BY <1>1, <1>2 DEF StepsLeft

\* What NoCallStartsOver says of one call.
Nearer(r) ==
  pc[r] \notin {"idle", "done"} =>
    /\ StepsLeft(r)' <= StepsLeft(r)
    /\ pc'[Bearer(r)] # pc[Bearer(r)] => StepsLeft(r)' < StepsLeft(r)

LEMMA StepsKept ==
  ASSUME TypeOK, FlightInv, NEW r \in Request,
         pc[r] \notin {"idle", "done"} =>
           Bearer(r)' = Bearer(r) /\ pc'[Bearer(r)] = pc[Bearer(r)]
  PROVE  Nearer(r)
  <1> SUFFICES ASSUME pc[r] \notin {"idle", "done"} PROVE Nearer(r)
    BY DEF Nearer
  <1>1. StepsLeft(r)' = StepsLeft(r)
    BY DEF StepsLeft
  <1>2. StepsLeft(r) \in Nat
    BY StepsByStage
  <1> QED
    BY <1>1, <1>2 DEF Nearer

\* A step that a call under way may take.
Onward(q) ==
  \/ pc[q] = "lookup" /\ pc'[q] = "decide"
  \/ pc[q] = "decide" /\ pc'[q] \in {"done", "fetch", "wait"}
  \/ pc[q] = "fetch" /\ pc'[q] \in {"store", "extend", "return"}
  \/ pc[q] \in {"store", "extend"} /\ pc'[q] = "return"

LEMMA OnwardNearer ==
  ASSUME TypeOK, FlightInv, TypeOK', FlightInv', NEW q \in Request, Onward(q),
         \A p \in Request \ {q} : pc'[p] = pc[p], key' = key,
         \A k \in Key : inflight[k] # None => inflight'[k] = inflight[k],
         NEW r \in Request
  PROVE  Nearer(r)
  <1> SUFFICES ASSUME pc[r] \notin {"idle", "done"} PROVE Nearer(r)
    BY DEF Nearer
  <1>1. CASE r = q
    <2>1. Bearer(r) = r
      BY <1>1 DEF Onward, Bearer
    <2>2. CASE pc'[r] = "done"
      <3>1. StepsLeft(r)' = 0
        BY <2>2, NoneAssumption DEF StepsLeft, Bearer
      <3> QED
        BY <2>1, <3>1, StepsByStage DEF Nearer
    <2>3. CASE pc'[r] = "wait"
      <3>1. StepsLeft(r) = 4
        BY <1>1, <2>1, <2>3, StepsByStage DEF Onward
      <3>2. pc'[Bearer(r)'] \in Leading /\ Bearer(r)' \in Request /\ Bearer(r)' # None
        BY <2>3, NoneAssumption DEF TypeOK, FlightInv, RegisteredLeads, KeyKnown, Bearer
      <3>3. StepsLeft(r)' \in 1..3
        BY <3>2 DEF StepsLeft
      <3> QED
        BY <3>1, <3>3 DEF Nearer
    <2>4. CASE pc'[r] \notin {"done", "wait"}
      <3>1. Bearer(r)' = r /\ r # None
        BY <2>4, NoneAssumption DEF Bearer
      <3> QED
        BY <1>1, <2>1, <2>4, <3>1 DEF Nearer, StepsLeft, Onward
    <2> QED
      BY <2>2, <2>3, <2>4
  <1>2. CASE r # q
    <2>1. Bearer(r)' = Bearer(r)
      BY <1>2 DEF TypeOK, FlightInv, KeyKnown, Bearer
    <2>2. CASE Bearer(r) = q
      <3>1. pc[q] \in Leading /\ q # None
        BY <1>2, <2>2, StepsByStage, NoneAssumption
      <3> QED
        BY <2>1, <2>2, <3>1 DEF Nearer, StepsLeft, Onward
    <2>3. CASE Bearer(r) # q
      BY <2>1, <2>3, StepsByStage, StepsKept
    <2> QED
      BY <2>2, <2>3
  <1> QED
    BY <1>1, <1>2

LEMMA NearerStep ==
  ASSUME TypeOK, FlightInv, TypeOK', FlightInv', [Next]_vars, NEW r \in Request
  PROVE  Nearer(r)
  <1>1. ASSUME NEW q \in Request, (\E k \in Key : Arrive(q, k)) \/ Reject(q) \/ Reply(q)
        PROVE  Nearer(r)
    <2>1. /\ pc[q] \in {"idle", "done"} /\ UNCHANGED inflight
          /\ \A p \in Request \ {q} : pc'[p] = pc[p] /\ key'[p] = key[p]
      BY <1>1 DEF Arrive, Reject, Reply, TypeOK
    <2>2. ASSUME pc[r] \notin {"idle", "done"}
          PROVE  Bearer(r)' = Bearer(r) /\ pc'[Bearer(r)] = pc[Bearer(r)]
      <3>1. Bearer(r) \in Request \ {q} /\ r # q
        BY <2>1, <2>2, StepsByStage
      <3> QED
        BY <2>1, <3>1 DEF Bearer
    <2> QED
      BY <2>2, StepsKept
  <1>2. ASSUME NEW q \in Request, Lookup(q) \/ Decide(q) \/ Fetch(q) \/ Store(q) \/ Extend(q)
        PROVE  Nearer(r)
    <2>1. Onward(q)
      BY <1>2 DEF Lookup, Decide, ServeFresh, Lead, Join, Fetch, FetchBody,
         FetchNotModified, FetchFail, Store, Extend, Onward, TypeOK
    <2>2. \A p \in Request \ {q} : pc'[p] = pc[p]
      BY <1>2 DEF Lookup, Decide, ServeFresh, Lead, Join, Fetch, FetchBody,
         FetchNotModified, FetchFail, Store, Extend, TypeOK
    <2>3. key' = key /\ \A k \in Key : inflight[k] # None => inflight'[k] = inflight[k]
      BY <1>2 DEF Lookup, Decide, ServeFresh, Lead, Join, Fetch, FetchBody,
         FetchNotModified, FetchFail, Store, Extend, TypeOK
    <2> QED
      BY <2>1, <2>2, <2>3, OnwardNearer
  <1>3. ASSUME NEW q \in Request, Return(q) PROVE Nearer(r)
    <2>1. key[q] \in Key /\ inflight[key[q]] = q /\ key' = key
      BY <1>3 DEF Return, FlightInv, LeaderRegistered, KeyKnown
    <2>2. \A p \in Request : pc'[p] = IF p \in Sharing(q) THEN "done" ELSE pc[p]
      BY <1>3 DEF Return
    <2>3. ASSUME r \in Sharing(q), pc[r] \notin {"idle", "done"} PROVE Nearer(r)
      <3>1. StepsLeft(r)' = 0
        BY <2>2, <2>3, NoneAssumption DEF StepsLeft, Bearer
      <3> QED
        BY <2>3, <3>1, StepsByStage DEF Nearer
    <2>4. ASSUME r \notin Sharing(q), pc[r] \notin {"idle", "done"}
          PROVE  Bearer(r)' = Bearer(r) /\ pc'[Bearer(r)] = pc[Bearer(r)]
      <3>1. pc'[r] = pc[r] /\ (pc[r] = "wait" => key[r] # key[q] /\ key[r] \in Key)
        BY <2>2, <2>4 DEF Sharing, FlightInv, KeyKnown
      <3>2. Bearer(r)' = Bearer(r)
        BY <1>3, <2>1, <3>1 DEF Return, TypeOK, Bearer
      <3>3. Bearer(r) \in Request /\ Bearer(r) \notin Sharing(q)
        BY <2>1, <2>4, <3>1, StepsByStage DEF Sharing
      <3> QED
        BY <2>2, <3>2, <3>3
    <2> QED
      BY <2>3, <2>4, StepsKept DEF Nearer
  <1>4. CASE DeleteStale \/ Publish \/ Tick \/ UNCHANGED vars
    <2>1. UNCHANGED <<pc, key, inflight>>
      BY <1>4 DEF DeleteStale, Publish, Tick, vars
    <2> QED
      BY <2>1, StepsKept DEF Bearer
  <1> QED
    BY <1>1, <1>2, <1>3, <1>4 DEF Next, Caller, Progress

\* Every step of a call or of its leader brings it closer to its answer, and no
\* step throws it back: with the fairness of these steps, which is left to TLC,
\* that is EveryCallAnswered.
THEOREM CallsMoveOn == Spec => NoCallStartsOver
  <1>1. TypeOK /\ FlightInv /\ TypeOK' /\ FlightInv' /\ [Next]_vars
          => [\A r \in Request : pc[r] \notin {"idle", "done"} =>
                /\ StepsLeft(r)' <= StepsLeft(r)
                /\ pc'[Bearer(r)] # pc[Bearer(r)] => StepsLeft(r)' < StepsLeft(r)]_vars
    BY NearerStep DEF Nearer
  <1> QED
    BY <1>1, TypeCorrect, FlightInvariant, PTL DEF Spec, NoCallStartsOver

-----------------------------------------------------------------------------
(* Freshness.  A body and an expiry travel together from the upstream through *)
(* the leader's copy, the row and other callers' lookups; the invariant says  *)
(* that at each of these places the pair is one the upstream granted.         *)

\* Release v exists, and was the newest at the moment exp was granted for it.
Backed(v, exp) ==
  /\ v \in 1..Version
  /\ exp # None => Newest(v, exp - TTL) /\ exp - TTL <= now

\* An entry's expiry and Last-Modified both belong to its body.
Genuine(e) == e # None => Backed(e.body, e.exp) /\ e.lm \in {e.body, None}

PastReleases == \A v \in 1..Version : since[v] <= now
EntriesGenuine ==
  Genuine(row) /\ \A r \in Request : Genuine(seen[r]) /\ Genuine(entry[r])
AnswerBacked(r) ==
  answer[r] # None =>
    /\ answer[r].source # "internal"
    /\ answer[r].source \in {"cache", "upstream"} => Backed(answer[r].body, answer[r].exp)

GrantInv == PastReleases /\ EntriesGenuine /\ \A r \in Request : AnswerBacked(r)

LEMMA GrantInit == Init => GrantInv
  BY NoneAssumption
  DEF Init, GrantInv, PastReleases, EntriesGenuine, AnswerBacked, Genuine, Version

\* The clock does not go back, and releases are only ever added, now.
LEMMA WorldStep ==
  ASSUME TypeOK, [Next]_vars
  PROVE  /\ now' \in Nat /\ now <= now'
         /\ \/ since' = since
            \/ since' = Append(since, now) /\ now' = now
  <1> USE DEF TypeOK, world
  <1>1. ASSUME NEW r \in Request, Caller(r) PROVE UNCHANGED <<now, since>>
    <2>1. CASE \E k \in Key : Arrive(r, k)
      BY <2>1 DEF Arrive
    <2>2. CASE Reject(r) \/ Reply(r)
      BY <2>2 DEF Reject, Reply
    <2>3. CASE Lookup(r) \/ Decide(r)
      BY <2>3 DEF Lookup, Decide, ServeFresh, Lead, Join
    <2>4. CASE Fetch(r)
      BY <2>4 DEF Fetch, FetchBody, FetchNotModified, FetchFail
    <2>5. CASE Store(r) \/ Extend(r) \/ Return(r)
      BY <2>5 DEF Store, Extend, Return
    <2> QED
      BY <1>1, <2>1, <2>2, <2>3, <2>4, <2>5 DEF Caller, Progress
  <1>2. CASE DeleteStale \/ Publish \/ Tick \/ UNCHANGED vars
    BY <1>2 DEF DeleteStale, Publish, Tick, vars
  <1> QED
    BY <1>1, <1>2 DEF Next

\* What the upstream granted stays granted: a later release cannot precede the
\* moment of the grant.
LEMMA BackedStable ==
  ASSUME TypeOK, PastReleases, [Next]_vars,
         NEW v \in Nat, NEW exp \in Time, Backed(v, exp)
  PROVE  Backed(v, exp)'
  <1>1. CASE since' = since
    BY <1>1, WorldStep, TimesAssumption, NoneAssumption
    DEF Backed, Newest, Version, TypeOK
  <1>2. CASE since' = Append(since, now) /\ now' = now
    <2>1. Version' = Version + 1 /\ Version \in Nat
      BY <1>2 DEF Version, TypeOK
    <2>2. since'[Version + 1] = now /\ \A w \in 1..Version : since'[w] = since[w]
      BY <1>2 DEF Version, TypeOK
    <2>3. v \in 1..Version /\ v \in 1..Version'
      BY <2>1 DEF Backed
    <2>4. ASSUME exp # None PROVE Newest(v, exp - TTL)'
      <3>1. exp - TTL \in Int /\ exp - TTL <= now /\ since[v] <= exp - TTL
        BY <2>4, TimesAssumption DEF Backed, Newest
      <3>2. since'[v] <= exp - TTL
        BY <2>2, <2>3, <3>1
      <3>3. CASE v = Version
        BY <1>2, <2>1, <2>2, <2>3, <3>1, <3>2, <3>3 DEF Newest
      <3>4. CASE v < Version
        <4>1. v + 1 \in 1..Version /\ exp - TTL <= since[v + 1]
          BY <2>1, <2>3, <2>4, <3>4 DEF Backed, Newest
        <4> QED
          BY <2>2, <2>3, <3>2, <4>1 DEF Newest
      <3> QED
        BY <2>1, <2>3, <3>3, <3>4
    <2> QED
      BY <1>2, <2>3, <2>4 DEF Backed
  <1> QED
    BY <1>1, <1>2, WorldStep

LEMMA GenuineStable ==
  ASSUME TypeOK, PastReleases, [Next]_vars,
         NEW e \in Entry \cup {None}, Genuine(e)
  PROVE  e # None => Backed(e.body, e.exp)' /\ e.lm \in {e.body, None}
  BY BackedStable DEF Genuine, Entry

LEMMA PastReleasesStep ==
  ASSUME TypeOK, PastReleases, [Next]_vars
  PROVE  PastReleases'
  <1>1. CASE since' = since
    BY <1>1, WorldStep DEF PastReleases, Version, TypeOK
  <1>2. CASE since' = Append(since, now) /\ now' = now
    BY <1>2 DEF PastReleases, Version, TypeOK
  <1> QED
    BY <1>1, <1>2, WorldStep

\* An answer granted now: the newest release with an expiry TTL from now.
LEMMA GrantedNow ==
  ASSUME TypeOK, PastReleases, NEW exp \in GrantedExpiry
  PROVE  Backed(Version, exp) /\ exp \in Time
  BY TimesAssumption, NoneAssumption
  DEF TypeOK, PastReleases, GrantedExpiry, Backed, Newest, Version

LEMMA GrantStep == TypeOK /\ GrantInv /\ [Next]_vars => GrantInv'
  <1> SUFFICES ASSUME TypeOK, GrantInv, [Next]_vars PROVE GrantInv'
    OBVIOUS
  <1> USE NoneAssumption DEF GrantInv
  <1>a. PastReleases /\ PastReleases' /\ TypeOK'
    BY PastReleasesStep, TypeStep
  <1>b. ASSUME NEW e \in Entry \cup {None}, Genuine(e), e # None
        PROVE  Backed(e.body, e.exp)' /\ e.lm \in {e.body, None}
    BY <1>a, <1>b, GenuineStable
  \* The entries and answers that a step leaves alone.
  <1>c. ASSUME NEW r \in Request, answer'[r] = answer[r] PROVE AnswerBacked(r)'
    <2>1. CASE answer[r] = None
      BY <1>c, <2>1 DEF AnswerBacked
    <2>2. CASE answer[r] # None /\ answer[r].source \notin {"cache", "upstream"}
      BY <1>c, <2>2 DEF AnswerBacked
    <2>3. CASE answer[r] # None /\ answer[r].source \in {"cache", "upstream"}
      <3>1. PICK v \in Nat, exp \in Time : v = answer[r].body /\ exp = answer[r].exp
        <4>1. answer[r] \in Answer
          BY <2>3 DEF TypeOK
        <4>2. answer[r].body \in Nat
          BY <2>3, <1>c DEF AnswerBacked, Backed
        <4> QED
          BY <4>1, <4>2 DEF Answer
      <3>2. Backed(v, exp)'
        BY <1>a, <2>3, <3>1, BackedStable DEF AnswerBacked
      <3> QED
        BY <1>c, <2>3, <3>1, <3>2 DEF AnswerBacked
    <2> QED
      BY <2>1, <2>2, <2>3
  \* What remains of a step: the parts of the state it changed.
  <1>d. ASSUME NEW r \in Request,
               Genuine(row'), Genuine(seen'[r]), Genuine(entry'[r]), AnswerBacked(r)',
               \A q \in Request \ {r} :
                 seen'[q] = seen[q] /\ entry'[q] = entry[q] /\ answer'[q] = answer[q]
        PROVE  GrantInv'
    <2>1. ASSUME NEW q \in Request PROVE Genuine(seen[q])' /\ Genuine(entry[q])'
      <3>1. Genuine(seen'[q]) /\ Genuine(entry'[q])
        BY <1>d DEF EntriesGenuine
      <3>2. seen'[q] \in Entry \cup {None} /\ entry'[q] \in Entry \cup {None}
        BY <1>a DEF TypeOK
      <3> QED
        BY <1>b, <3>1, <3>2 DEF Genuine
    <2>2. row' \in Entry \cup {None}
      BY <1>a DEF TypeOK
    <2>3. Genuine(row)'
      BY <1>b, <1>d, <2>2 DEF Genuine
    <2>4. ASSUME NEW q \in Request PROVE AnswerBacked(q)'
      BY <1>c, <1>d
    <2> QED
      BY <1>a, <2>1, <2>3, <2>4 DEF EntriesGenuine
  \* An answer made of a genuine entry, or of a failure.
  <1>e. ASSUME NEW r \in Request, NEW e \in Entry, Genuine(e),
               answer'[r].body = e.body, answer'[r].exp = e.exp,
               answer'[r].source # "internal"
        PROVE  AnswerBacked(r)'
    <2>1. Backed(e.body, e.exp)'
      BY <1>b, <1>e
    <2> QED
      BY <1>e, <2>1 DEF AnswerBacked
  <1>f. Genuine(None)
    BY DEF Genuine
  <1>3. ASSUME NEW r \in Request,
               (\E k \in Key : Arrive(r, k)) \/ Lookup(r) \/ Lead(r) \/ Join(r) \/ Reply(r)
        PROVE  GrantInv'
    <2>1. /\ row' = row /\ entry' = entry
          /\ seen'[r] \in {None, row, seen[r]} /\ answer'[r] \in {None, answer[r]}
          /\ \A q \in Request \ {r} : seen'[q] = seen[q] /\ answer'[q] = answer[q]
      <3>1. CASE (\E k \in Key : Arrive(r, k)) \/ Lead(r)
        BY <3>1 DEF Arrive, Lead
      <3>2. CASE Lookup(r) \/ Join(r) \/ Reply(r)
        BY <3>2 DEF Lookup, Join, Reply, TypeOK
      <3> QED
        BY <1>3, <3>1, <3>2
    <2>2. AnswerBacked(r)'
      BY <1>c, <2>1 DEF AnswerBacked
    <2> QED
      BY <1>d, <1>f, <2>1, <2>2 DEF EntriesGenuine
  <1>4. ASSUME NEW r \in Request, Reject(r) PROVE GrantInv'
    <2>1. answer' = [answer EXCEPT ![r] = Failure("invalid")]
      BY <1>4 DEF Reject
    <2>2. AnswerBacked(r)'
      BY <2>1 DEF AnswerBacked, Failure, TypeOK
    <2> QED
      BY <1>4, <1>d, <2>1, <2>2 DEF Reject, EntriesGenuine, TypeOK
  <1>5. ASSUME NEW r \in Request, ServeFresh(r) PROVE GrantInv'
    <2>1. /\ seen[r] \in Entry /\ Genuine(seen[r])
          /\ answer' = [answer EXCEPT ![r] = ServeEntry(seen[r], seen[r].exp, "cache")]
          /\ seen' = [seen EXCEPT ![r] = None]
          /\ UNCHANGED <<row, entry>>
      BY <1>5 DEF ServeFresh, Fresh, EntriesGenuine, TypeOK
    <2>2. answer'[r] = [source |-> "cache", body |-> seen[r].body, exp |-> seen[r].exp, at |-> seen[r].at]
      BY <2>1 DEF ServeEntry, TypeOK
    <2>3. AnswerBacked(r)'
      BY <1>e, <2>1, <2>2
    <2>4. Genuine(row') /\ Genuine(seen'[r]) /\ Genuine(entry'[r])
      BY <1>f, <2>1 DEF EntriesGenuine, TypeOK
    <2>5. \A q \in Request \ {r} :
            seen'[q] = seen[q] /\ entry'[q] = entry[q] /\ answer'[q] = answer[q]
      BY <2>1 DEF TypeOK
    <2> QED
      BY <1>d, <2>3, <2>4, <2>5
  <1>6. ASSUME NEW r \in Request, FetchBody(r) PROVE GrantInv'
    <2>1. PICK exp \in GrantedExpiry, lm \in {Version, None} :
            entry' = [entry EXCEPT ![r] =
                        [body |-> Version, lm |-> lm, exp |-> exp, at |-> None]]
      BY <1>6 DEF FetchBody
    <2>2. seen' = [seen EXCEPT ![r] = None] /\ UNCHANGED <<row, answer>>
      BY <1>6 DEF FetchBody
    <2>3. Genuine([body |-> Version, lm |-> lm, exp |-> exp, at |-> None])
      BY <1>a, GrantedNow DEF Genuine
    <2>4. Genuine(row') /\ Genuine(seen'[r]) /\ Genuine(entry'[r])
      BY <1>f, <2>1, <2>2, <2>3 DEF EntriesGenuine, TypeOK
    <2>5. AnswerBacked(r)'
      BY <1>c, <2>2
    <2>6. \A q \in Request \ {r} :
            seen'[q] = seen[q] /\ entry'[q] = entry[q] /\ answer'[q] = answer[q]
      BY <2>1, <2>2 DEF TypeOK
    <2> QED
      BY <1>d, <2>4, <2>5, <2>6
  <1>7. ASSUME NEW r \in Request, FetchNotModified(r) PROVE GrantInv'
    <2>1. seen[r] \in Entry /\ seen[r].lm # None /\ Version <= seen[r].lm
      BY <1>7 DEF FetchNotModified, ConditionalSince, TypeOK
    <2>2. PICK exp \in GrantedExpiry : entry' = [entry EXCEPT ![r] = [seen[r] EXCEPT !.exp = exp]]
      BY <1>7, <2>1 DEF FetchNotModified
    <2>3. seen' = [seen EXCEPT ![r] = None] /\ UNCHANGED <<row, answer>>
      BY <1>7, <2>1 DEF FetchNotModified
    \* The date sent was the body's own, so the body is the newest release.
    <2>4. seen[r].body = Version
      <3>1. Backed(seen[r].body, seen[r].exp) /\ seen[r].lm = seen[r].body
        BY <2>1 DEF EntriesGenuine, Genuine
      <3> QED
        BY <2>1, <3>1 DEF Backed, Version, TypeOK
    <2>5. Genuine([seen[r] EXCEPT !.exp = exp])
      <3>1. Backed(Version, exp) /\ seen[r].lm \in {seen[r].body, None}
        BY <1>a, <2>1, GrantedNow DEF EntriesGenuine, Genuine
      <3> QED
        BY <2>1, <2>4, <3>1 DEF Genuine, Entry
    <2>6. Genuine(row') /\ Genuine(seen'[r]) /\ Genuine(entry'[r])
      BY <1>f, <2>2, <2>3, <2>5 DEF EntriesGenuine, TypeOK
    <2>7. AnswerBacked(r)'
      BY <1>c, <2>3
    <2>8. \A q \in Request \ {r} :
            seen'[q] = seen[q] /\ entry'[q] = entry[q] /\ answer'[q] = answer[q]
      BY <2>2, <2>3 DEF TypeOK
    <2> QED
      BY <1>d, <2>6, <2>7, <2>8
  <1>8. ASSUME NEW r \in Request, FetchFail(r) PROVE GrantInv'
    <2>1. /\ answer'[r].source \in {"stale-cache", "unavailable"}
          /\ seen' = [seen EXCEPT ![r] = None] /\ UNCHANGED <<row, entry>>
          /\ \A q \in Request \ {r} : answer'[q] = answer[q]
      BY <1>8 DEF FetchFail, ServeEntry, Failure, TypeOK
    <2>2. AnswerBacked(r)'
      BY <2>1 DEF AnswerBacked
    <2>3. Genuine(row') /\ Genuine(seen'[r]) /\ Genuine(entry'[r])
      BY <1>f, <2>1 DEF EntriesGenuine, TypeOK
    <2> QED
      BY <1>d, <2>1, <2>2, <2>3 DEF TypeOK
  \* An upsert writes the leader's entry with another cached_at, or nothing.
  <1>g. ASSUME NEW e \in Entry, Genuine(e), Upsert(e) PROVE Genuine(row')
    <2>1. CASE row' = [e EXCEPT !.at = now]
      BY <1>g, <2>1 DEF Genuine, Entry
    <2>2. CASE row' = row
      BY <2>2 DEF EntriesGenuine
    <2> QED
      BY <1>g, <2>1, <2>2 DEF Upsert
  <1>9. ASSUME NEW r \in Request, Store(r) \/ Extend(r) PROVE GrantInv'
    <2>1. /\ entry[r] \in Entry /\ Genuine(entry[r]) /\ Upsert(entry[r])
          /\ entry' = [entry EXCEPT ![r] = None] /\ UNCHANGED seen
          /\ \/ answer' = [answer EXCEPT ![r] = ServeUpstream(entry[r])]
             \/ answer' = [answer EXCEPT ![r] = ServeEntry(entry[r], entry[r].exp, "cache")]
      BY <1>9 DEF Store, Extend, EntriesGenuine, TypeOK
    <2>2. /\ answer'[r].body = entry[r].body /\ answer'[r].exp = entry[r].exp
          /\ answer'[r].source \in {"cache", "upstream"}
          /\ \A q \in Request \ {r} : answer'[q] = answer[q]
      BY <2>1 DEF ServeEntry, ServeUpstream, TypeOK
    <2>3. AnswerBacked(r)'
      BY <1>e, <2>1, <2>2
    <2>4. Genuine(row') /\ Genuine(seen'[r]) /\ Genuine(entry'[r])
      BY <1>f, <1>g, <2>1 DEF EntriesGenuine, TypeOK
    <2> QED
      BY <1>d, <2>1, <2>2, <2>3, <2>4 DEF TypeOK
  <1>10. ASSUME NEW r \in Request, Return(r) PROVE GrantInv'
    <2>1. UNCHANGED <<row, seen, entry>>
      BY <1>10 DEF Return
    <2>2. EntriesGenuine'
      <3>1. row' \in Entry \cup {None}
        BY <1>a DEF TypeOK
      <3>2. ASSUME NEW q \in Request PROVE Genuine(seen[q])' /\ Genuine(entry[q])'
        <4>1. seen[q] \in Entry \cup {None} /\ entry[q] \in Entry \cup {None}
          BY DEF TypeOK
        <4> QED
          BY <1>b, <2>1, <4>1 DEF EntriesGenuine, Genuine
      <3> QED
        BY <1>b, <2>1, <3>1, <3>2 DEF EntriesGenuine, Genuine
    <2>3. ASSUME NEW q \in Request PROVE AnswerBacked(q)'
      <3>1. CASE q \notin Sharing(r)
        BY <1>10, <1>c, <3>1 DEF Return
      <3>2. CASE q \in Sharing(r)
        <4>1. answer'[r] = answer[r] /\ answer'[q] = answer[r]
          BY <1>10, <3>2 DEF Return, Sharing
        <4>2. AnswerBacked(r)'
          BY <1>c, <4>1
        <4> QED
          BY <4>1, <4>2 DEF AnswerBacked
      <3> QED
        BY <3>1, <3>2
    <2> QED
      BY <1>a, <2>2, <2>3
  <1>2. CASE DeleteStale \/ Publish \/ Tick \/ UNCHANGED vars
    <2>1. row' \in {row, None} /\ UNCHANGED <<seen, entry, answer>>
      BY <1>2 DEF DeleteStale, Publish, Tick, vars
    <2>2. EntriesGenuine'
      BY <2>1, <1>b DEF EntriesGenuine, Genuine, TypeOK
    <2>3. \A q \in Request : AnswerBacked(q)'
      BY <2>1, <1>c DEF AnswerBacked
    <2> QED
      BY <1>a, <2>2, <2>3
  <1> QED
    BY <1>a, <1>2, <1>3, <1>4, <1>5, <1>6, <1>7, <1>8, <1>9, <1>10
    DEF Next, Caller, Progress, Decide, Fetch

LEMMA GrantInvariant == Spec => []GrantInv
  BY GrantInit, GrantStep, TypeCorrect, PTL DEF Spec

\* What is answered as fresh until exp was the upstream's newest forecast TTL
\* before exp: no interleaving of refreshes, failed writes, sweeps and new
\* releases pairs a body with an expiry granted to another.
THEOREM FreshAnswersAreGranted == Spec => []FreshAnswersGranted
  <1>1. GrantInv => FreshAnswersGranted
    BY DEF GrantInv, AnswerBacked, Backed, FreshAnswersGranted
  <1> QED
    BY <1>1, GrantInvariant, PTL

\* The guard of service.go:117-119 is never reached.
THEOREM No304WithoutEntry == Spec => []NoUnbacked304
  <1>1. GrantInv => NoUnbacked304
    BY DEF GrantInv, AnswerBacked, NoUnbacked304
  <1> QED
    BY <1>1, GrantInvariant, PTL

-----------------------------------------------------------------------------
(* The row with a single flight key: leaders store one after the other, each *)
(* at least what the row held when it fetched.                               *)

SingleKey == \A k, l \in Key : k = l

\* What a leader is about to upsert is no older than the row.
StoresForward ==
  \A r \in Request : pc[r] \in {"store", "extend"} /\ row # None => row.body <= entry[r].body

LEMMA ForwardStep ==
  ASSUME SingleKey
  PROVE  TypeOK /\ FlightInv /\ GrantInv /\ StoresForward /\ [Next]_vars => StoresForward'
  <1> SUFFICES ASSUME TypeOK, FlightInv, GrantInv, StoresForward, [Next]_vars
               PROVE  StoresForward'
    OBVIOUS
  <1> USE NoneAssumption DEF StoresForward
  <1>a. ASSUME NEW r \in Request, NEW q \in Request, pc[r] \in Leading, pc[q] \in Leading
        PROVE  r = q
    BY <1>a DEF SingleKey, FlightInv, LeaderRegistered, KeyKnown
  \* Steps that neither write the row nor bring a leader to its upsert.
  <1>b. ASSUME row' \in {row, None},
               \A q \in Request : pc'[q] \in {"store", "extend"} =>
                 pc[q] = pc'[q] /\ entry'[q] = entry[q]
        PROVE  StoresForward'
    BY <1>b
  <1>1. ASSUME NEW r \in Request,
               (\E k \in Key : Arrive(r, k)) \/ Reject(r) \/ Lookup(r) \/ Decide(r)
                 \/ FetchFail(r) \/ Return(r) \/ Reply(r)
        PROVE  StoresForward'
    <2>1. CASE (\E k \in Key : Arrive(r, k)) \/ Reject(r)
      BY <1>b, <2>1 DEF Arrive, Reject, TypeOK
    <2>2. CASE Lookup(r) \/ Decide(r)
      BY <1>b, <2>2 DEF Lookup, Decide, ServeFresh, Lead, Join, TypeOK
    <2>3. CASE FetchFail(r) \/ Return(r) \/ Reply(r)
      BY <1>b, <2>3 DEF FetchFail, Return, Reply, TypeOK
    <2> QED
      BY <1>1, <2>1, <2>2, <2>3
  <1>2. ASSUME NEW r \in Request, FetchBody(r) PROVE StoresForward'
    <2>1. UNCHANGED row /\ entry'[r].body = Version /\ pc[r] = "fetch"
          /\ \A q \in Request \ {r} : pc'[q] = pc[q] /\ entry'[q] = entry[q]
      BY <1>2 DEF FetchBody, TypeOK
    <2>2. row # None => row.body <= Version
      BY DEF GrantInv, EntriesGenuine, Genuine, Backed
    <2> QED
      BY <2>1, <2>2
  <1>3. ASSUME NEW r \in Request, FetchNotModified(r) PROVE StoresForward'
    <2>1. seen[r] \in Entry /\ seen[r].lm # None /\ Version <= seen[r].lm
      <3>1. seen[r] # None
        BY <1>3 DEF FetchNotModified, ConditionalSince
      <3> QED
        BY <1>3, <3>1 DEF FetchNotModified, ConditionalSince, TypeOK
    <2>2. seen[r].body = seen[r].lm
      BY <2>1 DEF GrantInv, EntriesGenuine, Genuine
    <2>3. PICK exp \in GrantedExpiry : entry' = [entry EXCEPT ![r] = [seen[r] EXCEPT !.exp = exp]]
      BY <1>3, <2>1 DEF FetchNotModified
    <2>4. entry'[r].body = seen[r].body
      BY <2>1, <2>3 DEF TypeOK, Entry
    <2>5. UNCHANGED row
          /\ \A q \in Request \ {r} : pc'[q] = pc[q] /\ entry'[q] = entry[q]
      BY <1>3, <2>1, <2>3 DEF FetchNotModified, TypeOK
    <2>6. row # None => row.body \in Nat /\ row.body <= Version /\ Version \in Nat /\ seen[r].body \in Nat
      BY <2>1 DEF GrantInv, EntriesGenuine, Genuine, Backed, Version, TypeOK, Entry
    <2>7. row # None => row.body <= entry'[r].body
      BY <2>1, <2>2, <2>4, <2>6
    <2> QED
      BY <2>5, <2>7
  \* After its own upsert the leader is done, and no other leader is at work.
  <1>4. ASSUME NEW r \in Request, Store(r) \/ Extend(r) PROVE StoresForward'
    <2>1. pc[r] \in {"store", "extend"} /\ pc' = [pc EXCEPT ![r] = "return"]
      BY <1>4 DEF Store, Extend
    <2>2. \A q \in Request : pc'[q] \notin {"store", "extend"}
      BY <1>a, <2>1 DEF TypeOK
    <2> QED
      BY <2>2
  <1>5. CASE DeleteStale \/ Publish \/ Tick \/ UNCHANGED vars
    BY <1>b, <1>5 DEF DeleteStale, Publish, Tick, vars
  <1> QED
    BY <1>1, <1>2, <1>3, <1>4, <1>5 DEF Next, Caller, Progress, Fetch

LEMMA RowStep ==
  ASSUME TypeOK, StoresForward, [Next]_vars, row # None, row' # None
  PROVE  row.body <= row'.body
  <1>0. row \in Entry
    BY DEF TypeOK
  <1>1. CASE \E r \in Request : Store(r) \/ Extend(r)
    <2>1. PICK r \in Request : Store(r) \/ Extend(r)
      BY <1>1
    <2>2. pc[r] \in {"store", "extend"} /\ entry[r] \in Entry /\ Upsert(entry[r])
      BY <2>1 DEF Store, Extend, TypeOK
    <2>3. row' = row \/ row'.body = entry[r].body
      BY <2>2 DEF Upsert, Entry
    <2> QED
      BY <1>0, <2>2, <2>3 DEF StoresForward, Entry
  <1>2. CASE ~\E r \in Request : Store(r) \/ Extend(r)
    <2>1. row' = row
      <3>1. ASSUME NEW r \in Request,
                   (\E k \in Key : Arrive(r, k)) \/ Reject(r) \/ Lookup(r) \/ Decide(r)
            PROVE  row' = row
        BY <3>1 DEF Arrive, Reject, Lookup, Decide, ServeFresh, Lead, Join
      <3>2. ASSUME NEW r \in Request, Fetch(r) \/ Return(r) \/ Reply(r) PROVE row' = row
        BY <3>2 DEF Fetch, FetchBody, FetchNotModified, FetchFail, Return, Reply
      <3>3. CASE DeleteStale \/ Publish \/ Tick \/ UNCHANGED vars
        BY <3>3 DEF DeleteStale, Publish, Tick, vars
      <3> QED
        BY <1>2, <3>1, <3>2, <3>3 DEF Next, Caller, Progress
    <2> QED
      BY <1>0, <2>1 DEF Entry
  <1> QED
    BY <1>1, <1>2

\* With one flight key (one process, one spelling of the coordinate) a stored
\* forecast is never replaced by an older release.
THEOREM RowMovesForward ==
  ASSUME SingleKey
  PROVE  Spec => RowNeverRegresses
  <1>1. Init => StoresForward
    BY DEF Init, StoresForward
  <1>2. TypeOK /\ StoresForward /\ [Next]_vars
          => [row # None /\ row' # None => row.body <= row'.body]_vars
    BY RowStep
  <1> QED
    BY <1>1, <1>2, ForwardStep, TypeCorrect, FlightInvariant, GrantInvariant, PTL
    DEF Spec, RowNeverRegresses

-----------------------------------------------------------------------------
(* The refinement.  GrantInv says of every pair of body and expiry in flight *)
(* that it was granted.  The promise is also about times of storage, and     *)
(* about what is served when the upstream fails.                             *)

USE NoneAssumption

\* v was released when an entry with it was stored.
StoredAt(v, at) == v \in 1..Version /\ at \in since[v]..now

Expired(exp) == exp = None \/ exp <= now

\* A forecast that may be told.
Kept(a) ==
  /\ a.source \in {"cache", "upstream", "stale-cache"}
  /\ Backed(a.body, a.exp)
  /\ StoredAt(a.body, a.at)
  /\ a.source = "stale-cache" => Expired(a.exp)

\* The entries on their way to an answer: a leader only ever holds one whose
\* time is up, and an extended one keeps the time at which it was stored.
EntryKept(r) ==
  /\ seen[r] # None => StoredAt(seen[r].body, seen[r].at)
  /\ pc[r] = "extend" => StoredAt(entry[r].body, entry[r].at)
  /\ pc[r] = "fetch" /\ seen[r] # None => Expired(seen[r].exp)

Outcome(r) ==
  answer[r] # None =>
    \/ Kept(answer[r])
    \/ answer[r] = Failure("unavailable")
    \/ pc[r] = "done" /\ answer[r] = Failure("invalid")

RowKept == row # None => StoredAt(row.body, row.at)

KeptInv == RowKept /\ \A r \in Request : EntryKept(r) /\ Outcome(r)

LEMMA KeptInit == Init => KeptInv
  BY DEF Init, KeptInv, RowKept, EntryKept, Outcome

-----------------------------------------------------------------------------
(* What may be told now may be told later. *)

LEMMA StoredStable ==
  ASSUME TypeOK, [Next]_vars, NEW v, NEW at, StoredAt(v, at)
  PROVE  StoredAt(v, at)'
  <1>1. v \in 1..Version /\ at \in since[v]..now /\ now \in Nat /\ since[v] \in Nat
    BY DEF StoredAt, TypeOK, Version
  <1>2. now' \in Nat /\ now <= now'
    BY WorldStep
  <1>3. v \in 1..Version' /\ since'[v] = since[v]
    <2>1. CASE since' = since
      BY <1>1, <2>1 DEF Version
    <2>2. CASE since' = Append(since, now)
      BY <1>1, <2>2 DEF Version, TypeOK
    <2> QED
      BY <2>1, <2>2, WorldStep
  <1> QED
    BY <1>1, <1>2, <1>3 DEF StoredAt

LEMMA ExpiredStable ==
  ASSUME TypeOK, [Next]_vars, NEW exp \in Time, Expired(exp)
  PROVE  Expired(exp)'
  BY WorldStep DEF Expired, TypeOK

LEMMA KeptStable ==
  ASSUME TypeOK, PastReleases, [Next]_vars, NEW a \in Answer, Kept(a)
  PROVE  Kept(a)'
  <1>1. a.exp \in Time /\ a.body \in Nat
    BY DEF Answer, Kept, Backed
  <1>2. Backed(a.body, a.exp)'
    BY <1>1, BackedStable DEF Kept
  <1>3. StoredAt(a.body, a.at)'
    BY StoredStable DEF Kept
  <1>4. a.source = "stale-cache" => Expired(a.exp)'
    BY <1>1, ExpiredStable DEF Kept
  <1> QED
    BY <1>2, <1>3, <1>4 DEF Kept

LEMMA Untouched ==
  ASSUME TypeOK, PastReleases, [Next]_vars, NEW r \in Request, EntryKept(r), Outcome(r),
         pc'[r] = pc[r], seen'[r] = seen[r], entry'[r] = entry[r], answer'[r] = answer[r]
  PROVE  EntryKept(r)' /\ Outcome(r)'
  <1>1. seen[r] # None => StoredAt(seen[r].body, seen[r].at)'
    BY StoredStable DEF EntryKept
  <1>2. pc[r] = "extend" => StoredAt(entry[r].body, entry[r].at)'
    BY StoredStable DEF EntryKept
  <1>3. pc[r] = "fetch" /\ seen[r] # None => Expired(seen[r].exp)'
    BY ExpiredStable DEF EntryKept, TypeOK, Entry
  <1>4. answer[r] # None /\ Kept(answer[r]) => Kept(answer[r])'
    BY KeptStable DEF TypeOK
  <1>5. EntryKept(r)'
    BY <1>1, <1>2, <1>3 DEF EntryKept
  <1>6. Outcome(r)'
    BY <1>4 DEF Outcome, Kept, Failure
  <1> QED
    BY <1>5, <1>6

\* An answer made of an entry that was read.
LEMMA ServedKept ==
  ASSUME TypeOK, GrantInv, NEW e \in Entry, Genuine(e), StoredAt(e.body, e.at),
         NEW source \in {"cache", "stale-cache"}, source = "stale-cache" => Expired(e.exp)
  PROVE  ServeEntry(e, e.exp, source) \in Answer /\ Kept(ServeEntry(e, e.exp, source))
  BY DEF ServeEntry, Answer, Entry, Kept, Genuine

LEMMA KeptStep == TypeOK /\ GrantInv /\ KeptInv /\ [Next]_vars => KeptInv'
  <1> SUFFICES ASSUME TypeOK, GrantInv, KeptInv, [Next]_vars PROVE KeptInv'
    OBVIOUS
  <1>a. PastReleases /\ TypeOK'
    BY TypeStep DEF GrantInv
  <1>b. row' = row => RowKept'
    BY StoredStable DEF KeptInv, RowKept
  \* What remains of a step of one caller.
  <1>c. ASSUME NEW r \in Request, RowKept', EntryKept(r)', Outcome(r)',
               \A q \in Request \ {r} :
                 /\ pc'[q] = pc[q] /\ seen'[q] = seen[q]
                 /\ entry'[q] = entry[q] /\ answer'[q] = answer[q]
        PROVE  KeptInv'
    BY <1>a, <1>c, Untouched DEF KeptInv
  \* The caller is told, or about to be told, a forecast that may be told.
  <1>d. ASSUME NEW r \in Request, NEW x \in Answer, Kept(x), answer'[r] = x
        PROVE  Outcome(r)'
    <2>1. Kept(x)'
      BY <1>a, <1>d, KeptStable
    <2> QED
      BY <1>d, <2>1 DEF Outcome, Kept
  \* An entry that was released when it was stored stays one.
  <1>e. ASSUME NEW e, StoredAt(e.body, e.at) PROVE StoredAt(e.body, e.at)'
    BY <1>e, StoredStable
  \* A leader's entry at the moment it is stamped.
  <1>f. ASSUME NEW r \in Request, entry[r] \in Entry
        PROVE  /\ Backed(entry[r].body, entry[r].exp) /\ StoredAt(entry[r].body, now)
               /\ Upsert(entry[r]) => RowKept'
    <2>1. Backed(entry[r].body, entry[r].exp) /\ since[entry[r].body] <= now
      BY <1>a, <1>f DEF GrantInv, EntriesGenuine, Genuine, Backed, PastReleases
    <2>2. StoredAt(entry[r].body, now)
      BY <2>1 DEF StoredAt, Backed, TypeOK, Version
    <2>3. ASSUME Upsert(entry[r]) PROVE RowKept'
      <3>1. CASE row' = row
        BY <1>b, <3>1
      <3>2. CASE row' = [entry[r] EXCEPT !.at = now]
        <4>1. PICK v, at : v = entry[r].body /\ at = now /\ StoredAt(v, at)
          BY <2>2
        <4>2. row'.body = v /\ row'.at = at
          BY <1>f, <3>2, <4>1 DEF Entry
        <4>3. StoredAt(v, at)'
          BY <4>1, StoredStable
        <4> QED
          BY <4>2, <4>3 DEF RowKept, StoredAt
      <3> QED
        BY <2>3, <3>1, <3>2 DEF Upsert
    <2> QED
      BY <2>1, <2>2, <2>3
  <1>1. ASSUME NEW r \in Request,
               (\E k \in Key : Arrive(r, k)) \/ Lookup(r) \/ Lead(r) \/ Join(r)
        PROVE  KeptInv'
    <2>1. /\ UNCHANGED <<row, entry, answer>>
          /\ pc'[r] \in {"lookup", "decide", "fetch", "wait"}
          /\ seen'[r] \in {seen[r], row, None}
          /\ pc'[r] = "fetch" => seen'[r] = seen[r] /\ ~Fresh(seen[r])
          /\ pc[r] \notin {"return", "done"}
          /\ \A q \in Request \ {r} : pc'[q] = pc[q] /\ seen'[q] = seen[q]
      BY <1>1 DEF Arrive, Lookup, Lead, Join, TypeOK
    <2>2. EntryKept(r)'
      <3>1. seen'[r] # None => StoredAt(seen'[r].body, seen'[r].at)
        BY <2>1 DEF KeptInv, RowKept, EntryKept
      <3>2. seen'[r] # None => StoredAt(seen[r].body, seen[r].at)'
        BY <3>1, StoredStable DEF StoredAt
      <3>3. pc'[r] = "fetch" /\ seen'[r] # None => Expired(seen[r].exp)'
        <4>1. pc'[r] = "fetch" /\ seen'[r] # None => seen[r] \in Entry /\ Expired(seen[r].exp)
          BY <2>1 DEF Fresh, Expired, TypeOK, Entry
        <4> QED
          BY <2>1, <4>1, ExpiredStable DEF Entry, Expired
      <3> QED
        BY <2>1, <3>2, <3>3 DEF EntryKept
    <2>3. Outcome(r)'
      BY <2>1 DEF TypeOK, Outcome
    <2> QED
      BY <1>b, <1>c, <2>1, <2>2, <2>3
  <1>2. ASSUME NEW r \in Request, Reject(r) \/ Reply(r) PROVE KeptInv'
    <2>1. /\ UNCHANGED <<row, seen, entry>> /\ pc'[r] \in {"done", "idle"}
          /\ answer'[r] = None \/ (pc'[r] = "done" /\ answer'[r] = Failure("invalid"))
          /\ \A q \in Request \ {r} : pc'[q] = pc[q] /\ answer'[q] = answer[q]
      BY <1>2 DEF Reject, Reply, TypeOK
    <2>2. EntryKept(r)'
      <3>1. seen[r] # None => StoredAt(seen[r].body, seen[r].at)'
        BY <2>1, StoredStable DEF KeptInv, EntryKept, StoredAt
      <3> QED
        BY <2>1, <3>1 DEF EntryKept
    <2>3. Outcome(r)'
      BY <2>1 DEF Outcome, Failure
    <2> QED
      BY <1>b, <1>c, <2>1, <2>2, <2>3
  <1>3. ASSUME NEW r \in Request, ServeFresh(r) PROVE KeptInv'
    <2>1. seen[r] \in Entry /\ seen[r] # None
      BY <1>3 DEF ServeFresh, Fresh, TypeOK
    <2>2. PICK x \in Answer : x = ServeEntry(seen[r], seen[r].exp, "cache") /\ Kept(x)
      BY <2>1, ServedKept DEF GrantInv, EntriesGenuine, KeptInv, EntryKept
    <2>3. /\ answer'[r] = x /\ pc'[r] = "done" /\ seen'[r] = None
          /\ UNCHANGED <<row, entry>>
          /\ \A q \in Request \ {r} :
               pc'[q] = pc[q] /\ seen'[q] = seen[q] /\ answer'[q] = answer[q]
      BY <1>3, <2>2 DEF ServeFresh, TypeOK
    <2>4. Outcome(r)'
      BY <1>d, <2>2, <2>3
    <2>5. EntryKept(r)'
      BY <2>3 DEF EntryKept
    <2> QED
      BY <1>b, <1>c, <2>3, <2>4, <2>5
  <1>4. ASSUME NEW r \in Request, FetchBody(r) PROVE KeptInv'
    <2>1. /\ UNCHANGED <<row, answer>> /\ pc'[r] = "store" /\ pc[r] = "fetch" /\ seen'[r] = None
          /\ \A q \in Request \ {r} :
               pc'[q] = pc[q] /\ seen'[q] = seen[q] /\ entry'[q] = entry[q]
      BY <1>4 DEF FetchBody, TypeOK
    <2>2. EntryKept(r)'
      BY <2>1 DEF EntryKept
    <2>3. Outcome(r)'
      BY <2>1 DEF TypeOK, Outcome
    <2> QED
      BY <1>b, <1>c, <2>1, <2>2, <2>3
  <1>5. ASSUME NEW r \in Request, FetchNotModified(r) PROVE KeptInv'
    <2>1. seen[r] # None /\ seen[r] \in Entry
      BY <1>5 DEF FetchNotModified, ConditionalSince, TypeOK
    <2>2. PICK exp \in GrantedExpiry : entry' = [entry EXCEPT ![r] = [seen[r] EXCEPT !.exp = exp]]
      BY <1>5, <2>1 DEF FetchNotModified
    <2>3. /\ UNCHANGED <<row, answer>> /\ pc'[r] = "extend" /\ pc[r] = "fetch" /\ seen'[r] = None
          /\ \A q \in Request \ {r} : pc'[q] = pc[q] /\ seen'[q] = seen[q]
      BY <1>5, <2>1 DEF FetchNotModified, TypeOK
    <2>4. /\ entry'[r].body = seen[r].body /\ entry'[r].at = seen[r].at
          /\ \A q \in Request \ {r} : entry'[q] = entry[q]
      BY <2>1, <2>2 DEF TypeOK, Entry
    <2>5. PICK v, at : v = seen[r].body /\ at = seen[r].at /\ StoredAt(v, at)
      BY <2>1 DEF KeptInv, EntryKept
    <2>6. StoredAt(v, at)'
      BY <2>5, StoredStable
    <2>7. EntryKept(r)'
      BY <2>3, <2>4, <2>5, <2>6 DEF EntryKept, StoredAt
    <2>8. Outcome(r)'
      BY <2>3 DEF TypeOK, Outcome
    <2> QED
      BY <1>b, <1>c, <2>3, <2>4, <2>7, <2>8
  <1>6. ASSUME NEW r \in Request, FetchFail(r) PROVE KeptInv'
    <2>1. /\ UNCHANGED <<row, entry>> /\ pc'[r] = "return" /\ pc[r] = "fetch" /\ seen'[r] = None
          /\ \A q \in Request \ {r} :
               pc'[q] = pc[q] /\ seen'[q] = seen[q] /\ answer'[q] = answer[q]
      BY <1>6 DEF FetchFail, TypeOK
    <2>2. EntryKept(r)'
      BY <2>1 DEF EntryKept
    <2>3. Outcome(r)'
      <3>1. CASE seen[r] = None
        <4>1. answer'[r] = Failure("unavailable")
          BY <1>6, <3>1 DEF FetchFail, TypeOK
        <4> QED
          BY <4>1 DEF Outcome, Failure
      <3>2. CASE seen[r] # None
        <4>1. seen[r] \in Entry /\ Genuine(seen[r]) /\ StoredAt(seen[r].body, seen[r].at)
              /\ Expired(seen[r].exp)
          BY <2>1, <3>2 DEF TypeOK, GrantInv, EntriesGenuine, KeptInv, EntryKept
        <4>2. PICK x \in Answer :
                x = ServeEntry(seen[r], seen[r].exp, "stale-cache") /\ Kept(x)
          BY <4>1, ServedKept
        <4>3. answer'[r] = x
          BY <1>6, <3>2, <4>2 DEF FetchFail, TypeOK
        <4> QED
          BY <1>d, <4>2, <4>3
      <3> QED
        BY <3>1, <3>2
    <2> QED
      BY <1>b, <1>c, <2>1, <2>2, <2>3
  <1>7. ASSUME NEW r \in Request, Store(r) \/ Extend(r) PROVE KeptInv'
    <2>1. entry[r] \in Entry /\ Upsert(entry[r])
      BY <1>7 DEF Store, Extend, TypeOK
    <2>2. RowKept' /\ Backed(entry[r].body, entry[r].exp) /\ StoredAt(entry[r].body, now)
      BY <1>f, <2>1
    <2>3. /\ pc'[r] = "return" /\ seen' = seen /\ pc[r] \in {"store", "extend"}
          /\ \A q \in Request \ {r} :
               pc'[q] = pc[q] /\ entry'[q] = entry[q] /\ answer'[q] = answer[q]
      BY <1>7 DEF Store, Extend, TypeOK
    <2>4. EntryKept(r)'
      <3>1. seen[r] # None => StoredAt(seen[r].body, seen[r].at)'
        BY <2>3, StoredStable DEF KeptInv, EntryKept, StoredAt
      <3> QED
        BY <2>3, <3>1 DEF EntryKept
    <2>5. PICK x \in Answer : answer'[r] = x /\ Kept(x)
      <3>1. CASE Store(r)
        <4>1. answer'[r] = ServeUpstream(entry[r])
          BY <3>1 DEF Store, TypeOK
        <4>2. ServeUpstream(entry[r]) \in Answer /\ Kept(ServeUpstream(entry[r]))
          BY <2>1, <2>2 DEF ServeUpstream, Kept, Answer, Entry, TypeOK
        <4> QED
          BY <4>1, <4>2
      <3>2. CASE Extend(r)
        <4>1. answer'[r] = ServeEntry(entry[r], entry[r].exp, "cache")
          BY <3>2 DEF Extend, TypeOK
        <4>2. Genuine(entry[r]) /\ StoredAt(entry[r].body, entry[r].at)
          BY <3>2 DEF Extend, GrantInv, EntriesGenuine, KeptInv, EntryKept
        <4>3. /\ ServeEntry(entry[r], entry[r].exp, "cache") \in Answer
              /\ Kept(ServeEntry(entry[r], entry[r].exp, "cache"))
          BY <2>1, <4>2, ServedKept
        <4> QED
          BY <4>1, <4>3
      <3> QED
        BY <1>7, <3>1, <3>2
    <2>6. Outcome(r)'
      BY <1>d, <2>5
    <2> QED
      BY <1>c, <2>2, <2>3, <2>4, <2>6
  <1>8. ASSUME NEW r \in Request, Return(r) PROVE KeptInv'
    <2>1. /\ UNCHANGED <<row, seen, entry>> /\ pc[r] = "return" /\ answer[r] \in Answer
          /\ answer[r] # None
      BY <1>8 DEF Return, TypeOK
    <2>2. ASSUME NEW q \in Request, q \in Sharing(r) PROVE EntryKept(q)' /\ Outcome(q)'
      <3>1. pc'[q] = "done" /\ answer'[q] = answer[r]
        BY <1>8, <2>2 DEF Return
      <3>2. seen[q] # None => StoredAt(seen[q].body, seen[q].at)'
        BY <2>1, StoredStable DEF KeptInv, EntryKept, StoredAt
      <3>3. EntryKept(q)'
        BY <2>1, <3>1, <3>2 DEF EntryKept
      <3>4. Kept(answer[r]) \/ answer[r] = Failure("unavailable")
        BY <2>1 DEF KeptInv, Outcome
      <3>5. CASE Kept(answer[r])
        BY <1>d, <2>1, <3>1, <3>3, <3>5
      <3>6. CASE answer[r] = Failure("unavailable")
        BY <3>1, <3>3, <3>6 DEF Outcome, Failure
      <3> QED
        BY <3>3, <3>4, <3>5, <3>6
    <2>3. ASSUME NEW q \in Request, q \notin Sharing(r) PROVE EntryKept(q)' /\ Outcome(q)'
      <3>1. pc'[q] = pc[q] /\ answer'[q] = answer[q]
        BY <1>8, <2>3 DEF Return
      <3> QED
        BY <1>a, <2>1, <3>1, Untouched DEF KeptInv
    <2> QED
      BY <1>b, <2>1, <2>2, <2>3 DEF KeptInv
  <1>9. CASE DeleteStale \/ Publish \/ Tick \/ UNCHANGED vars
    <2>1. row' \in {row, None} /\ UNCHANGED <<pc, seen, entry, answer>>
      BY <1>9 DEF DeleteStale, Publish, Tick, vars
    <2>2. RowKept'
      BY <1>b, <2>1 DEF RowKept
    <2> QED
      BY <1>a, <2>1, <2>2, Untouched DEF KeptInv
  <1> QED
    BY <1>1, <1>2, <1>3, <1>4, <1>5, <1>6, <1>7, <1>8, <1>9
    DEF Next, Caller, Progress, Decide, Fetch

LEMMA KeptInvariant == Spec => []KeptInv
  BY KeptInit, KeptStep, TypeCorrect, GrantInvariant, PTL DEF Spec

-----------------------------------------------------------------------------
(* The refinement. *)

\* The abstract state: what CallOf and the mapping of told make of the concrete.
ToldOf(r) == IF pc[r] = "done" THEN answer[r] ELSE None

\* What may be told is promised.
LEMMA KeptIsPromised ==
  ASSUME TypeOK, NEW a \in Answer, Kept(a)
  PROVE  a \in Promise!Promised
  <1> DEFINE v == a.body
  <1>1. /\ v \in 1..Version /\ a.at \in since[v]..now /\ now \in Nat
        /\ since[v] \in Nat /\ a.exp \in Time
        /\ a = [source |-> a.source, body |-> v, exp |-> a.exp, at |-> a.at]
    BY DEF Kept, StoredAt, TypeOK, Version, Answer
  <1>2. Promise!Version = Version
    BY DEF Promise!Version, Version
  <1>3. a.exp \in Promise!Granted(v)
    <2>1. CASE a.exp = None
      BY <2>1 DEF Promise!Granted
    <2>2. CASE a.exp # None
      <3>1. a.exp \in Nat /\ since[v] <= a.exp - TTL /\ a.exp - TTL <= now
            /\ (v < Version => a.exp - TTL <= since[v + 1])
        BY <1>1, <2>2 DEF Kept, Backed, Newest
      <3>2. a.exp - TTL \in Nat /\ (a.exp - TTL) + TTL = a.exp
        BY <1>1, <3>1, TimesAssumption
      <3>3. a.exp - TTL \in Promise!Reign(v)
        <4>1. CASE v < Version
          <5>1. since[v + 1] \in Nat
            BY <1>1, <4>1 DEF TypeOK, Version
          <5> QED
            BY <1>1, <1>2, <3>1, <3>2, <4>1, <5>1 DEF Promise!Reign
        <4>2. CASE ~(v < Version)
          BY <1>1, <1>2, <3>1, <3>2, <4>2 DEF Promise!Reign
        <4> QED
          BY <4>1, <4>2
      <3> QED
        BY <3>2, <3>3 DEF Promise!Granted
    <2> QED
      BY <2>1, <2>2
  <1>4. a \in Promise!Forecast(v) \cup Promise!Fallback(v)
    <2>1. CASE a.source \in {"cache", "upstream"}
      BY <1>1, <1>3, <2>1 DEF Promise!Forecast
    <2>2. CASE a.source = "stale-cache"
      <3>1. a.exp \in {e \in Promise!Granted(v) : e = None \/ e <= now}
        BY <1>3, <2>2 DEF Kept, Expired
      <3> QED
        BY <1>1, <2>2, <3>1 DEF Promise!Fallback
    <2> QED
      BY <2>1, <2>2 DEF Kept
  <1> QED
    BY <1>1, <1>2, <1>4 DEF Promise!Promised

LEMMA UnavailableIsPromised == Failure("unavailable") \in Promise!Promised
  BY DEF Failure, Promise!Promised, Promise!Error

\* The initial states map to initial states.
LEMMA InitRefines == Init => Promise!ServiceInit
  BY DEF Init, Promise!ServiceInit, CallOf

\* One result for the calls of S and nothing for the others.
LEMMA TellRefines ==
  ASSUME NEW S \in (SUBSET Request) \ {{}}, NEW a \in Promise!Promised,
         UNCHANGED <<now, since>>,
         \A r \in S : CallOf(r) = "asked" /\ CallOf(r)' = "told" /\ ToldOf(r)' = a,
         \A r \in Request \ S : CallOf(r)' = CallOf(r) /\ ToldOf(r)' = ToldOf(r)
  PROVE  Promise!Tell(S)
  BY DEF Promise!Tell, ToldOf

\* A step of one call that changes what is seen of it, or nothing.
LEMMA OthersKeep ==
  ASSUME NEW r \in Request, \A q \in Request \ {r} : pc'[q] = pc[q] /\ answer'[q] = answer[q]
  PROVE  \A q \in Request \ {r} : CallOf(q)' = CallOf(q) /\ ToldOf(q)' = ToldOf(q)
  BY DEF CallOf, ToldOf

LEMMA StutterRefines ==
  ASSUME UNCHANGED <<now, since>>,
         \A r \in Request : CallOf(r)' = CallOf(r) /\ ToldOf(r)' = ToldOf(r)
  PROVE  UNCHANGED Promise!service
  BY DEF Promise!service, ToldOf

LEMMA StepRefines ==
  TypeOK /\ GrantInv /\ KeptInv /\ [Next]_vars => [Promise!ServiceNext]_(Promise!service)
  <1> SUFFICES ASSUME TypeOK, GrantInv, KeptInv, [Next]_vars
               PROVE  Promise!ServiceNext \/ UNCHANGED Promise!service
    OBVIOUS
  <1>1. ASSUME NEW r \in Request, NEW k \in Key, Arrive(r, k)
        PROVE  Promise!ServiceNext
    <2>1. /\ pc[r] = "idle" /\ pc'[r] = "lookup" /\ UNCHANGED <<now, since, answer>>
          /\ \A q \in Request \ {r} : pc'[q] = pc[q]
      BY <1>1 DEF Arrive, world, TypeOK
    <2>2. Promise!Ask(r)
      BY <2>1 DEF Promise!Ask, CallOf
    <2> QED
      BY <2>2 DEF Promise!ServiceNext
  <1>2. ASSUME NEW r \in Request, Reject(r) PROVE Promise!ServiceNext
    <2>1. /\ pc[r] = "idle" /\ pc'[r] = "done" /\ answer'[r] = Failure("invalid")
          /\ UNCHANGED <<now, since>>
          /\ \A q \in Request \ {r} : pc'[q] = pc[q] /\ answer'[q] = answer[q]
      BY <1>2 DEF Reject, world, TypeOK
    <2>2. Promise!Refuse(r)
      BY <2>1 DEF Promise!Refuse, Promise!Error, Failure, CallOf
    <2> QED
      BY <2>2 DEF Promise!ServiceNext
  <1>3. ASSUME NEW r \in Request, Reply(r) PROVE Promise!ServiceNext
    <2>1. /\ pc[r] = "done" /\ pc'[r] = "idle" /\ UNCHANGED <<now, since>>
          /\ \A q \in Request \ {r} : pc'[q] = pc[q] /\ answer'[q] = answer[q]
      BY <1>3 DEF Reply, world, TypeOK
    <2>2. Promise!Take(r)
      BY <2>1 DEF Promise!Take, CallOf
    <2> QED
      BY <2>2 DEF Promise!ServiceNext
  <1>4. ASSUME NEW r \in Request, ServeFresh(r) PROVE Promise!ServiceNext
    <2>1. seen[r] \in Entry /\ seen[r] # None
      BY <1>4 DEF ServeFresh, Fresh, TypeOK
    <2>2. PICK x \in Answer : x = ServeEntry(seen[r], seen[r].exp, "cache") /\ Kept(x)
      BY <2>1, ServedKept DEF GrantInv, EntriesGenuine, KeptInv, EntryKept
    <2>3. /\ pc[r] = "decide" /\ pc'[r] = "done" /\ answer'[r] = x /\ UNCHANGED <<now, since>>
          /\ \A q \in Request \ {r} : pc'[q] = pc[q] /\ answer'[q] = answer[q]
      BY <1>4, <2>2 DEF ServeFresh, world, TypeOK
    <2>4. x \in Promise!Promised
      BY <2>2, KeptIsPromised
    <2>5. /\ CallOf(r) = "asked" /\ CallOf(r)' = "told" /\ ToldOf(r)' = x
          /\ \A q \in Request \ {r} : CallOf(q)' = CallOf(q) /\ ToldOf(q)' = ToldOf(q)
      BY <2>3, OthersKeep DEF CallOf, ToldOf
    <2>6. Promise!Tell({r})
      BY <2>3, <2>4, <2>5, TellRefines
    <2> QED
      BY <2>6 DEF Promise!ServiceNext
  <1>5. ASSUME NEW r \in Request, Return(r) PROVE Promise!ServiceNext
    <2>1. pc[r] = "return" /\ answer[r] # None /\ answer[r] \in Answer
          /\ UNCHANGED <<now, since>>
      BY <1>5 DEF Return, world, TypeOK
    <2>2. PICK x \in Promise!Promised : x = answer[r]
      <3>1. Kept(answer[r]) \/ answer[r] = Failure("unavailable")
        BY <2>1 DEF KeptInv, Outcome
      <3> QED
        BY <2>1, <3>1, KeptIsPromised, UnavailableIsPromised
    <2>a. PICK S : S = Sharing(r)
      OBVIOUS
    <2>3. \A q \in S : CallOf(q) = "asked" /\ CallOf(q)' = "told" /\ ToldOf(q)' = x
      <3>1. ASSUME NEW q \in S
            PROVE  q \in Request /\ pc[q] \in {"return", "wait"} /\ pc'[q] = "done"
                   /\ answer'[q] = x
        BY <1>5, <2>1, <2>2, <2>a DEF Return, Sharing
      <3> QED
        BY <3>1 DEF CallOf, ToldOf
    <2>4. \A q \in Request \ S : CallOf(q)' = CallOf(q) /\ ToldOf(q)' = ToldOf(q)
      <3>1. ASSUME NEW q \in Request \ S PROVE pc'[q] = pc[q] /\ answer'[q] = answer[q]
        BY <1>5, <2>a DEF Return
      <3> QED
        BY <3>1 DEF CallOf, ToldOf
    <2>5. S \in (SUBSET Request) \ {{}}
      BY <2>a DEF Sharing
    <2>6. Promise!Tell(S)
      BY <2>1, <2>3, <2>4, <2>5, TellRefines
    <2> QED
      BY <2>5, <2>6 DEF Promise!ServiceNext
  \* Looking up, waiting, fetching and storing are nothing to the caller.
  <1>6. ASSUME NEW r \in Request,
               Lookup(r) \/ Lead(r) \/ Join(r) \/ Fetch(r) \/ Store(r) \/ Extend(r)
        PROVE  UNCHANGED Promise!service
    <2> DEFINE Asked == {"lookup", "decide", "wait", "fetch", "store", "extend", "return"}
    <2>1. /\ UNCHANGED <<now, since>> /\ pc[r] \in Asked /\ pc'[r] \in Asked
          /\ \A q \in Request \ {r} : pc'[q] = pc[q] /\ answer'[q] = answer[q]
      <3>1. CASE Lookup(r) \/ Lead(r) \/ Join(r)
        BY <3>1 DEF Lookup, Lead, Join, world, TypeOK
      <3>2. CASE Fetch(r)
        BY <3>2 DEF Fetch, FetchBody, FetchNotModified, FetchFail, world, TypeOK
      <3>3. CASE Store(r) \/ Extend(r)
        BY <3>3 DEF Store, Extend, world, TypeOK
      <3> QED
        BY <1>6, <3>1, <3>2, <3>3
    <2>2. CallOf(r)' = CallOf(r) /\ ToldOf(r)' = ToldOf(r)
      BY <2>1 DEF CallOf, ToldOf
    <2> QED
      BY <2>1, <2>2, OthersKeep, StutterRefines
  <1>7. CASE DeleteStale \/ UNCHANGED vars
    <2>1. UNCHANGED <<now, since, pc, answer>>
      BY <1>7 DEF DeleteStale, world, vars
    <2> QED
      BY <2>1, StutterRefines DEF CallOf, ToldOf
  <1>8. CASE Publish \/ Tick
    <2>1. UNCHANGED <<pc, answer>>
      BY <1>8 DEF Publish, Tick
    <2>2. Promise!Publish \/ Promise!Tick
      BY <1>8, <2>1 DEF Publish, Tick, Promise!Publish, Promise!Tick, Promise!Version,
         Version, CallOf
    <2> QED
      BY <2>2 DEF Promise!ServiceNext
  <1> QED
    BY <1>1, <1>2, <1>3, <1>4, <1>5, <1>6, <1>7, <1>8 DEF Next, Caller, Progress, Decide

\* The cache-first lookup, with its flight group, its failures and the sweep
\* beside it, is an implementation of the forecast service.
THEOREM ForecastRefines == Spec => Implements
  BY InitRefines, StepRefines, TypeCorrect, GrantInvariant, KeptInvariant, PTL
  DEF Spec, Implements, Promise!ServiceSpec

=============================================================================
