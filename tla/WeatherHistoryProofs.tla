-------------------------- MODULE WeatherHistoryProofs --------------------------
(***************************************************************************)
(* Theorems about what callers are told over time, for any number of       *)
(* callers, releases and clock ticks.                                      *)
(***************************************************************************)
EXTENDS WeatherHistory, WeatherCacheProofs

USE NoneAssumption, TimesAssumption DEF Leading, PC, Time, Body, Source

\* A behaviour with its history is a behaviour.
LEMMA HistoryHidden == HistorySpec => Spec
  <1>1. [Next /\ Record]_hvars => [Next]_vars
    BY DEF hvars
  <1> QED
    BY <1>1, PTL DEF HistorySpec, Spec

\* What WeatherCacheProofs shows of every behaviour.
CacheInv == TypeOK /\ FlightInv /\ GrantInv

LEMMA CacheInvariant == HistorySpec => []CacheInv
  BY HistoryHidden, TypeCorrect, FlightInvariant, GrantInvariant, PTL DEF CacheInv

\* The upstream answers.
Reliable == "fetch" \notin Faults

-----------------------------------------------------------------------------
(* The sweep.  A row is used while it is fresh, and it is fresh for TTL after *)
(* it was stamped at most; copies of it are no younger than the row itself.   *)

LifeBounded(e) == e.at # None /\ (e.exp # None => e.exp <= e.at + TTL)

UseInv ==
  /\ lastUse \in Time /\ (lastUse # None => lastUse <= now)
  /\ row # None =>
       /\ LifeBounded(row) /\ row.at <= now
       /\ lastUse # None => lastUse <= row.at + TTL
  /\ \A r \in Request :
       /\ seen[r] # None =>
            /\ LifeBounded(seen[r]) /\ seen[r].at <= now
            /\ row # None => seen[r].at <= row.at
       /\ entry[r] # None /\ entry[r].exp # None => entry[r].exp <= now + TTL

LEMMA UseInit == Init /\ HistoryInit => UseInv
  BY DEF Init, HistoryInit, UseInv

\* With an upstream that answers, a stored forecast is used by a fresh hit only.
LEMMA UseIsFreshHit ==
  ASSUME TypeOK, Reliable, [Next]_vars, NEW r \in Request, Uses(r)
  PROVE  ServeFresh(r)
  <1> USE DEF TypeOK
  <1>0. /\ pc[r] \in {"decide", "fetch"} /\ answer[r] = None /\ answer'[r] # None
        /\ answer'[r].source \in {"cache", "stale-cache"}
    BY DEF Uses, Answers
  <1>1. ASSUME NEW q \in Request,
               (\E k \in Key : Arrive(q, k)) \/ Lookup(q) \/ Lead(q) \/ Join(q)
        PROVE  FALSE
    BY <1>0, <1>1 DEF Arrive, Lookup, Lead, Join
  <1>2. ASSUME NEW q \in Request, Reject(q) \/ Reply(q) \/ Store(q) \/ Extend(q) PROVE FALSE
    <2>1. pc[q] \in {"idle", "done", "store", "extend"}
          /\ \A p \in Request \ {q} : answer'[p] = answer[p]
      BY <1>2 DEF Reject, Reply, Store, Extend
    <2> QED
      BY <1>0, <2>1
  <1>3. ASSUME NEW q \in Request, ServeFresh(q) PROVE q = r
    BY <1>0, <1>3 DEF ServeFresh
  <1>4. ASSUME NEW q \in Request, Fetch(q) PROVE FALSE
    <2>1. FetchBody(q) \/ FetchNotModified(q)
      BY <1>4 DEF Fetch, FetchFail, Reliable
    <2>2. answer' = answer
      BY <2>1 DEF FetchBody, FetchNotModified, ConditionalSince
    <2> QED
      BY <1>0, <2>2
  <1>5. ASSUME NEW q \in Request, Return(q) PROVE FALSE
    <2>1. pc[q] = "return" /\ r \notin Sharing(q)
      BY <1>0, <1>5 DEF Return, Sharing
    <2> QED
      BY <1>0, <1>5, <2>1 DEF Return
  <1>6. ~(DeleteStale \/ Publish \/ Tick \/ UNCHANGED vars)
    BY <1>0 DEF DeleteStale, Publish, Tick, vars
  <1> QED
    BY <1>1, <1>2, <1>3, <1>4, <1>5, <1>6 DEF Next, Caller, Progress, Decide

\* So what is recorded as a use is one of a row that is still young.
LEMMA UseRecorded ==
  ASSUME TypeOK, UseInv, Reliable, [Next /\ Record]_hvars
  PROVE  /\ lastUse' \in Time /\ (lastUse' # None => lastUse' <= now)
         /\ row' = row /\ row # None /\ lastUse' # None => lastUse' <= row.at + TTL
  <1>1. CASE \E r \in Request : Uses(r)
    <2>1. PICK r \in Request : Uses(r)
      BY <1>1
    <2>2. CASE Next /\ Record
      <3>1. lastUse' = now /\ ServeFresh(r)
        BY <1>1, <2>1, <2>2, UseIsFreshHit DEF Record
      <3>2. seen[r] # None /\ seen[r] \in Entry /\ seen[r].exp \in Nat /\ now < seen[r].exp
        BY <3>1 DEF ServeFresh, Fresh, TypeOK, Entry
      <3>3. seen[r].at \in Nat /\ seen[r].exp <= seen[r].at + TTL
        BY <3>2 DEF UseInv, LifeBounded, Entry
      <3>4. now \in Nat /\ row \in Entry \cup {None}
        BY DEF TypeOK
      <3>5. row # None => row.at \in Nat /\ seen[r].at <= row.at
        BY <3>2, <3>4 DEF UseInv, LifeBounded, Entry
      <3> QED
        BY <3>1, <3>2, <3>3, <3>4, <3>5
    <2>3. CASE UNCHANGED hvars
      BY <2>3 DEF hvars, history, UseInv
    <2> QED
      BY <2>2, <2>3
  <1>2. CASE ~\E r \in Request : Uses(r)
    <2>1. lastUse' = lastUse
      BY <1>2 DEF Record, hvars, history
    <2> QED
      BY <2>1 DEF UseInv
  <1> QED
    BY <1>1, <1>2

LEMMA UseStep == TypeOK /\ Reliable /\ UseInv /\ [Next /\ Record]_hvars => UseInv'
  <1> SUFFICES ASSUME TypeOK, Reliable, UseInv, [Next /\ Record]_hvars PROVE UseInv'
    OBVIOUS
  <1>a. [Next]_vars /\ TypeOK'
    BY TypeStep DEF hvars
  <1>b. now \in Nat /\ now' \in Nat /\ now <= now'
    BY <1>a, WorldStep DEF TypeOK
  <1>c. /\ lastUse' \in Time /\ (lastUse' # None => lastUse' <= now)
        /\ row' = row /\ row # None /\ lastUse' # None => lastUse' <= row.at + TTL
    BY UseRecorded
  <1>d. row # None => row.at \in Nat /\ LifeBounded(row) /\ row.at <= now
    BY DEF TypeOK, Entry, UseInv, LifeBounded
  <1>e. ASSUME NEW r \in Request, seen[r] # None
        PROVE  seen[r].at \in Nat /\ LifeBounded(seen[r]) /\ seen[r].at <= now
    BY <1>e DEF TypeOK, Entry, UseInv, LifeBounded
  <1>f. ASSUME NEW r \in Request, entry[r] # None, entry[r].exp # None
        PROVE  entry[r].exp \in Nat /\ entry[r].exp <= now + TTL
    BY <1>f DEF TypeOK, Entry, UseInv
  \* The row is left alone or removed, and copies of it may be taken.
  <1>g. ASSUME row' \in {row, None},
               \A r \in Request :
                 /\ seen'[r] \in {seen[r], None, row}
                 /\ entry'[r] = entry[r]
                    \/ (entry'[r] # None /\ entry'[r].exp \in {now + TTL, None})
                    \/ entry'[r] = None
        PROVE  UseInv'
    <2>1. row' # None =>
            /\ LifeBounded(row') /\ row'.at <= now'
            /\ lastUse' # None => lastUse' <= row'.at + TTL
      BY <1>b, <1>c, <1>d, <1>g
    <2>2. ASSUME NEW r \in Request, seen'[r] # None
          PROVE  /\ LifeBounded(seen'[r]) /\ seen'[r].at <= now'
                 /\ row' # None => seen'[r].at <= row'.at
      <3>1. CASE seen'[r] = seen[r]
        <4>1. row' # None => row' = row /\ seen[r].at <= row.at
          BY <1>g, <2>2, <3>1 DEF UseInv
        <4> QED
          BY <1>b, <1>e, <2>2, <3>1, <4>1
      <3>2. CASE seen'[r] = row
        BY <1>b, <1>d, <1>g, <2>2, <3>2
      <3> QED
        BY <1>g, <2>2, <3>1, <3>2
    <2>3. ASSUME NEW r \in Request, entry'[r] # None, entry'[r].exp # None
          PROVE  entry'[r].exp <= now' + TTL
      <3>1. entry'[r] = entry[r] \/ entry'[r].exp = now + TTL
        BY <1>g, <2>3
      <3> QED
        BY <1>b, <1>f, <2>3, <3>1
    <2>4. lastUse' \in Time /\ (lastUse' # None => lastUse' <= now')
      BY <1>b, <1>c
    <2> QED
      BY <2>1, <2>2, <2>3, <2>4 DEF UseInv, LifeBounded
  <1> USE DEF world
  <1>1. ASSUME NEW r \in Request,
               (\E k \in Key : Arrive(r, k)) \/ Reject(r) \/ Lookup(r) \/ Decide(r)
        PROVE  UseInv'
    <2>1. UNCHANGED <<row, entry>> /\ \A q \in Request : seen'[q] \in {seen[q], None, row}
      BY <1>1 DEF Arrive, Reject, Lookup, Decide, ServeFresh, Lead, Join, TypeOK
    <2> QED
      BY <1>g, <2>1
  <1>2. ASSUME NEW r \in Request, FetchBody(r) \/ FetchNotModified(r) PROVE UseInv'
    <2>1. UNCHANGED row /\ seen' = [seen EXCEPT ![r] = None]
      BY <1>2 DEF FetchBody, FetchNotModified
    <2>2. PICK e : /\ entry' = [entry EXCEPT ![r] = e] /\ e \in Entry
                   /\ e.exp \in {now + TTL, None}
      <3>1. CASE FetchBody(r)
        <4>1. PICK exp \in GrantedExpiry, lm \in {Version, None} :
                entry' = [entry EXCEPT ![r] =
                            [body |-> Version, lm |-> lm, exp |-> exp, at |-> None]]
          BY <3>1 DEF FetchBody
        <4>2. Version \in Nat
          BY DEF Version, TypeOK
        <4> DEFINE fetched == [body |-> Version, lm |-> lm, exp |-> exp, at |-> None]
        <4>3. fetched \in Entry /\ fetched.exp \in {now + TTL, None}
          BY <1>b, <4>2 DEF Entry, GrantedExpiry
        <4>4. entry' = [entry EXCEPT ![r] = fetched]
          BY <4>1
        <4> HIDE DEF fetched
        <4> QED
          BY <4>3, <4>4
      <3>2. CASE FetchNotModified(r)
        <4>1. seen[r] \in Entry /\ seen[r] # None
          BY <3>2 DEF FetchNotModified, ConditionalSince, TypeOK
        <4>2. PICK exp \in GrantedExpiry :
                entry' = [entry EXCEPT ![r] = [seen[r] EXCEPT !.exp = exp]]
          BY <3>2, <4>1 DEF FetchNotModified
        <4>3. [seen[r] EXCEPT !.exp = exp] \in Entry /\ [seen[r] EXCEPT !.exp = exp].exp = exp
          BY <1>b, <4>1 DEF Entry, GrantedExpiry
        <4> QED
          BY <4>2, <4>3 DEF GrantedExpiry
      <3> QED
        BY <1>2, <3>1, <3>2
    <2> QED
      BY <1>g, <2>1, <2>2 DEF TypeOK
  <1>3. ASSUME NEW r \in Request, Store(r) \/ Extend(r) PROVE UseInv'
    <2>1. entry[r] \in Entry /\ entry[r] # None /\ Upsert(entry[r])
          /\ entry' = [entry EXCEPT ![r] = None] /\ UNCHANGED <<now, seen>>
      BY <1>3 DEF Store, Extend, TypeOK
    <2>2. CASE row' = row
      BY <1>g, <2>1, <2>2 DEF TypeOK
    <2>3. CASE row' = [entry[r] EXCEPT !.at = now]
      <3>1. row'.at = now /\ row'.exp = entry[r].exp
        BY <2>1, <2>3 DEF Entry
      <3>2. LifeBounded(row')
        BY <1>b, <1>f, <2>1, <3>1 DEF LifeBounded
      <3>3. lastUse' # None => lastUse' <= now + TTL
        BY <1>b, <1>c
      <3>4. ASSUME NEW q \in Request
            PROVE  /\ seen'[q] # None => /\ LifeBounded(seen'[q]) /\ seen'[q].at <= now'
                                         /\ seen'[q].at <= row'.at
                   /\ entry'[q] # None /\ entry'[q].exp # None => entry'[q].exp <= now' + TTL
        BY <1>e, <1>f, <2>1, <3>1 DEF TypeOK
      <3> QED
        BY <1>b, <1>c, <2>1, <3>1, <3>2, <3>3, <3>4 DEF UseInv, LifeBounded
    <2> QED
      BY <2>1, <2>2, <2>3 DEF Upsert
  <1>4. ASSUME NEW r \in Request, Return(r) \/ Reply(r) PROVE UseInv'
    <2>1. UNCHANGED <<row, seen, entry>>
      BY <1>4 DEF Return, Reply
    <2> QED
      BY <1>g, <2>1
  <1>5. CASE DeleteStale \/ Publish \/ Tick \/ UNCHANGED vars
    <2>1. row' \in {row, None} /\ UNCHANGED <<seen, entry>>
      BY <1>5 DEF DeleteStale, Publish, Tick, vars
    <2> QED
      BY <1>g, <2>1
  <1> QED
    BY <1>a, <1>1, <1>2, <1>3, <1>4, <1>5
    DEF Next, Caller, Progress, Fetch, FetchFail, Reliable

\* With an upstream that answers, the sweep never removes a row that was used
\* within the retention less the lifetime of a forecast.
THEOREM SweepSparesUsedRows == ASSUME Reliable PROVE HistorySpec => UsedRowsSurvive
  <1>1. TypeOK /\ UseInv /\ [Next /\ Record]_hvars
          => [row # None /\ row' = None /\ lastUse # None
                => lastUse < now - (Retention - TTL)]_hvars
    <2> SUFFICES ASSUME TypeOK, UseInv, Next, row # None, row' = None, lastUse # None
                 PROVE  lastUse < now - (Retention - TTL)
      OBVIOUS
    <2>1. DeleteStale
      <3>1. ASSUME NEW r \in Request,
                   (\E k \in Key : Arrive(r, k)) \/ Reject(r) \/ Lookup(r) \/ Decide(r)
            PROVE  row' = row
        BY <3>1 DEF Arrive, Reject, Lookup, Decide, ServeFresh, Lead, Join
      <3>2. ASSUME NEW r \in Request, Fetch(r) \/ Return(r) \/ Reply(r) PROVE row' = row
        BY <3>2 DEF Fetch, FetchBody, FetchNotModified, FetchFail, Return, Reply
      <3>3. ASSUME NEW r \in Request, Store(r) \/ Extend(r) PROVE row' # None
        <4>1. entry[r] \in Entry /\ Upsert(entry[r])
          BY <3>3 DEF Store, Extend, TypeOK
        <4>2. [entry[r] EXCEPT !.at = now] \in Entry
          BY <4>1 DEF Entry, TypeOK
        <4> QED
          BY <4>1, <4>2 DEF Upsert
      <3>4. ~(Publish \/ Tick)
        BY DEF Publish, Tick, world
      <3> QED
        BY <3>1, <3>2, <3>3, <3>4 DEF Next, Caller, Progress
    <2>2. row.at < now - Retention /\ lastUse <= row.at + TTL
      BY <2>1 DEF DeleteStale, UseInv
    <2>3. row.at \in Nat /\ lastUse \in Nat /\ now \in Nat
      BY DEF UseInv, LifeBounded, TypeOK, Entry
    <2> QED
      BY <2>2, <2>3
  <1> QED
    BY <1>1, UseInit, UseStep, HistoryHidden, TypeCorrect, PTL
    DEF HistorySpec, UsedRowsSurvive

-----------------------------------------------------------------------------
(* What callers are told.  With one flight key, and an upstream and a store   *)
(* that work, the row, an entry about to be written and a result about to be  *)
(* handed out are each as new as anything anybody has seen.                   *)

Orderly == SingleKey /\ Faults \subseteq {"lookup"}

\* Nothing that was told, stored, read or determined is newer than release v.
AtMost(v) ==
  /\ newest <= v
  /\ row # None => row.body <= v
  /\ \A q \in Request :
       /\ seen[q] # None => seen[q].body <= v
       /\ answer[q] # None /\ answer[q].body # None => answer[q].body <= v

ToldInv ==
  /\ newest \in Nat
  /\ floor \in [Request -> Nat]
  /\ AtMost(Version)
  /\ row # None => AtMost(row.body)
  /\ \A r \in Request :
       /\ seen[r] # None => pc[r] \in {"decide", "fetch"} /\ floor[r] <= seen[r].body
       /\ entry[r] # None => AtMost(entry[r].body) /\ entry[r].body <= Version
       /\ pc[r] = "return" /\ answer[r].body # None => AtMost(answer[r].body)
       /\ floor[r] <= newest
       /\ answer[r] # None /\ answer[r].body # None => floor[r] <= answer[r].body
       /\ pc[r] = "done" /\ answer[r].body # None => answer[r].body <= newest

LEMMA ToldInit == TypeOK /\ Init /\ HistoryInit => ToldInv
  <1> SUFFICES ASSUME TypeOK, Init, HistoryInit PROVE ToldInv
    OBVIOUS
  <1>1. Version = 1
    BY DEF Init, Version
  <1> QED
    BY <1>1 DEF Init, HistoryInit, ToldInv, AtMost

\* A step lets one release be told at most, and the newest is the newest of all.
LEMMA NewestStep ==
  ASSUME TypeOK, TypeOK', ToldInv, Record,
         NEW x \in Nat, Told' \subseteq Told \cup {x}
  PROVE  /\ newest' \in Nat /\ newest <= newest'
         /\ newest' \in {newest} \cup Told'
         /\ \A w \in Told' : w <= newest'
  <1> DEFINE all == {newest} \cup Told'
  <1>1. \A w \in Told : w \in Nat /\ w <= newest
    BY DEF Told, TypeOK, Answer, ToldInv
  <1>2. newest \in Nat
    BY DEF ToldInv
  <1>3. \A w \in all : w \in Nat /\ (w <= newest \/ w = x)
    BY <1>1, <1>2
  <1>4. \E v \in all : \A w \in all : w <= v
    <2>1. CASE x \in all /\ newest <= x
      BY <1>2, <1>3, <2>1
    <2>2. CASE ~(x \in all /\ newest <= x)
      <3>1. \A w \in all : w <= newest
        BY <1>2, <1>3, <2>2
      <3> QED
        BY <3>1
    <2> QED
      BY <2>1, <2>2
  <1>5. newest' = CHOOSE v \in all : \A w \in all : w <= v
    BY DEF Record
  <1> HIDE DEF all
  <1>6. newest' \in all /\ \A w \in all : w <= newest'
    BY <1>4, <1>5
  <1> QED
    BY <1>2, <1>3, <1>6 DEF all

\* A caller is told what was read, or what a leader is about to hand out.
Copied(q) ==
  \/ answer'[q] = None
  \/ answer'[q].body = None
  \/ \E p \in Request : seen[p] # None /\ answer'[q].body = seen[p].body
  \/ \E p \in Request : answer[p] # None /\ answer'[q].body = answer[p].body

\* Copies are no newer than their originals.
LEMMA AtMostStable ==
  ASSUME TypeOK, TypeOK', newest' \in {newest} \cup Told',
         row' \in {row, None},
         \A q \in Request : seen'[q] \in {seen[q], None, row} /\ Copied(q),
         NEW v \in Nat, AtMost(v)
  PROVE  AtMost(v)'
  <1>1. ASSUME NEW q \in Request, answer'[q] # None, answer'[q].body # None
        PROVE  answer'[q].body <= v
    BY <1>1 DEF Copied, AtMost
  <1>2. \A w \in Told' : w <= v
    BY <1>1 DEF Told, TypeOK
  <1>3. newest' <= v
    BY <1>2 DEF AtMost
  <1>4. \A q \in Request : seen'[q] # None => seen'[q].body <= v
    BY DEF AtMost
  <1> QED
    BY <1>1, <1>3, <1>4 DEF AtMost


\* With one flight key one call at most is inside fetchAndStore.
LEMMA SingleLeader ==
  ASSUME TypeOK, FlightInv, SingleKey,
         NEW r \in Request, NEW q \in Request, pc[r] \in Leading, pc[q] \in Leading
  PROVE  r = q
  BY DEF FlightInv, LeaderRegistered, KeyKnown, SingleKey

\* Every step but an upsert only copies what somebody has, or fetches the
\* newest release.
LEMMA CopyStep ==
  ASSUME TypeOK, TypeOK', ToldInv, Record, Version <= Version',
         NEW x \in Nat, Told' \subseteq Told \cup {x},
         row' \in {row, None},
         \A q \in Request : seen'[q] \in {seen[q], None, row} /\ Copied(q),
         \A q \in Request :
           /\ seen'[q] # None => /\ pc'[q] \in {"decide", "fetch"}
                                 /\ seen'[q] = seen[q] \/ (pc[q] = "lookup" /\ seen'[q] = row)
           /\ entry'[q] # None => entry'[q] = entry[q] \/ entry'[q].body = Version
           /\ pc'[q] = "return" => pc[q] = "return" /\ answer'[q] = answer[q]
           /\ answer'[q] # None /\ answer'[q].body # None =>
                \/ pc[q] # "idle" /\ answer'[q] = answer[q]
                \/ pc[q] = "decide" /\ seen[q] # None /\ answer'[q].body = seen[q].body
                \/ pc[q] \in {"wait", "return"} /\ newest <= answer'[q].body
  PROVE  ToldInv'
  <1>1. /\ newest' \in Nat /\ newest <= newest'
        /\ newest' \in {newest} \cup Told'
        /\ \A w \in Told' : w <= newest'
    BY NewestStep
  <1>2. \A v \in Nat : AtMost(v) => AtMost(v)'
    BY <1>1, AtMostStable
  <1>3. newest \in Nat /\ Version \in Nat /\ Version' \in Nat /\ AtMost(Version)
    BY DEF TypeOK, ToldInv, Version
  <1>4. \A q \in Request :
          /\ floor[q] \in Nat /\ floor[q] <= newest
          /\ floor'[q] \in {newest, 0, floor[q]}
          /\ pc[q] # "idle" /\ pc'[q] # "idle" => floor'[q] = floor[q]
    BY DEF Record, ToldInv
  <1>5. floor' \in [Request -> Nat]
    BY <1>3, <1>4 DEF Record
  <1>6. AtMost(Version)'
    <2>1. PICK v \in Nat : v = Version
      BY <1>3
    <2>2. AtMost(v)'
      BY <1>2, <1>3, <2>1
    <2>3. v <= Version' /\ newest' \in Nat
      BY <1>1, <2>1
    <2> QED
      BY <1>3, <2>2, <2>3 DEF AtMost, TypeOK, Entry, Answer
  <1>7. row' # None => AtMost(row.body)' /\ row' = row
    <2> SUFFICES ASSUME row' # None PROVE AtMost(row.body)' /\ row' = row
      OBVIOUS
    <2>1. row' = row /\ row # None /\ row.body \in Nat /\ AtMost(row.body)
      BY DEF ToldInv, TypeOK, Entry
    <2>2. PICK v \in Nat : v = row.body
      BY <2>1
    <2>3. AtMost(v)'
      BY <1>2, <2>1, <2>2
    <2> QED
      BY <2>1, <2>2, <2>3 DEF AtMost
  <1>8. ASSUME NEW q \in Request
        PROVE  /\ (seen[q] # None => pc[q] \in {"decide", "fetch"} /\ floor[q] <= seen[q].body)'
               /\ (entry[q] # None => AtMost(entry[q].body) /\ entry[q].body <= Version)'
               /\ (pc[q] = "return" /\ answer[q].body # None => AtMost(answer[q].body))'
               /\ (floor[q] <= newest)'
               /\ (answer[q] # None /\ answer[q].body # None => floor[q] <= answer[q].body)'
               /\ (pc[q] = "done" /\ answer[q].body # None => answer[q].body <= newest)'
    <2>1. ASSUME seen'[q] # None
          PROVE  pc'[q] \in {"decide", "fetch"} /\ floor'[q] <= seen'[q].body
      <3>1. CASE seen'[q] = seen[q]
        BY <1>4, <2>1, <3>1 DEF ToldInv
      <3>2. CASE pc[q] = "lookup" /\ seen'[q] = row
        <4>1. AtMost(row.body) /\ row.body \in Nat
          BY <2>1, <3>2 DEF ToldInv, TypeOK, Entry
        <4>2. newest <= row.body /\ floor'[q] = floor[q] /\ floor[q] <= newest
          BY <1>4, <2>1, <3>2, <4>1 DEF AtMost
        <4> QED
          BY <1>3, <1>4, <2>1, <3>2, <4>1, <4>2
      <3> QED
        BY <2>1, <3>1, <3>2
    <2>2. ASSUME entry'[q] # None
          PROVE  AtMost(entry[q].body)' /\ entry'[q].body <= Version'
      <3>1. entry'[q].body \in Nat /\ AtMost(entry'[q].body) /\ entry'[q].body <= Version
        <4>1. CASE entry'[q] = entry[q]
          BY <2>2, <4>1 DEF ToldInv, TypeOK, Entry
        <4>2. CASE entry'[q].body = Version
          BY <1>3, <4>2
        <4> QED
          BY <2>2, <4>1, <4>2
      <3>2. PICK v \in Nat : v = entry'[q].body
        BY <3>1
      <3>3. AtMost(v)'
        BY <1>2, <3>1, <3>2
      <3> QED
        BY <1>3, <3>1, <3>2, <3>3 DEF AtMost
    <2>3. ASSUME pc'[q] = "return", answer'[q].body # None
          PROVE  AtMost(answer[q].body)'
      <3>1. answer'[q] = answer[q] /\ answer[q].body \in Nat /\ AtMost(answer[q].body)
        BY <2>3 DEF ToldInv, TypeOK, Answer
      <3>2. PICK v \in Nat : v = answer[q].body
        BY <3>1
      <3>3. AtMost(v)'
        BY <1>2, <3>1, <3>2
      <3> QED
        BY <3>1, <3>2, <3>3 DEF AtMost
    <2>4. floor'[q] <= newest'
      BY <1>1, <1>3, <1>4
    <2>5. ASSUME answer'[q] # None, answer'[q].body # None
          PROVE  floor'[q] <= answer'[q].body
      <3>1. pc'[q] # "idle" /\ answer'[q].body \in Nat
        BY <2>5 DEF TypeOK, Answer
      <3>2. pc[q] # "idle"
        BY <2>5
      <3>3. floor'[q] = floor[q]
        BY <1>4, <3>1, <3>2
      <3>4. CASE answer'[q] = answer[q]
        BY <2>5, <3>3, <3>4 DEF ToldInv
      <3>5. CASE seen[q] # None /\ answer'[q].body = seen[q].body
        BY <3>3, <3>5 DEF ToldInv
      <3>6. CASE newest <= answer'[q].body
        BY <1>3, <1>4, <3>1, <3>3, <3>6
      <3> QED
        BY <2>5, <3>4, <3>5, <3>6
    <2>6. ASSUME pc'[q] = "done", answer'[q].body # None
          PROVE  answer'[q].body <= newest'
      <3>1. answer'[q].body \in Told'
        BY <2>6 DEF Told
      <3> QED
        BY <1>1, <3>1
    <2> QED
      BY <2>1, <2>2, <2>3, <2>4, <2>5, <2>6
  <1> QED
    BY <1>1, <1>5, <1>6, <1>7, <1>8 DEF ToldInv


\* An upsert makes the row as new as anything anybody has seen.
LEMMA UpsertStep ==
  ASSUME TypeOK, TypeOK', FlightInv, SingleKey, ToldInv, Record, "store" \notin Faults,
         NEW r \in Request, Store(r) \/ Extend(r)
  PROVE  ToldInv'
  <1>1. /\ entry[r] # None /\ entry[r] \in Entry /\ pc[r] \in {"store", "extend"}
        /\ row' = [entry[r] EXCEPT !.at = now]
        /\ entry' = [entry EXCEPT ![r] = None]
        /\ pc' = [pc EXCEPT ![r] = "return"]
        /\ UNCHANGED <<now, since, seen>>
    BY DEF Store, Extend, Upsert, TypeOK, world
  <1>2. /\ \A q \in Request \ {r} : answer'[q] = answer[q]
        /\ answer'[r].body = entry[r].body
    BY <1>1 DEF Store, Extend, ServeUpstream, ServeEntry, TypeOK
  <1>3. PICK v \in Nat : v = entry[r].body
    BY <1>1 DEF Entry
  <1>4. AtMost(v) /\ v <= Version /\ Version' = Version /\ Version \in Nat
    BY <1>1, <1>3 DEF ToldInv, Version, TypeOK
  <1>5. row' # None /\ row'.body = v /\ answer'[r].body = v
    <2>1. [entry[r] EXCEPT !.at = now] \in Entry
          /\ [entry[r] EXCEPT !.at = now].body = entry[r].body
      BY <1>1 DEF Entry, TypeOK
    <2> QED
      BY <1>1, <1>2, <1>3, <2>1
  <1>6. Told' = Told
    BY <1>1, <1>2 DEF Told, TypeOK
  <1>7. /\ newest' = newest
        /\ \A w \in Told : w \in Nat /\ w <= newest
    <2>1. \A w \in Told : w \in Nat /\ w <= newest
      BY DEF Told, TypeOK, Answer, ToldInv
    <2>2. newest \in Nat
      BY DEF ToldInv
    <2>3. newest' \in {newest} \cup Told' /\ newest <= newest'
      BY <1>6, <2>2, NewestStep
    <2>4. newest' \in Nat
      BY <2>1, <2>2, <2>3, <1>6
    <2> QED
      BY <1>6, <2>1, <2>2, <2>3, <2>4
  <1>8. /\ floor' \in [Request -> Nat]
        /\ \A q \in Request : /\ floor'[q] \in {floor[q], 0}
                              /\ pc[q] # "idle" => floor'[q] = floor[q]
    <2>1. ASSUME NEW q \in Request
          PROVE  /\ pc[q] = "idle" => pc'[q] = "idle"
                 /\ pc[q] # "idle" => pc'[q] # "idle"
      BY <1>1 DEF TypeOK
    <2> QED
      BY <2>1 DEF Record, ToldInv
  <1>9. /\ newest' <= v
        /\ \A q \in Request :
             /\ seen'[q] # None => seen'[q].body <= v
             /\ answer'[q] # None /\ answer'[q].body # None => answer'[q].body <= v
    BY <1>1, <1>2, <1>3, <1>4, <1>5, <1>7 DEF AtMost
  <1>10. AtMost(v)'
    BY <1>3, <1>5, <1>9 DEF AtMost
  <1>11. AtMost(Version)'
    <2>1. PICK w \in Nat : w = Version' /\ v <= w
      BY <1>4
    <2>2. AtMost(w)'
      BY <1>3, <1>5, <1>7, <1>9, <2>1 DEF AtMost, TypeOK, Entry, Answer, ToldInv
    <2> QED
      BY <2>1, <2>2 DEF AtMost
  <1>12. ASSUME NEW q \in Request
         PROVE  /\ (seen[q] # None => pc[q] \in {"decide", "fetch"} /\ floor[q] <= seen[q].body)'
                /\ (entry[q] # None => AtMost(entry[q].body) /\ entry[q].body <= Version)'
                /\ (pc[q] = "return" /\ answer[q].body # None => AtMost(answer[q].body))'
                /\ (floor[q] <= newest)'
                /\ (answer[q] # None /\ answer[q].body # None => floor[q] <= answer[q].body)'
                /\ (pc[q] = "done" /\ answer[q].body # None => answer[q].body <= newest)'
    <2>1. CASE q = r
      <3>1. seen'[q] = None
        BY <1>1, <2>1 DEF ToldInv
      <3>2. entry'[q] = None
        BY <1>1, <2>1 DEF TypeOK
      <3>3. pc'[q] = "return" /\ AtMost(answer[q].body)'
        BY <1>1, <1>5, <1>10, <2>1 DEF AtMost, TypeOK
      <3>4. floor'[q] = floor[q] /\ floor[q] <= newest /\ newest <= v
            /\ floor[q] \in Nat /\ newest \in Nat
        BY <1>1, <1>4, <1>8, <2>1 DEF ToldInv, AtMost
      <3>5. floor'[q] <= newest' /\ floor'[q] <= answer'[q].body
        BY <1>3, <1>5, <1>7, <2>1, <3>4
      <3> QED
        BY <3>1, <3>2, <3>3, <3>5
    <2>2. CASE q # r
      <3>1. pc'[q] = pc[q] /\ pc[q] \notin Leading
        BY <1>1, <2>2, SingleLeader DEF TypeOK
      <3>2. entry'[q] = None
        BY <1>1, <2>2, <3>1 DEF TypeOK
      <3>3. /\ seen'[q] = seen[q] /\ answer'[q] = answer[q]
            /\ seen[q] # None \/ answer[q] # None => pc[q] # "idle"
        BY <1>1, <1>2, <2>2 DEF ToldInv, TypeOK
      <3>4. floor'[q] <= newest'
        BY <1>7, <1>8 DEF ToldInv
      <3>5. pc'[q] # "return"
        BY <3>1
      <3>6. pc'[q] = "done" /\ answer'[q].body # None => answer'[q].body <= newest'
        BY <1>7, <3>1, <3>3 DEF ToldInv
      <3>7. answer'[q] # None /\ answer'[q].body # None => floor'[q] <= answer'[q].body
        BY <1>8, <3>3 DEF ToldInv
      <3> QED
        BY <1>8, <3>1, <3>2, <3>3, <3>4, <3>5, <3>6, <3>7 DEF ToldInv
    <2> QED
      BY <2>1, <2>2
  <1>13. (row # None => AtMost(row.body))'
    BY <1>5, <1>10 DEF AtMost
  <1> QED
    BY <1>7, <1>8, <1>11, <1>12, <1>13 DEF ToldInv

LEMMA ToldStep ==
  ASSUME Orderly
  PROVE  TypeOK /\ FlightInv /\ GrantInv /\ ToldInv /\ [Next /\ Record]_hvars => ToldInv'
  <1> SUFFICES ASSUME TypeOK, FlightInv, GrantInv, ToldInv, [Next /\ Record]_hvars
               PROVE  ToldInv'
    OBVIOUS
  <1>a. TypeOK'
    BY TypeStep DEF hvars
  <1>b. CASE UNCHANGED hvars
    BY <1>b DEF hvars, vars, history, ToldInv, AtMost, Version
  <1>c. CASE Next /\ Record
    <2> USE <1>c
    <2>a. Version \in Nat /\ newest \in Nat /\ Version <= Version'
      BY WorldStep DEF Version, TypeOK, ToldInv
    \* Steps that determine no answer and finish no call.
    <2>c. ASSUME UNCHANGED answer, row' \in {row, None},
                 \A q \in Request :
                   /\ seen'[q] \in {seen[q], None, row}
                   /\ seen'[q] # None => /\ pc'[q] \in {"decide", "fetch"}
                                         /\ seen'[q] = seen[q] \/ (pc[q] = "lookup" /\ seen'[q] = row)
                   /\ entry'[q] # None => entry'[q] = entry[q] \/ entry'[q].body = Version
                   /\ pc'[q] \in {"return", "done"} => pc'[q] = pc[q]
          PROVE  ToldInv'
      <3>1. Told' \subseteq Told \cup {newest}
        BY <1>a, <2>c DEF Told, TypeOK
      <3>2. \A q \in Request : Copied(q)
        BY <2>c DEF Copied
      <3>3. \A q \in Request : answer'[q] # None => pc[q] # "idle"
        BY <2>c DEF TypeOK
      <3> QED
        BY <1>a, <2>a, <2>c, <3>1, <3>2, <3>3, CopyStep
    <2>1. ASSUME NEW r \in Request, (\E k \in Key : Arrive(r, k)) \/ Lead(r)
          PROVE  ToldInv'
      <3>1. /\ pc[r] \in {"idle", "decide"} /\ UNCHANGED <<answer, row, seen, entry>>
            /\ pc'[r] \in {"lookup", "fetch"} /\ (pc[r] = "idle" <=> pc'[r] = "lookup")
            /\ \A q \in Request \ {r} : pc'[q] = pc[q]
        BY <2>1 DEF Arrive, Lead, TypeOK
      <3> QED
        BY <2>c, <3>1 DEF ToldInv
    <2>2. ASSUME NEW r \in Request, Lookup(r) \/ Join(r) PROVE ToldInv'
      <3>1. /\ UNCHANGED <<answer, row, entry>>
            /\ \/ pc[r] = "lookup" /\ pc'[r] = "decide" /\ seen'[r] \in {seen[r], row}
               \/ pc'[r] = "wait" /\ seen'[r] = None
            /\ \A q \in Request \ {r} : pc'[q] = pc[q] /\ seen'[q] = seen[q]
        BY <2>2 DEF Lookup, Join, TypeOK
      <3> QED
        BY <2>c, <3>1 DEF ToldInv
    <2>3. ASSUME NEW r \in Request, FetchBody(r) \/ FetchNotModified(r) PROVE ToldInv'
      <3>1. /\ UNCHANGED <<row, answer>>
            /\ seen' = [seen EXCEPT ![r] = None]
            /\ pc'[r] \in {"store", "extend"}
            /\ \A q \in Request \ {r} : pc'[q] = pc[q] /\ entry'[q] = entry[q]
        BY <2>3 DEF FetchBody, FetchNotModified, ConditionalSince, TypeOK
      <3>2. entry'[r].body = Version
        <4>1. CASE FetchBody(r)
          BY <4>1 DEF FetchBody, TypeOK
        <4>2. CASE FetchNotModified(r)
          <5>1. /\ seen[r] # None /\ seen[r] \in Entry /\ Version <= seen[r].lm /\ seen[r].lm # None
                /\ entry'[r].body = seen[r].body
            BY <4>2 DEF FetchNotModified, ConditionalSince, TypeOK, Entry
          <5>2. seen[r].lm = seen[r].body /\ seen[r].body <= Version /\ seen[r].body \in Nat
            BY <5>1 DEF GrantInv, EntriesGenuine, Genuine, Entry, ToldInv, AtMost
          <5> QED
            BY <2>a, <5>1, <5>2
        <4> QED
          BY <2>3, <4>1, <4>2
      <3> QED
        BY <2>c, <3>1, <3>2 DEF ToldInv, TypeOK
    <2>4. ASSUME NEW r \in Request, Store(r) \/ Extend(r) PROVE ToldInv'
      BY <1>a, <2>4, UpsertStep DEF Orderly
    <2>5. ASSUME NEW r \in Request, ServeFresh(r) PROVE ToldInv'
      <3>1. /\ pc[r] = "decide" /\ seen[r] # None /\ seen[r].body \in Nat
            /\ pc'[r] = "done" /\ seen'[r] = None /\ answer'[r].body = seen[r].body
            /\ UNCHANGED <<row, entry>>
            /\ \A q \in Request \ {r} :
                 pc'[q] = pc[q] /\ seen'[q] = seen[q] /\ answer'[q] = answer[q]
        BY <2>5 DEF ServeFresh, Fresh, ServeEntry, TypeOK, Entry
      <3>2. Told' \subseteq Told \cup {seen[r].body}
        <4> SUFFICES ASSUME NEW w \in Told' PROVE w \in Told \cup {seen[r].body}
          OBVIOUS
        <4>1. PICK q \in Request : pc'[q] = "done" /\ w = answer'[q].body /\ w # None
          BY DEF Told
        <4>2. answer'[q] = answer[q] /\ pc[q] = "done" => w \in Told
          BY <4>1 DEF Told
        <4> QED
          BY <3>1, <4>1, <4>2
      <3>3. \A q \in Request : Copied(q)
        BY <3>1 DEF Copied
      <3>4. \A q \in Request : answer[q] # None => pc[q] # "idle"
        BY DEF TypeOK
      <3> QED
        BY <1>a, <2>a, <3>1, <3>2, <3>3, <3>4, CopyStep DEF ToldInv
    <2>6. ASSUME NEW r \in Request, Reject(r) \/ Reply(r) PROVE ToldInv'
      <3>1. /\ answer'[r] = None \/ answer'[r].body = None
            /\ pc'[r] \in {"done", "idle"} /\ pc[r] \in {"idle", "done"}
            /\ pc'[r] = "done" => answer'[r].body = None
            /\ UNCHANGED <<row, entry, seen>>
            /\ \A q \in Request \ {r} : pc'[q] = pc[q] /\ answer'[q] = answer[q]
        BY <2>6 DEF Reject, Reply, Failure, TypeOK
      <3>2. Told' \subseteq Told \cup {newest}
        <4> SUFFICES ASSUME NEW w \in Told' PROVE w \in Told \cup {newest}
          OBVIOUS
        <4>1. PICK q \in Request : pc'[q] = "done" /\ w = answer'[q].body /\ w # None
          BY DEF Told
        <4>2. answer'[q] = answer[q] /\ pc[q] = "done" => w \in Told
          BY <4>1 DEF Told
        <4> QED
          BY <3>1, <4>1, <4>2
      <3>3. \A q \in Request : Copied(q)
        BY <3>1 DEF Copied
      <3>4. \A q \in Request : answer[q] # None => pc[q] # "idle"
        BY DEF TypeOK
      <3> QED
        BY <1>a, <2>a, <3>1, <3>2, <3>3, <3>4, CopyStep DEF ToldInv
    <2>7. ASSUME NEW r \in Request, Return(r) PROVE ToldInv'
      <3>1. /\ pc[r] = "return" /\ answer[r] # None /\ answer[r] \in Answer
            /\ UNCHANGED <<row, entry, seen>>
            /\ \A q \in Request :
                 \/ q \in Sharing(r) /\ pc'[q] = "done" /\ answer'[q] = answer[r]
                 \/ pc'[q] = pc[q] /\ answer'[q] = answer[q] /\ pc[q] # "return"
        <4>1. ASSUME NEW q \in Request, pc[q] = "return" PROVE q = r
          BY <2>7, <4>1, SingleLeader DEF Return, Orderly
        <4> QED
          BY <2>7, <4>1 DEF Return, TypeOK, Sharing
      <3>2. \A q \in Request : q \in Sharing(r) => pc[q] \in {"wait", "return"}
        BY <3>1 DEF Sharing
      <3>3. \A q \in Request : Copied(q)
        BY <3>1 DEF Copied
      <3>4. \A q \in Request : seen[q] # None => pc'[q] \in {"decide", "fetch"}
        BY <3>1, <3>2 DEF ToldInv
      <3>5. answer[r].body # None => newest <= answer[r].body
        BY <3>1 DEF ToldInv, AtMost
      <3>6. \A q \in Request : answer[q] # None => pc[q] # "idle"
        BY DEF TypeOK
      <3>7. PICK x \in Nat : answer[r].body # None => x = answer[r].body
        BY <3>1 DEF Answer
      <3>8. Told' \subseteq Told \cup {x}
        <4> SUFFICES ASSUME NEW w \in Told' PROVE w \in Told \cup {x}
          OBVIOUS
        <4>1. PICK q \in Request : pc'[q] = "done" /\ w = answer'[q].body /\ w # None
          BY DEF Told
        <4>2. answer'[q] = answer[q] /\ pc[q] = "done" => w \in Told
          BY <4>1 DEF Told
        <4> QED
          BY <3>1, <3>7, <4>1, <4>2
      <3> QED
        BY <1>a, <2>a, <3>1, <3>2, <3>3, <3>4, <3>5, <3>6, <3>8, CopyStep
    <2>8. CASE DeleteStale \/ Publish \/ Tick
      <3>1. row' \in {row, None} /\ UNCHANGED <<pc, answer, entry, seen>>
        BY <2>8 DEF DeleteStale, Publish, Tick
      <3> QED
        BY <2>c, <3>1 DEF ToldInv
    <2> QED
      BY <2>1, <2>2, <2>3, <2>4, <2>5, <2>6, <2>7, <2>8
      DEF Next, Caller, Progress, Fetch, FetchFail, Decide, Orderly
  <1> QED
    BY <1>b, <1>c

\* With one flight key, and an upstream and a store that work, nobody is given
\* an older release than a caller that was answered before the call arrived.
THEOREM AnswersMoveForward == ASSUME Orderly PROVE HistorySpec => []AnswersNeverRegress
  <1>1. ToldInv => AnswersNeverRegress
    BY DEF ToldInv, AnswersNeverRegress
  <1>2. Init /\ HistoryInit => ToldInv
    BY TypeInit, ToldInit
  <1>3. CacheInv /\ ToldInv /\ [Next /\ Record]_hvars => ToldInv'
    BY ToldStep DEF CacheInv
  <1> QED
    BY <1>1, <1>2, <1>3, CacheInvariant, PTL DEF HistorySpec

=============================================================================
