----------------------------- MODULE GeocodeProofs -----------------------------
(***************************************************************************)
(* Theorems about Geocode, for any number of callers, flight keys, names   *)
(* and clock ticks.                                                        *)
(***************************************************************************)
EXTENDS Geocode, TLAPS

USE DEF Leading, PC

\* Type correctness.
LEMMA TypeInit == Init => TypeOK
  BY NoneAssumption, TimesAssumption DEF Init, TypeOK

LEMMA TypeStep == TypeOK /\ [Next]_vars => TypeOK'
  <1> SUFFICES ASSUME TypeOK, [Next]_vars PROVE TypeOK'
    OBVIOUS
  <1> USE NoneAssumption, TimesAssumption DEF TypeOK
  <1>1. ASSUME NEW r \in Request, NEW k \in Key, Arrive(r, k) PROVE TypeOK'
    BY <1>1 DEF Arrive
  <1>2. ASSUME NEW r \in Request, Reject(r) PROVE TypeOK'
    BY <1>2 DEF Reject, Answer
  <1>3. ASSUME NEW r \in Request, Hit(r) PROVE TypeOK'
    <2>1. [source |-> "cache", place |-> row.place] \in Answer
      BY <1>3 DEF Hit, Answer, Entry
    <2> QED
      BY <1>3, <2>1 DEF Hit
  <1>4. ASSUME NEW r \in Request, Miss(r) \/ Lead(r) \/ Join(r) PROVE TypeOK'
    BY <1>4 DEF Miss, Lead, Join
  <1>5. ASSUME NEW r \in Request, FetchName(r) PROVE TypeOK'
    BY <1>5 DEF FetchName
  <1>6. ASSUME NEW r \in Request, FetchFail(r) PROVE TypeOK'
    BY <1>6 DEF FetchFail, Answer
  <1>7. ASSUME NEW r \in Request, Store(r) PROVE TypeOK'
    <2>1. found[r] \in Name
      BY <1>7 DEF Store
    <2>2. /\ [place |-> found[r], at |-> now] \in Entry
          /\ [source |-> "upstream", place |-> found[r]] \in Answer
      BY <2>1 DEF Entry, Answer
    <2> QED
      BY <1>7, <2>2 DEF Store
  <1>8. ASSUME NEW r \in Request, Return(r) PROVE TypeOK'
    <2>1. answer[r] \in Answer
      BY <1>8 DEF Return
    <2> QED
      BY <1>8, <2>1 DEF Return, Sharing
  <1>9. ASSUME NEW r \in Request, Reply(r) PROVE TypeOK'
    BY <1>9 DEF Reply
  <1>10. CASE DeleteStale \/ Rename \/ Tick \/ UNCHANGED vars
    BY <1>10 DEF DeleteStale, Rename, Tick, vars
  <1> QED
    BY <1>1, <1>2, <1>3, <1>4, <1>5, <1>6, <1>7, <1>8, <1>9, <1>10
    DEF Next, Caller, Progress

THEOREM TypeCorrect == Spec => []TypeOK
  BY TypeInit, TypeStep, PTL DEF Spec

\* The map of flights and the program counters agree in both directions.
FlightInv ==
  /\ \A r \in Request : pc[r] \in Leading => inflight[key[r]] = r
  /\ \A k \in Key : inflight[k] # None =>
       pc[inflight[k]] \in Leading /\ key[inflight[k]] = k
  /\ \A r \in Request : pc[r] \in Leading \cup {"lookup", "decide", "wait"} => key[r] \in Key

LEMMA FlightStep == TypeOK /\ FlightInv /\ [Next]_vars => FlightInv'
  <1> SUFFICES ASSUME TypeOK, FlightInv, [Next]_vars PROVE FlightInv'
    OBVIOUS
  <1> USE NoneAssumption DEF TypeOK, FlightInv
  <1>1. ASSUME NEW r \in Request, (\E k \in Key : Arrive(r, k)) \/ Reject(r) PROVE FlightInv'
    BY <1>1 DEF Arrive, Reject
  <1>2. ASSUME NEW r \in Request, Hit(r) \/ Miss(r) \/ Join(r) PROVE FlightInv'
    BY <1>2 DEF Hit, Miss, Join
  <1>3. ASSUME NEW r \in Request, Lead(r) PROVE FlightInv'
    BY <1>3 DEF Lead
  <1>4. ASSUME NEW r \in Request, FetchName(r) \/ FetchFail(r) PROVE FlightInv'
    BY <1>4 DEF FetchName, FetchFail
  <1>5. ASSUME NEW r \in Request, Store(r) PROVE FlightInv'
    BY <1>5 DEF Store
  <1>6. ASSUME NEW r \in Request, Return(r) PROVE FlightInv'
    <2>1. key[r] \in Key /\ inflight[key[r]] = r /\ key' = key
      BY <1>6 DEF Return
    <2>2. ASSUME NEW q \in Request
          PROVE  /\ pc'[q] = IF q \in Sharing(r) THEN "done" ELSE pc[q]
                 /\ key[q] # key[r] => inflight'[key[q]] = inflight[key[q]]
      BY <1>6, <2>1 DEF Return
    <2>3. ASSUME NEW q \in Request, pc'[q] \in Leading PROVE key[q] # key[r]
      BY <2>1, <2>2, <2>3 DEF Sharing
    <2>4. ASSUME NEW k \in Key, inflight'[k] # None
          PROVE  pc'[inflight'[k]] \in Leading /\ key'[inflight'[k]] = k
      <3>1. k # key[r] /\ inflight'[k] = inflight[k]
        BY <1>6, <2>1, <2>4 DEF Return
      <3>2. /\ inflight[k] \in Request /\ pc[inflight[k]] \in Leading
            /\ key[inflight[k]] = k
        BY <2>4, <3>1
      <3> QED
        BY <2>1, <2>2, <3>1, <3>2 DEF Sharing
    <2>5. ASSUME NEW q \in Request, pc'[q] \in Leading PROVE inflight'[key'[q]] = q
      BY <2>1, <2>2, <2>3, <2>5
    <2>6. ASSUME NEW q \in Request, pc'[q] \in Leading \cup {"lookup", "decide", "wait"}
          PROVE  key'[q] \in Key
      BY <2>1, <2>2, <2>6
    <2> QED
      BY <2>4, <2>5, <2>6
  <1>7. ASSUME NEW r \in Request, Reply(r) PROVE FlightInv'
    BY <1>7 DEF Reply
  <1>8. CASE DeleteStale \/ Rename \/ Tick \/ UNCHANGED vars
    BY <1>8 DEF DeleteStale, Rename, Tick, vars
  <1> QED
    BY <1>1, <1>2, <1>3, <1>4, <1>5, <1>6, <1>7, <1>8 DEF Next, Caller, Progress

LEMMA FlightInvariant == Spec => []FlightInv
  <1>1. Init => FlightInv
    BY DEF Init, FlightInv
  <1> QED
    BY <1>1, FlightStep, TypeCorrect, PTL DEF Spec

\* Nominatim is asked at most once at a time for one flight key.
THEOREM OneLookup == Spec => []OneLookupPerKey
  <1>1. FlightInv => OneLookupPerKey
    BY DEF FlightInv, OneLookupPerKey
  <1> QED
    BY <1>1, FlightInvariant, PTL

\* One process and one spelling of the coordinate, and a store that works.
SoleWriter == "store" \notin Faults /\ \A k, l \in Key : k = l

LEMMA SharedStep ==
  ASSUME SoleWriter
  PROVE  TypeOK /\ FlightInv /\ SharedNameIsStored /\ [Next]_vars => SharedNameIsStored'
  <1> SUFFICES ASSUME TypeOK, FlightInv, SharedNameIsStored, [Next]_vars
               PROVE  SharedNameIsStored'
    OBVIOUS
  <1> USE NoneAssumption DEF SharedNameIsStored
  <1>a. ASSUME NEW r \in Request, NEW q \in Request, pc[r] \in Leading, pc[q] \in Leading
        PROVE  r = q
    BY <1>a DEF SoleWriter, FlightInv
  \* Steps that write no name and finish no lookup with one.
  <1>b. ASSUME row' \in {row, None},
               \A q \in Request : pc'[q] = "return" =>
                 \/ pc[q] = "return" /\ answer'[q] = answer[q]
                 \/ answer'[q] = Unavailable
        PROVE  SharedNameIsStored'
    BY <1>b DEF Unavailable
  <1>1. ASSUME NEW r \in Request,
               (\E k \in Key : Arrive(r, k)) \/ Reject(r) \/ Hit(r) \/ Miss(r) \/ Lead(r)
        PROVE  SharedNameIsStored'
    BY <1>1, <1>b DEF Arrive, Reject, Hit, Miss, Lead, TypeOK
  <1>2. ASSUME NEW r \in Request, Join(r) \/ FetchName(r) \/ FetchFail(r) \/ Reply(r)
        PROVE  SharedNameIsStored'
    BY <1>2, <1>b DEF Join, FetchName, FetchFail, Reply, TypeOK
  <1>3. ASSUME NEW r \in Request, Store(r) PROVE SharedNameIsStored'
    <2>1. row'.place = found[r] /\ answer'[r].place = found[r]
      BY <1>3 DEF Store, SoleWriter, TypeOK
    <2>2. \A q \in Request \ {r} : pc'[q] # "return"
      BY <1>3, <1>a DEF Store, TypeOK
    <2> QED
      BY <2>1, <2>2
  <1>4. ASSUME NEW r \in Request, Return(r) PROVE SharedNameIsStored'
    BY <1>4, <1>b DEF Return, TypeOK
  <1>5. CASE DeleteStale \/ Rename \/ Tick \/ UNCHANGED vars
    BY <1>5, <1>b DEF DeleteStale, Rename, Tick, vars
  <1> QED
    BY <1>1, <1>2, <1>3, <1>4, <1>5 DEF Next, Caller, Progress

\* What a finished lookup hands to everyone who joined is what the next caller
\* will read.
THEOREM SharedNameAlwaysStored == ASSUME SoleWriter PROVE Spec => []SharedNameIsStored
  <1>1. Init => SharedNameIsStored
    BY DEF Init, SharedNameIsStored
  <1> QED
    BY <1>1, SharedStep, TypeCorrect, FlightInvariant, PTL DEF Spec

=============================================================================
