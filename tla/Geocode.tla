------------------------------- MODULE Geocode -------------------------------
(***************************************************************************)
(* The cache-first reverse geocoding of internal/geocode: concurrent calls *)
(* of service.Reverse, the flight group that deduplicates lookups, the     *)
(* Nominatim call, the upsert into reverse_geocode_cache and the retention *)
(* sweep.  Unlike a forecast a stored name has no expiry: it is served     *)
(* until the sweep removes it, and there is no stale entry to fall back to *)
(* because only a caller that found nothing goes upstream.                 *)
(*                                                                         *)
(* As in WeatherCache every variable is about one row, and Key holds the   *)
(* flight keys that lead to it.  now is the clock; a name is a model value *)
(* and name is what Nominatim currently calls the place.                   *)
(***************************************************************************)
EXTENDS Integers

CONSTANTS
  Request,     \* concurrent callers of Reverse
  Key,         \* flight keys that lead to the row
  Name,        \* names the place may have upstream
  None,        \* no entry, no answer, no flight
  Retention,   \* geocodeRetention of cmd/api/main.go
  Faults,      \* which calls may fail: "lookup", "fetch", "store"
  MaxTime      \* bound on the clock

Leading == {"fetch", "store", "return"}
PC == {"idle", "lookup", "decide", "wait", "done"} \cup Leading

\* A row of reverse_geocode_cache without its key.
Entry == [place : Name, at : Nat]

\* What Reverse returns: a Place, or an error.
Unavailable == [source |-> "unavailable", place |-> None]
Invalid == [source |-> "invalid", place |-> None]
Answer == [source : {"cache", "upstream"}, place : Name] \cup {Unavailable, Invalid}

ASSUME NoneAssumption ==
  None \notin Name /\ None \notin Request /\ None \notin Entry /\ None \notin Answer
ASSUME TimesAssumption == Retention \in Nat /\ MaxTime \in Nat
ASSUME FaultsAssumption == Faults \subseteq {"lookup", "fetch", "store"}

VARIABLES
  now,       \* the wall clock
  name,      \* what Nominatim calls the place
  row,       \* the row, or None
  pc,        \* where each call stands
  key,       \* the flight key of each call's coordinate
  found,     \* the name a leader is about to upsert, or None
  answer,    \* what a call is going to return
  inflight   \* the flight group: the leader of each key, or None

vars == <<now, name, row, pc, key, found, answer, inflight>>

Init ==
  /\ now = 0
  /\ name \in Name
  /\ row = None
  /\ pc = [r \in Request |-> "idle"]
  /\ key = [r \in Request |-> None]
  /\ found = [r \in Request |-> None]
  /\ answer = [r \in Request |-> None]
  /\ inflight = [k \in Key |-> None]

-----------------------------------------------------------------------------

\* A coordinate in range is rounded to its flight key.
Arrive(r, k) ==
  /\ pc[r] = "idle"
  /\ pc' = [pc EXCEPT ![r] = "lookup"]
  /\ key' = [key EXCEPT ![r] = k]
  /\ UNCHANGED <<now, name, row, found, answer, inflight>>

Reject(r) ==
  /\ pc[r] = "idle"
  /\ pc' = [pc EXCEPT ![r] = "done"]
  /\ answer' = [answer EXCEPT ![r] = Invalid]
  /\ UNCHANGED <<now, name, row, key, found, inflight>>

\* repo.Get finds the row: its name is served, whatever its age.
Hit(r) ==
  /\ pc[r] = "lookup"
  /\ row # None
  /\ answer' = [answer EXCEPT ![r] = [source |-> "cache", place |-> row.place]]
  /\ pc' = [pc EXCEPT ![r] = "done"]
  /\ UNCHANGED <<now, name, row, key, found, inflight>>

\* No row, or a read that failed under the caller's context: both go upstream.
Miss(r) ==
  /\ pc[r] = "lookup"
  /\ row = None \/ "lookup" \in Faults
  /\ pc' = [pc EXCEPT ![r] = "decide"]
  /\ UNCHANGED <<now, name, row, key, found, answer, inflight>>

\* Mutant: a lookup starts without asking whether one is in flight.
LeadMutant(r) ==
  /\ pc[r] = "decide"
  /\ inflight' = [inflight EXCEPT ![key[r]] = r]
  /\ pc' = [pc EXCEPT ![r] = "fetch"]
  /\ UNCHANGED <<now, name, row, key, found, answer>>
\* lookup.Do with nothing in flight for the key: this caller goes upstream,
\* without a second look at the table.
Lead(r) ==
  /\ pc[r] = "decide"
  /\ inflight[key[r]] = None
  /\ inflight' = [inflight EXCEPT ![key[r]] = r]
  /\ pc' = [pc EXCEPT ![r] = "fetch"]
  /\ UNCHANGED <<now, name, row, key, found, answer>>

\* lookup.Do with a lookup in flight: wait for it.
Join(r) ==
  /\ pc[r] = "decide"
  /\ inflight[key[r]] # None
  /\ pc' = [pc EXCEPT ![r] = "wait"]
  /\ UNCHANGED <<now, name, row, key, found, answer, inflight>>

\* Nominatim answers 200 with an address that yields a label.
FetchName(r) ==
  /\ pc[r] = "fetch"
  /\ found' = [found EXCEPT ![r] = name]
  /\ pc' = [pc EXCEPT ![r] = "store"]
  /\ UNCHANGED <<now, name, row, key, answer, inflight>>

\* Any failure, an address without a usable name included: nothing is stored.
FetchFail(r) ==
  /\ pc[r] = "fetch"
  /\ "fetch" \in Faults
  /\ answer' = [answer EXCEPT ![r] = Unavailable]
  /\ pc' = [pc EXCEPT ![r] = "return"]
  /\ UNCHANGED <<now, name, row, key, found, inflight>>

\* The upsert, whose error is only logged, and the answer.
Store(r) ==
  /\ pc[r] = "store"
  /\ \/ row' = [place |-> found[r], at |-> now]
     \/ "store" \in Faults /\ UNCHANGED row
  /\ answer' = [answer EXCEPT ![r] = [source |-> "upstream", place |-> found[r]]]
  /\ found' = [found EXCEPT ![r] = None]
  /\ pc' = [pc EXCEPT ![r] = "return"]
  /\ UNCHANGED <<now, name, key, inflight>>

Sharing(r) == {q \in Request : q = r \/ (pc[q] = "wait" /\ key[q] = key[r])}

\* Mutant: the callers that joined are woken without the result.
ReturnSilentMutant(r) ==
  /\ pc[r] = "return"
  /\ inflight' = [inflight EXCEPT ![key[r]] = None]
  /\ pc' = [q \in Request |-> IF q \in Sharing(r) THEN "done" ELSE pc[q]]
  /\ UNCHANGED <<now, name, row, key, found, answer>>
\* Mutant: the callers that joined are not woken.
ReturnMutant(r) ==
  /\ pc[r] = "return"
  /\ inflight' = [inflight EXCEPT ![key[r]] = None]
  /\ pc' = [pc EXCEPT ![r] = "done"]
  /\ UNCHANGED <<now, name, row, key, found, answer>>
\* The flight group forgets the key and hands one result to every caller.
Return(r) ==
  /\ pc[r] = "return"
  /\ inflight' = [inflight EXCEPT ![key[r]] = None]
  /\ answer' = [q \in Request |-> IF q \in Sharing(r) THEN answer[r] ELSE answer[q]]
  /\ pc' = [q \in Request |-> IF q \in Sharing(r) THEN "done" ELSE pc[q]]
  /\ UNCHANGED <<now, name, row, key, found>>

Reply(r) ==
  /\ pc[r] = "done"
  /\ pc' = [pc EXCEPT ![r] = "idle"]
  /\ key' = [key EXCEPT ![r] = None]
  /\ answer' = [answer EXCEPT ![r] = None]
  /\ UNCHANGED <<now, name, row, found, inflight>>

\* The cleanup goroutine's sweep of this table.
DeleteStale ==
  /\ row # None
  /\ row.at < now - Retention
  /\ row' = None
  /\ UNCHANGED <<now, name, pc, key, found, answer, inflight>>

\* The place is renamed upstream.
Rename ==
  /\ name' \in Name \ {name}
  /\ UNCHANGED <<now, row, pc, key, found, answer, inflight>>

Tick ==
  /\ now < MaxTime
  /\ now' = now + 1
  /\ UNCHANGED <<name, row, pc, key, found, answer, inflight>>

Progress(r) ==
  \/ Hit(r) \/ Miss(r) \/ Lead(r) \/ Join(r)
  \/ FetchName(r) \/ FetchFail(r) \/ Store(r) \/ Return(r)
Caller(r) == (\E k \in Key : Arrive(r, k)) \/ Reject(r) \/ Progress(r) \/ Reply(r)

Next == (\E r \in Request : Caller(r)) \/ DeleteStale \/ Rename \/ Tick

Spec == Init /\ [][Next]_vars

\* Database calls and the upstream call run under a deadline, so each one ends.
FairSpec == Spec /\ \A r \in Request : WF_vars(Progress(r))

-----------------------------------------------------------------------------
(* Properties *)

\* Every variable has its type, and a call has an answer exactly from the moment
\* the outcome of Reverse is known.
TypeOK ==
  /\ now \in 0..MaxTime
  /\ name \in Name
  /\ row \in Entry \cup {None}
  /\ pc \in [Request -> PC]
  /\ key \in [Request -> Key \cup {None}]
  /\ found \in [Request -> Name \cup {None}]
  /\ answer \in [Request -> Answer \cup {None}]
  /\ inflight \in [Key -> Request \cup {None}]
  /\ \A r \in Request :
       /\ (answer[r] # None) <=> (pc[r] \in {"return", "done"})
       /\ (found[r] # None) <=> (pc[r] = "store")

\* Nominatim is asked at most once at a time for one flight key.
OneLookupPerKey ==
  \A r, q \in Request :
    pc[r] \in Leading /\ pc[q] \in Leading /\ key[r] = key[q] => r = q

\* The name a finished lookup hands to everyone who joined is the name the next
\* caller will read: nothing overwrote it in between.  True of one flight key
\* and a store that does not fail.
SharedNameIsStored ==
  \A r \in Request :
    pc[r] = "return" /\ answer[r].source = "upstream" /\ row # None
      => row.place = answer[r].place

\* Every call that has arrived is answered, whatever fails.
EveryCallAnswered == \A r \in Request : pc[r] = "lookup" ~> pc[r] = "done"

=============================================================================
