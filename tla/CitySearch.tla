------------------------------ MODULE CitySearch ------------------------------
(***************************************************************************)
(* GET /v1/cities over the table all_countries, and the dated migrations   *)
(* that refresh that table and are all applied again at every deployment.  *)
(*                                                                         *)
(* A place is its geonameid.  Of its row what matters is kept: the         *)
(* modification date, and how well it matches the one query that is        *)
(* followed here.  That rank stands for the order by exact match, score,   *)
(* population and name, which two places may share; 0 is no match.         *)
(***************************************************************************)
EXTENDS Integers, Sequences, FiniteSets, SequencesExt, FiniteSetsExt

CONSTANTS
  Place, None,
  Version,          \* rows a place may have: [date, rank], the date may be NULL
  Base,             \* the table of the first migration
  Refresh,          \* the refresh migrations, in lexical order: place -> version
  MaxInt,           \* the largest int of the API, and bigint of Postgres
  MaxCounted, MaxLimit, DefaultLimit

ASSUME PlacesAssumption == Place \subseteq Nat /\ IsFiniteSet(Place)
ASSUME NumbersAssumption ==
  /\ {MaxInt, MaxCounted, MaxLimit, DefaultLimit} \subseteq Nat \ {0}
  /\ DefaultLimit <= MaxLimit
\* A refresh gives its rows a date: refresh_geonames.py refuses a line without.
ASSUME RowsAssumption ==
  /\ None \notin Nat /\ None \notin Version
  /\ Version \subseteq [date : Nat \cup {None}, rank : Nat]
  /\ Base \in [Place -> Version \cup {None}]
  /\ Refresh \in Seq(UNION {[S -> {v \in Version : v.date # None}] : S \in SUBSET Place})
\* The number of places fits an int, which has 64 bits.
ASSUME CapacityAssumption == Cardinality(Place) < MaxInt

VARIABLES
  table,     \* all_countries
  local,     \* the last version of each row that no refresh wrote
  refreshes, \* how many refresh migrations there are by now
  next,      \* the migration the deployment under way is at, or 0
  deployed,  \* a deployment has completed and nothing changed since
  pager      \* a reader going from page to page of a table that does not
             \* change: [limit, page, seen, ended], or None

vars == <<table, local, refreshes, next, deployed, pager>>

-----------------------------------------------------------------------------
(* Search *)

Matched(t) == {p \in Place : t[p] # None /\ t[p].rank > 0}

\* Mutant: ORDER BY ends with the name.
BeforeMutant(t, p, q) == t[p].rank > t[q].rank
\* ORDER BY: the id decides between places that compare equal.
Before(t, p, q) == t[p].rank > t[q].rank \/ (t[p].rank = t[q].rank /\ p < q)

\* The orders in which Postgres may list the matches.
Listings(t) ==
  {s \in SetToAllKPermutations(Matched(t)) :
     /\ Len(s) = Cardinality(Matched(t))
     /\ \A i, j \in DOMAIN s : i < j => ~Before(t, s[j], s[i])}

\* An absent parameter, one that is no number or too large for an int, and one
\* below 1, all mean the default.
ParseIntDefault(raw, default) == IF raw \in 1..MaxInt THEN raw ELSE default

Wrap(n) == ((n + MaxInt + 1) % (2 * MaxInt + 2)) - (MaxInt + 1)

\* Mutant: pages are counted from 0.
OffsetMutant(page, limit) == Wrap(page * limit)
\* An int, which wraps.
Offset(page, limit) == Wrap((page - 1) * limit)

\* The statement for one page.  The total comes with the rows, so that no row
\* means no total.
Select(t, limit, offset) ==
  {[cities |-> SubSeq(s, offset + 1, Min({offset + limit, Len(s)})),
    total |-> IF offset < Len(s) THEN Min({Len(s), MaxCounted}) ELSE 0] : s \in Listings(t)}

\* service.Search, for a query of 2 to 100 characters: what it may return.
\* Postgres refuses a negative OFFSET.
Find(t, page, limit) ==
  CASE limit > MaxLimit -> {[error |-> "validation"]}
    [] limit <= MaxLimit /\ Offset(page, limit) < 0 -> {[error |-> "query"]}
    [] OTHER -> {[page |-> page, limit |-> limit, cities |-> a.cities, total |-> a.total] :
                   a \in Select(t, limit, Offset(page, limit))}

\* The handler: the body of a 200, or the status of an error.
Respond(found) ==
  IF "error" \in DOMAIN found
  THEN [status |-> IF found.error = "validation" THEN 422 ELSE 500]
  ELSE [status |-> 200, body |-> found]

Search(t, rawPage, rawLimit) ==
  {Respond(found) : found \in
     Find(t, ParseIntDefault(rawPage, 1), ParseIntDefault(rawLimit, DefaultLimit))}

-----------------------------------------------------------------------------
(* Deployment *)

\* Mutant: an equal date does not replace the row.
UpsertMutant(t, file) ==
  [p \in Place |->
     IF p \in DOMAIN file
        /\ (t[p] = None \/ t[p].date = None \/ file[p].date > t[p].date)
     THEN file[p] ELSE t[p]]
\* INSERT ... ON CONFLICT: newer local rows are preserved, those without a date
\* or of the same date are refreshed, and nothing is deleted.
Upsert(t, file) ==
  [p \in Place |->
     IF p \in DOMAIN file
        /\ (t[p] = None \/ t[p].date = None \/ file[p].date >= t[p].date)
     THEN file[p] ELSE t[p]]

Change(t) ==
  /\ table' = t
  /\ pager' = IF t = table THEN pager ELSE None

\* The migrations image runs once per deployment and starts over from the first
\* migration.  Those before the refreshes find their work done.
Deploy ==
  /\ next = 0 /\ refreshes > 0
  /\ next' = 1 /\ deployed' = FALSE
  /\ UNCHANGED <<table, local, refreshes, pager>>

\* One migration in one transaction.
Apply ==
  /\ next > 0
  /\ Change(Upsert(table, Refresh[next]))
  /\ next' = IF next = refreshes THEN 0 ELSE next + 1
  /\ deployed' = (next = refreshes)
  /\ UNCHANGED <<local, refreshes>>

\* Mutant: without "set -e" the runner goes on.
ApplyFailMutant ==
  /\ next > 0
  /\ next' = next + 1
  /\ UNCHANGED <<table, local, refreshes, deployed, pager>>
\* It is rolled back, or is a Git LFS pointer that is never sent, and the runner
\* ends: "set -e", "exit 1".
ApplyFail ==
  /\ next > 0
  /\ next' = 0
  /\ UNCHANGED <<table, local, refreshes, deployed, pager>>

\* refresh_geonames.py has written a migration with the next number.
AddRefresh ==
  /\ next = 0 /\ refreshes < Len(Refresh)
  /\ refreshes' = refreshes + 1 /\ deployed' = FALSE
  /\ UNCHANGED <<table, local, next, pager>>

\* A row is corrected by hand, or imported from elsewhere.
Edit(p) ==
  /\ next = 0
  /\ \E v \in Version :
       /\ Change([table EXCEPT ![p] = v])
       /\ local' = [local EXCEPT ![p] = v]
  /\ deployed' = FALSE
  /\ UNCHANGED <<refreshes, next>>

-----------------------------------------------------------------------------
(* A reader *)

\* Page 0 and limit 0 stand for a parameter that is not sent.
Open(limit) ==
  /\ pager = None
  /\ pager' = [limit |-> limit, page |-> 0, seen |-> <<>>, ended |-> FALSE]
  /\ UNCHANGED <<table, local, refreshes, next, deployed>>

\* The answer says which page it is and what the limit was.  A page that is not
\* full is the last.
Turn ==
  /\ pager # None /\ ~pager.ended
  /\ \E a \in Search(table, pager.page, pager.limit) :
       pager' = [pager EXCEPT !.page = a.body.page + 1, !.seen = @ \o a.body.cities,
                              !.ended = Len(a.body.cities) < a.body.limit]
  /\ UNCHANGED <<table, local, refreshes, next, deployed>>

Leave ==
  /\ pager # None
  /\ pager' = None
  /\ UNCHANGED <<table, local, refreshes, next, deployed>>

Init ==
  /\ table = Base /\ local = Base
  /\ refreshes = 0 /\ next = 0 /\ deployed = FALSE
  /\ pager = None

Next ==
  \/ Deploy \/ Apply \/ ApplyFail \/ AddRefresh
  \/ \E p \in Place : Edit(p)
  \/ \E limit \in 0..MaxLimit : Open(limit)
  \/ Turn \/ Leave

Spec == Init /\ [][Next]_vars

-----------------------------------------------------------------------------
(* Properties *)

\* Every variable has its type, and a reader turns no more pages than there are
\* places.
TypeOK ==
  /\ table \in [Place -> Version \cup {None}] /\ local \in [Place -> Version \cup {None}]
  /\ refreshes \in 0..Len(Refresh) /\ next \in 0..refreshes
  /\ deployed \in BOOLEAN
  /\ pager # None =>
       /\ pager.limit \in 0..MaxLimit /\ pager.page \in 0..(Cardinality(Place) + 2)
       /\ pager.seen \in Seq(Place) /\ pager.ended \in BOOLEAN

\* The versions p has been given: by a refresh, or, as number 0, otherwise.
Gives(p, i) == IF i = 0 THEN local[p] # None ELSE p \in DOMAIN Refresh[i]
Given(p, i) == IF i = 0 THEN local[p] ELSE Refresh[i][p]
DateOf(v) == IF v.date = None THEN -1 ELSE v.date
NotNewer(p, i, j) ==
  \/ DateOf(Given(p, i)) < DateOf(Given(p, j))
  \/ DateOf(Given(p, i)) = DateOf(Given(p, j)) /\ i <= j

\* The newest version of p: by date, and of equals the last refresh.
NewestVersion(p) ==
  LET from == {i \in 0..refreshes : Gives(p, i)}
  IN  IF from = {} THEN None
      ELSE Given(p, CHOOSE i \in from : \A j \in from : NotNewer(p, j, i))

\* README.md:246, "preserve rows with newer modification dates.  Reapplying the
\* same refresh is safe": once a deployment has completed every row is the newest
\* there is, whatever was applied, broken off, edited and applied again before.
DeployedIsNewest == deployed => \A p \in Place : table[p] = NewestVersion(p)

\* Going through the pages shows every match once, the better first, although
\* each page is a query of its own.
PagesShowEachOnce ==
  pager # None /\ pager.ended =>
    /\ ToSet(pager.seen) = Matched(table)
    /\ \A i, j \in DOMAIN pager.seen : i < j =>
         /\ pager.seen[i] # pager.seen[j]
         /\ table[pager.seen[i]].rank >= table[pager.seen[j]].rank

\* A page asked for by number holds the matches that are due on it, and the total
\* saturates (README.md:157).  That takes a page whose offset fits an int, beyond
\* which the number wraps to another page or to an error; and past the last match
\* the total is 0.
PageHoldsItsMatches ==
  LET Ahead(p) == Cardinality({q \in Matched(table) :
                    table[q].rank > table[p].rank \/ (table[q].rank = table[p].rank /\ q < p)})
  IN  \A page, limit \in 1..MaxInt :
        limit <= MaxLimit /\ (page - 1) * limit <= MaxInt =>
          \A a \in Search(table, page, limit) :
            /\ a.status = 200
            /\ ToSet(a.body.cities) = {p \in Matched(table) : Ahead(p) \div limit = page - 1}
            /\ a.body.cities # <<>> => a.body.total = Min({Cardinality(Matched(table)), MaxCounted})

=============================================================================
