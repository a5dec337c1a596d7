---------------------------- MODULE CitySearchProofs ----------------------------
(***************************************************************************)
(* Theorems about the city search and the deployments of its table, for    *)
(* any set of places, any refreshes and any page size.                     *)
(***************************************************************************)
EXTENDS CitySearch, FiniteSetTheorems, SequenceTheorems, TLAPS

Tables == [Place -> Version \cup {None}]

-----------------------------------------------------------------------------
(* The order of the matches.  Before is a strict total order of them, so     *)
(* that a match has a rank, the number of matches before it, and there is    *)
(* one listing: the match of rank i - 1 in position i.                       *)

Better(t, p) == {q \in Matched(t) : Before(t, q, p)}
Rank(t, p) == Cardinality(Better(t, p))
Count(t) == Cardinality(Matched(t))

LEMMA MatchedFacts ==
  ASSUME NEW t \in Tables
  PROVE  /\ Matched(t) \subseteq Place /\ Matched(t) \subseteq Nat
         /\ IsFiniteSet(Matched(t)) /\ Count(t) \in Nat /\ Count(t) <= Cardinality(Place)
         /\ Cardinality(Place) \in Nat
         /\ \A p \in Matched(t) : t[p].rank \in Nat
  <1>1. Matched(t) \subseteq Place
    BY DEF Matched
  <1>2. \A p \in Matched(t) : t[p].rank \in Nat
    BY RowsAssumption DEF Matched, Tables
  <1> QED
    BY <1>1, <1>2, PlacesAssumption, FS_Subset, FS_CardinalityType DEF Count

LEMMA BeforeOrders ==
  ASSUME NEW t \in Tables, NEW p \in Matched(t), NEW q \in Matched(t), NEW r \in Matched(t)
  PROVE  /\ ~Before(t, p, p)
         /\ Before(t, p, q) \/ Before(t, q, p) \/ p = q
         /\ Before(t, p, q) => ~Before(t, q, p)
         /\ Before(t, p, q) /\ Before(t, q, r) => Before(t, p, r)
  BY MatchedFacts DEF Before

LEMMA BetterFacts ==
  ASSUME NEW t \in Tables, NEW p \in Matched(t)
  PROVE  /\ IsFiniteSet(Better(t, p)) /\ Rank(t, p) \in 0..(Count(t) - 1)
         /\ Better(t, p) \subseteq Matched(t) \ {p}
  <1>1. Better(t, p) \subseteq Matched(t) \ {p}
    BY BeforeOrders DEF Better
  <1>2. IsFiniteSet(Matched(t) \ {p}) /\ Cardinality(Matched(t) \ {p}) = Count(t) - 1
    BY MatchedFacts, FS_RemoveElement DEF Count
  <1>3. IsFiniteSet(Better(t, p)) /\ Rank(t, p) <= Count(t) - 1
    BY <1>1, <1>2, FS_Subset DEF Rank
  <1> QED
    BY <1>1, <1>3, FS_CardinalityType, MatchedFacts DEF Rank

LEMMA BetterRanks ==
  ASSUME NEW t \in Tables, NEW p \in Matched(t), NEW q \in Matched(t), Before(t, p, q)
  PROVE  Rank(t, p) < Rank(t, q)
  <1>1. Better(t, p) \subseteq Better(t, q) \ {p} /\ p \in Better(t, q)
    BY BeforeOrders DEF Better
  <1>2. IsFiniteSet(Better(t, q) \ {p}) /\ Cardinality(Better(t, q) \ {p}) = Rank(t, q) - 1
    BY <1>1, BetterFacts, FS_RemoveElement DEF Rank
  <1>3. Rank(t, p) <= Rank(t, q) - 1
    BY <1>1, <1>2, FS_Subset DEF Rank
  <1> QED
    BY <1>3, BetterFacts

LEMMA RankOrders ==
  ASSUME NEW t \in Tables, NEW p \in Matched(t), NEW q \in Matched(t)
  PROVE  /\ Rank(t, p) = Rank(t, q) <=> p = q
         /\ Rank(t, p) < Rank(t, q) <=> Before(t, p, q)
  <1>1. Rank(t, p) \in Nat /\ Rank(t, q) \in Nat
    BY BetterFacts, MatchedFacts
  <1> QED
    BY <1>1, BetterRanks, BeforeOrders

LEMMA RankIsTaken ==
  ASSUME NEW t \in Tables, NEW i \in 1..Count(t)
  PROVE  \E p \in Matched(t) : Rank(t, p) = i - 1
  <1> DEFINE f == [p \in Matched(t) |-> Rank(t, p) + 1]
  <1>1. f \in [Matched(t) -> 1..Count(t)]
    BY BetterFacts, MatchedFacts
  <1>2. \A p, q \in Matched(t) : f[p] = f[q] => p = q
    BY RankOrders, BetterFacts, MatchedFacts
  <1>3. f \in Injection(Matched(t), 1..Count(t))
    BY <1>1, <1>2 DEF Injection, IsInjective
  <1>4. IsFiniteSet(1..Count(t)) /\ Cardinality(1..Count(t)) = Count(t)
    BY MatchedFacts, FS_Interval
  <1>5. f \in Surjection(Matched(t), 1..Count(t))
    BY <1>3, <1>4, FS_Injection DEF Count
  <1>6. PICK p \in Matched(t) : f[p] = i
    BY <1>5 DEF Surjection
  <1> QED
    BY <1>6, BetterFacts, MatchedFacts

\* What Postgres lists are the matches in their order.
Ranked(t, s) ==
  /\ s \in [1..Count(t) -> Matched(t)]
  /\ \A i \in 1..Count(t) : Rank(t, s[i]) = i - 1

LEMMA RankedIsListing ==
  ASSUME NEW t \in Tables, NEW s, Ranked(t, s)
  PROVE  s \in Listings(t)
  <1> USE DEF Ranked
  <1>1. Count(t) \in Nat /\ DOMAIN s = 1..Count(t) /\ Len(s) = Count(t)
    BY MatchedFacts
  <1>2. \A i, j \in 1..Count(t) : i # j => s[i] # s[j]
    BY <1>1, RankOrders
  <1>3. s \in SetToSeqs(Matched(t))
    BY <1>2 DEF SetToSeqs, Count
  <1>4. s \in SetToAllKPermutations(Matched(t))
    BY <1>3 DEF SetToAllKPermutations
  <1>5. \A i, j \in DOMAIN s : i < j => ~Before(t, s[j], s[i])
    BY <1>1, RankOrders
  <1> QED
    BY <1>1, <1>4, <1>5 DEF Listings, Count

LEMMA ListingIsRanked ==
  ASSUME NEW t \in Tables, NEW s \in Listings(t)
  PROVE  Ranked(t, s)
  <1> DEFINE M == Matched(t)  n == Count(t)
  <1>1. M \subseteq Nat /\ IsFiniteSet(M) /\ n \in Nat /\ n = Cardinality(M)
    BY MatchedFacts DEF Count
  <1>2. PICK S \in SUBSET M : s \in SetToSeqs(S)
    BY DEF Listings, SetToAllKPermutations
  <1>3. Len(s) = n /\ \A i, j \in DOMAIN s : i < j => ~Before(t, s[j], s[i])
    BY DEF Listings, Count
  <1>4. IsFiniteSet(S) /\ Cardinality(S) \in Nat
    BY <1>1, FS_Subset, FS_CardinalityType
  <1>5. /\ s \in [1..Cardinality(S) -> S]
        /\ \A i, j \in 1..Cardinality(S) : i # j => s[i] # s[j]
    BY <1>2 DEF SetToSeqs
  <1>6. Cardinality(S) = n
    BY <1>3, <1>4, <1>5
  <1>7. S = M
    BY <1>1, <1>6, FS_Subset
  <1>8. s \in [1..n -> M] /\ \A i, j \in 1..n : i # j => s[i] # s[j]
    BY <1>5, <1>6, <1>7
  <1>9. \A p \in M : \E i \in 1..n : s[i] = p
    <2>1. s \in Injection(1..n, M)
      BY <1>8 DEF Injection, IsInjective
    <2>2. IsFiniteSet(1..n) /\ Cardinality(1..n) = n
      BY <1>1, FS_Interval
    <2>3. s \in Surjection(1..n, M)
      BY <1>1, <2>1, <2>2, FS_Injection
    <2> QED
      BY <2>3 DEF Surjection
  <1>10. \A i, j \in 1..n : i < j <=> Before(t, s[i], s[j])
    <2> SUFFICES ASSUME NEW i \in 1..n, NEW j \in 1..n
                 PROVE  i < j <=> Before(t, s[i], s[j])
      OBVIOUS
    <2>1. s[i] \in M /\ s[j] \in M /\ (i = j <=> s[i] = s[j])
      BY <1>8
    <2>2. (i < j => ~Before(t, s[j], s[i])) /\ (j < i => ~Before(t, s[i], s[j]))
      BY <1>3, <1>8
    <2>3. i < j \/ j < i \/ i = j
      BY <1>1
    <2> QED
      BY <2>1, <2>2, <2>3, BeforeOrders
  <1>11. ASSUME NEW i \in 1..n PROVE Rank(t, s[i]) = i - 1
    <2> DEFINE f == [j \in 1..(i - 1) |-> s[j]]
    <2>1. \A j \in 1..(i - 1) : j \in 1..n /\ j < i
      BY <1>1
    <2>2. f \in [1..(i - 1) -> Better(t, s[i])]
      BY <2>1, <1>8, <1>10 DEF Better
    <2>3. \A j, k \in 1..(i - 1) : f[j] = f[k] => j = k
      BY <2>1, <1>8
    <2>4. ASSUME NEW p \in Better(t, s[i]) PROVE \E j \in 1..(i - 1) : f[j] = p
      <3>1. PICK j \in 1..n : s[j] = p
        BY <1>9 DEF Better
      <3>2. j < i
        BY <1>10, <3>1 DEF Better
      <3> QED
        BY <1>1, <3>1, <3>2
    <2>5. f \in Bijection(1..(i - 1), Better(t, s[i]))
      BY <2>2, <2>3, <2>4 DEF Bijection, Injection, IsInjective, Surjection
    <2>6. ExistsBijection(1..(i - 1), Better(t, s[i]))
      BY <2>5 DEF ExistsBijection
    <2> QED
      BY <2>6, <1>1, FS_CountingElements DEF Rank
  <1> QED
    BY <1>8, <1>11 DEF Ranked

LEMMA Extensional ==
  ASSUME NEW D, NEW R, NEW f \in [D -> R], NEW g \in [D -> R], \A d \in D : f[d] = g[d]
  PROVE  f = g
  OBVIOUS

LEMMA RankedIsUnique ==
  ASSUME NEW t \in Tables, NEW s, NEW u, Ranked(t, s), Ranked(t, u)
  PROVE  s = u
  <1> DEFINE D == 1..Count(t)
  <1>1. s \in [D -> Matched(t)] /\ u \in [D -> Matched(t)]
    BY DEF Ranked
  <1>2. ASSUME NEW i \in D PROVE s[i] = u[i]
    BY RankOrders DEF Ranked
  <1> HIDE DEF D
  <1> QED
    BY <1>1, <1>2, Extensional

\* ORDER BY ends with the id, so the same table is always listed the same way:
\* the pages, each a query of its own, are pages of one list.
THEOREM OneListing == \A t \in Tables : \E s : Listings(t) = {s}
  <1> SUFFICES ASSUME NEW t \in Tables PROVE \E s : Listings(t) = {s}
    OBVIOUS
  <1> DEFINE s == [i \in 1..Count(t) |-> CHOOSE p \in Matched(t) : Rank(t, p) = i - 1]
  <1>1. Ranked(t, s)
    BY RankIsTaken DEF Ranked
  <1> HIDE DEF s
  <1> QED
    BY <1>1, RankedIsUnique, RankedIsListing, ListingIsRanked

LEMMA ListingFacts ==
  ASSUME NEW t \in Tables, NEW s \in Listings(t)
  PROVE  /\ Listings(t) = {s}
         /\ s \in Seq(Matched(t)) /\ Len(s) = Count(t) /\ s \in [1..Count(t) -> Matched(t)]
         /\ \A i \in 1..Count(t) : Rank(t, s[i]) = i - 1
         /\ \A p \in Matched(t) : \E i \in 1..Count(t) : s[i] = p
  <1>1. Listings(t) = {s}
    BY OneListing
  <1>2. Ranked(t, s) /\ Count(t) \in Nat
    BY ListingIsRanked, MatchedFacts
  <1>3. s \in Seq(Matched(t)) /\ Len(s) = Count(t)
    BY <1>2 DEF Ranked
  <1>4. ASSUME NEW p \in Matched(t) PROVE \E i \in 1..Count(t) : s[i] = p
    <2> DEFINE i == Rank(t, p) + 1
    <2>1. i \in 1..Count(t) /\ Rank(t, s[i]) = Rank(t, p)
      BY <1>2, BetterFacts DEF Ranked
    <2>2. s[i] = p
      BY <1>2, <2>1, RankOrders DEF Ranked
    <2> QED
      BY <2>1, <2>2
  <1> QED
    BY <1>1, <1>2, <1>3, <1>4 DEF Ranked

-----------------------------------------------------------------------------
(* A page.  The offset of a page that is asked for in earnest fits an int,   *)
(* and the answer is the part of the one listing from there.                 *)

LEMMA MinOfTwo ==
  ASSUME NEW a \in Int, NEW b \in Int
  PROVE  Min({a, b}) = IF a <= b THEN a ELSE b
  BY DEF Min

LEMMA WrapFits ==
  ASSUME NEW n \in 0..MaxInt
  PROVE  Wrap(n) = n
  <1>1. MaxInt \in Nat
    BY NumbersAssumption
  <1>2. (n + MaxInt + 1) % (2 * MaxInt + 2) = n + MaxInt + 1
    BY <1>1
  <1> QED
    BY <1>1, <1>2 DEF Wrap

\* The body of the answer for a page of the listing s.
Slice(s, page, limit) ==
  LET offset == (page - 1) * limit
  IN  [page |-> page, limit |-> limit,
       cities |-> SubSeq(s, offset + 1, Min({offset + limit, Len(s)})),
       total |-> IF offset < Len(s) THEN Min({Len(s), MaxCounted}) ELSE 0]

LEMMA SearchAnswers ==
  ASSUME NEW t \in Tables, NEW s \in Listings(t), NEW rawPage, NEW rawLimit,
         NEW page \in Nat \ {0}, NEW limit \in 1..MaxLimit,
         ParseIntDefault(rawPage, 1) = page, ParseIntDefault(rawLimit, DefaultLimit) = limit,
         (page - 1) * limit <= MaxInt
  PROVE  Search(t, rawPage, rawLimit) = {[status |-> 200, body |-> Slice(s, page, limit)]}
  <1> DEFINE offset == (page - 1) * limit
  <1>1. limit \in Nat /\ limit <= MaxLimit /\ MaxLimit \in Nat /\ MaxInt \in Nat
    BY NumbersAssumption
  <1>2. offset \in 0..MaxInt
    BY <1>1
  <1>3. Offset(page, limit) = offset /\ ~(offset < 0) /\ ~(limit > MaxLimit)
    BY <1>1, <1>2, WrapFits DEF Offset
  <1>4. Listings(t) = {s}
    BY ListingFacts
  <1>5. Find(t, page, limit) = {Slice(s, page, limit)}
    <2> DEFINE row(u) == [cities |-> SubSeq(u, offset + 1, Min({offset + limit, Len(u)})),
                          total |-> IF offset < Len(u) THEN Min({Len(u), MaxCounted}) ELSE 0]
    <2>1. Select(t, limit, offset) = {row(s)}
      BY <1>4 DEF Select
    <2>2. Find(t, page, limit) = {[page |-> page, limit |-> limit, cities |-> a.cities, total |-> a.total] :
                                    a \in Select(t, limit, offset)}
      BY <1>1, <1>3 DEF Find
    <2>3. row(s).cities = Slice(s, page, limit).cities /\ row(s).total = Slice(s, page, limit).total
      BY DEF Slice
    <2> HIDE DEF row
    <2>4. Find(t, page, limit) = {[page |-> page, limit |-> limit, cities |-> row(s).cities, total |-> row(s).total]}
      BY <2>1, <2>2
    <2> QED
      BY <2>3, <2>4 DEF Slice
  <1>6. Respond(Slice(s, page, limit)) = [status |-> 200, body |-> Slice(s, page, limit)]
    BY DEF Respond, Slice
  <1> QED
    BY <1>5, <1>6 DEF Search

-----------------------------------------------------------------------------
(* The table and the deployments. *)

StateInv ==
  /\ table \in Tables /\ local \in Tables
  /\ refreshes \in 0..Len(Refresh) /\ next \in 0..refreshes
  /\ deployed \in BOOLEAN /\ (deployed => next = 0)

LEMMA RefreshFacts ==
  ASSUME NEW i \in 1..Len(Refresh)
  PROVE  /\ DOMAIN Refresh[i] \subseteq Place
         /\ \A p \in DOMAIN Refresh[i] :
              Refresh[i][p] \in Version /\ Refresh[i][p] # None /\ Refresh[i][p].date \in Nat
  <1>1. Refresh[i] \in UNION {[S -> {v \in Version : v.date # None}] : S \in SUBSET Place}
    BY RowsAssumption
  <1>2. PICK S \in SUBSET Place : Refresh[i] \in [S -> {v \in Version : v.date # None}]
    BY <1>1
  <1>3. \A v \in Version : v # None /\ v.date \in Nat \cup {None}
    BY RowsAssumption
  <1> QED
    BY <1>2, <1>3

LEMMA UpsertTyped ==
  ASSUME NEW t \in Tables, NEW i \in 1..Len(Refresh)
  PROVE  Upsert(t, Refresh[i]) \in Tables
  BY RefreshFacts DEF Upsert, Tables

LEMMA StateInit == Init => StateInv
  <1> SUFFICES ASSUME Init PROVE StateInv
    OBVIOUS
  <1>1. deployed \in BOOLEAN /\ next = 0
    BY DEF Init
  <1>2. /\ table \in Tables /\ local \in Tables
        /\ refreshes \in 0..Len(Refresh) /\ next \in 0..refreshes
    BY RowsAssumption DEF Init, Tables
  <1> QED
    BY <1>1, <1>2 DEF StateInv

LEMMA StateStep == StateInv /\ [Next]_vars => StateInv'
  <1> SUFFICES ASSUME StateInv, [Next]_vars PROVE StateInv'
    OBVIOUS
  <1> USE DEF StateInv
  <1>0. Len(Refresh) \in Nat /\ refreshes \in Nat /\ next \in Nat
    BY RowsAssumption
  <1>1. CASE Deploy
    <2>1. deployed' \in BOOLEAN /\ ~deployed'
      BY <1>1 DEF Deploy
    <2> QED
      BY <1>0, <1>1, <2>1 DEF Deploy
  <1>2. CASE Apply
    <2>1. next \in 1..Len(Refresh)
      BY <1>0, <1>2 DEF Apply
    <2>2. table' \in Tables
      BY <1>2, <2>1, UpsertTyped DEF Apply, Change
    <2> QED
      BY <1>0, <1>2, <2>2 DEF Apply, Change
  <1>3. CASE ApplyFail
    BY <1>0, <1>3 DEF ApplyFail
  <1>4. CASE AddRefresh
    <2>1. deployed' \in BOOLEAN /\ ~deployed'
      BY <1>4 DEF AddRefresh
    <2> QED
      BY <1>0, <1>4, <2>1 DEF AddRefresh
  <1>5. ASSUME NEW p \in Place, Edit(p) PROVE StateInv'
    BY <1>0, <1>5 DEF Edit, Change, Tables
  <1>6. ASSUME NEW limit \in 0..MaxLimit, Open(limit) PROVE StateInv'
    BY <1>6 DEF Open
  <1>7. CASE Turn
    BY <1>7 DEF Turn
  <1>8. CASE Leave
    BY <1>8 DEF Leave
  <1>9. CASE UNCHANGED vars
    BY <1>9 DEF vars
  <1> QED
    BY <1>1, <1>2, <1>3, <1>4, <1>5, <1>6, <1>7, <1>8, <1>9 DEF Next

LEMMA StateInvariant == Spec => []StateInv
  BY StateInit, StateStep, PTL DEF Spec

-----------------------------------------------------------------------------
(* Every row is a version its place was given, not older than those the      *)
(* deployment has gone through: all of them once it has completed, and       *)
(* otherwise those before the migration it is at.  A row may come from a     *)
(* later refresh than that, of an earlier deployment; then it is replaced by *)
(* one of the same date at most, and the later one will be applied again.    *)

Reach == IF deployed THEN refreshes ELSE IF next = 0 THEN 0 ELSE next - 1

RowInv(p) ==
  \/ table[p] = None /\ \A i \in 0..Reach : ~Gives(p, i)
  \/ \E j \in 0..refreshes :
       /\ Gives(p, j) /\ table[p] = Given(p, j)
       /\ \A i \in 0..Reach : Gives(p, i) => NotNewer(p, i, j)

DeployInv == \A p \in Place : RowInv(p)

LEMMA GivenFacts ==
  ASSUME StateInv, NEW p \in Place, NEW i \in 0..refreshes, Gives(p, i)
  PROVE  /\ Given(p, i) \in Version /\ Given(p, i) # None
         /\ Given(p, i).date \in Nat \cup {None} /\ DateOf(Given(p, i)) \in Int
         /\ i # 0 => Given(p, i) = Refresh[i][p] /\ Refresh[i][p].date \in Nat
  <1>1. Given(p, i) \in Version /\ Given(p, i) # None
        /\ (i # 0 => Given(p, i) = Refresh[i][p] /\ Refresh[i][p].date \in Nat)
    <2>1. CASE i = 0
      BY <2>1, RowsAssumption DEF Gives, Given, StateInv, Tables
    <2>2. CASE i # 0
      <3>1. i \in 1..Len(Refresh)
        BY <2>2, RowsAssumption DEF StateInv
      <3> QED
        BY <2>2, <3>1, RefreshFacts DEF Gives, Given
    <2> QED
      BY <2>1, <2>2
  <1>2. Given(p, i).date \in Nat \cup {None}
    BY <1>1, RowsAssumption
  <1> QED
    BY <1>1, <1>2, RowsAssumption DEF DateOf

LEMMA GivenKept ==
  ASSUME local' = local, NEW p \in Place, NEW i, NEW j
  PROVE  /\ Gives(p, i)' <=> Gives(p, i)
         /\ Given(p, i)' = Given(p, i)
         /\ NotNewer(p, i, j)' <=> NotNewer(p, i, j)
  BY DEF Gives, Given, NotNewer

\* What is not gone through further, of versions that are the same, needs no proof.
LEMMA RowKept ==
  ASSUME StateInv, NEW p \in Place, RowInv(p), local' = local, table'[p] = table[p],
         refreshes \in Nat, refreshes' \in Nat, refreshes <= refreshes',
         Reach \in Nat, Reach' \in Nat, Reach' <= Reach
  PROVE  RowInv(p)'
  <1>1. \A i \in 0..Reach' : i \in 0..Reach
    OBVIOUS
  <1>2. CASE table[p] = None /\ \A i \in 0..Reach : ~Gives(p, i)
    BY <1>1, <1>2, GivenKept DEF RowInv
  <1>3. CASE \E j \in 0..refreshes :
               /\ Gives(p, j) /\ table[p] = Given(p, j)
               /\ \A i \in 0..Reach : Gives(p, i) => NotNewer(p, i, j)
    <2>1. PICK j \in 0..refreshes :
               /\ Gives(p, j) /\ table[p] = Given(p, j)
               /\ \A i \in 0..Reach : Gives(p, i) => NotNewer(p, i, j)
      BY <1>3
    <2>2. j \in 0..refreshes'
      OBVIOUS
    <2> QED
      BY <1>1, <2>1, <2>2, GivenKept DEF RowInv
  <1> QED
    BY <1>2, <1>3 DEF RowInv

LEMMA ApplyRow ==
  ASSUME StateInv, NEW p \in Place, RowInv(p), Apply
  PROVE  RowInv(p)'
  <1> DEFINE n == next
  <1>1. /\ n \in 1..refreshes /\ n \in 1..Len(Refresh) /\ refreshes \in Nat
        /\ local' = local /\ refreshes' = refreshes /\ table' = Upsert(table, Refresh[n])
    BY RowsAssumption DEF Apply, Change, StateInv
  <1>2. Reach = n - 1
    BY <1>1 DEF Reach, StateInv
  <1>3. Reach' = n
    <2>1. CASE n = refreshes
      BY <1>1, <2>1 DEF Reach, Apply
    <2>2. CASE n # refreshes
      <3>1. ~deployed' /\ next' = n + 1
        BY <2>2 DEF Apply
      <3> QED
        BY <1>1, <3>1 DEF Reach
    <2> QED
      BY <2>1, <2>2
  <1>4. \A i \in 0..n : i \in 0..(n - 1) \/ i = n
    BY <1>1
  <1>5. CASE p \notin DOMAIN Refresh[n]
    <2>1. table'[p] = table[p] /\ ~Gives(p, n)
      BY <1>1, <1>5 DEF Upsert, Gives
    <2>2. CASE table[p] = None /\ \A i \in 0..(n - 1) : ~Gives(p, i)
      BY <1>1, <1>3, <1>4, <2>1, <2>2, GivenKept DEF RowInv
    <2>3. CASE \E j \in 0..refreshes :
                 /\ Gives(p, j) /\ table[p] = Given(p, j)
                 /\ \A i \in 0..(n - 1) : Gives(p, i) => NotNewer(p, i, j)
      BY <1>1, <1>3, <1>4, <2>1, <2>3, GivenKept DEF RowInv
    <2> QED
      BY <1>2, <2>2, <2>3 DEF RowInv
  <1>6. CASE p \in DOMAIN Refresh[n]
    <2> DEFINE v == Refresh[n][p]
    <2>1. Gives(p, n) /\ Given(p, n) = v /\ v.date \in Nat /\ DateOf(v) = v.date
      BY <1>1, <1>6, RefreshFacts, RowsAssumption DEF Gives, Given, DateOf
    <2>2. CASE table[p] = None \/ table[p].date = None \/ v.date >= table[p].date
      <3>1. table'[p] = v
        BY <1>1, <1>6, <2>2 DEF Upsert
      <3>2. ASSUME NEW i \in 0..n, Gives(p, i) PROVE NotNewer(p, i, n)
        <4>1. CASE i = n
          BY <2>1, <4>1 DEF NotNewer
        <4>2. CASE i # n
          <5>1. i \in 0..(n - 1) /\ i \in 0..refreshes /\ i <= n
            BY <1>1, <4>2
          <5>2. PICK j \in 0..refreshes :
                  Gives(p, j) /\ table[p] = Given(p, j) /\ NotNewer(p, i, j)
            BY <1>2, <3>2, <5>1 DEF RowInv
          <5>3. table[p] # None /\ table[p].date \in Nat \cup {None}
                /\ DateOf(Given(p, i)) \in Int
            BY <3>2, <5>1, <5>2, GivenFacts
          <5>4. DateOf(table[p]) <= DateOf(v) /\ DateOf(table[p]) \in Int
            BY <2>1, <2>2, <5>3, RowsAssumption DEF DateOf
          <5>5. DateOf(Given(p, i)) <= DateOf(v)
            BY <2>1, <5>2, <5>3, <5>4 DEF NotNewer
          <5> QED
            BY <2>1, <5>1, <5>3, <5>5 DEF NotNewer
        <4> QED
          BY <4>1, <4>2
      <3> QED
        BY <1>1, <1>3, <2>1, <3>1, <3>2, GivenKept DEF RowInv
    <2>3. CASE ~(table[p] = None \/ table[p].date = None \/ v.date >= table[p].date)
      <3>1. table'[p] = table[p]
        BY <1>1, <1>6, <2>3 DEF Upsert
      <3>2. PICK j \in 0..refreshes :
              /\ Gives(p, j) /\ table[p] = Given(p, j)
              /\ \A i \in 0..(n - 1) : Gives(p, i) => NotNewer(p, i, j)
        BY <1>2, <2>3 DEF RowInv
      <3>3. DateOf(v) < DateOf(table[p])
        BY <2>1, <2>3, <3>2, GivenFacts DEF DateOf
      <3>4. NotNewer(p, n, j)
        BY <2>1, <3>2, <3>3 DEF NotNewer
      <3> QED
        BY <1>1, <1>3, <1>4, <3>1, <3>2, <3>4, GivenKept DEF RowInv
    <2> QED
      BY <2>2, <2>3
  <1> QED
    BY <1>5, <1>6

LEMMA EditRow ==
  ASSUME StateInv, NEW p \in Place, RowInv(p), NEW q \in Place, Edit(q)
  PROVE  RowInv(p)'
  <1>1. /\ next = 0 /\ next' = 0 /\ ~deployed'
        /\ refreshes' = refreshes /\ refreshes \in Nat
    BY RowsAssumption DEF Edit, StateInv
  <1>2. Reach' = 0 /\ Reach \in Nat
    BY <1>1 DEF Reach
  <1>3. PICK v \in Version : /\ table' = [table EXCEPT ![q] = v]
                            /\ local' = [local EXCEPT ![q] = v]
    BY DEF Edit, Change
  <1>4. CASE p = q
    <2>1. table'[p] = v /\ local'[p] = v /\ v # None
      BY <1>3, <1>4, RowsAssumption DEF StateInv, Tables
    <2>2. Gives(p, 0)' /\ Given(p, 0)' = v
      BY <2>1 DEF Gives, Given
    <2>3. \A i \in 0..0 : NotNewer(p, i, 0)'
      BY DEF NotNewer
    <2>4. 0 \in 0..refreshes'
      BY <1>1
    <2> QED
      BY <1>2, <2>1, <2>2, <2>3, <2>4 DEF RowInv
  <1>5. CASE p # q
    <2>1. table'[p] = table[p] /\ local'[p] = local[p]
      BY <1>3, <1>5 DEF StateInv, Tables
    <2>2. ASSUME NEW i, NEW j
          PROVE  /\ Gives(p, i)' <=> Gives(p, i)
                 /\ Given(p, i)' = Given(p, i)
                 /\ NotNewer(p, i, j)' <=> NotNewer(p, i, j)
      BY <2>1 DEF Gives, Given, NotNewer
    <2>3. 0 \in 0..Reach /\ \A i \in 0..0 : i \in 0..Reach
      BY <1>2
    <2> QED
      BY <1>1, <1>2, <2>1, <2>2, <2>3 DEF RowInv
  <1> QED
    BY <1>4, <1>5

LEMMA DeployInit == Init => DeployInv
  <1> SUFFICES ASSUME Init, NEW p \in Place PROVE RowInv(p)
    BY DEF DeployInv
  <1>1. Reach = 0 /\ 0 \in 0..refreshes /\ table[p] = local[p]
    BY DEF Init, Reach
  <1>2. Gives(p, 0) <=> local[p] # None
    BY DEF Gives
  <1>3. Given(p, 0) = local[p] /\ \A i \in 0..0 : NotNewer(p, i, 0)
    BY DEF Given, NotNewer
  <1> QED
    BY <1>1, <1>2, <1>3 DEF RowInv

LEMMA DeployStep == StateInv /\ DeployInv /\ [Next]_vars => DeployInv'
  <1> SUFFICES ASSUME StateInv, DeployInv, [Next]_vars, NEW p \in Place PROVE RowInv(p)'
    BY DEF DeployInv
  <1>0. /\ RowInv(p) /\ refreshes \in Nat /\ next \in 0..refreshes
        /\ deployed \in BOOLEAN /\ (deployed => next = 0)
    BY RowsAssumption DEF DeployInv, StateInv
  <1>r. Reach \in Nat /\ Reach <= refreshes
    BY <1>0 DEF Reach
  <1>1. CASE Deploy \/ ApplyFail \/ AddRefresh
    <2>1. /\ table' = table /\ local' = local
          /\ refreshes' \in Nat /\ refreshes <= refreshes'
      BY <1>0, <1>1 DEF Deploy, ApplyFail, AddRefresh
    <2>2. CASE Deploy \/ AddRefresh
      <3>1. ~deployed' /\ next' \in {0, 1}
        BY <1>0, <2>2 DEF Deploy, AddRefresh
      <3>2. Reach' = 0
        BY <3>1 DEF Reach
      <3> QED
        BY <1>0, <1>r, <2>1, <3>2, RowKept
    <2>3. CASE ApplyFail
      <3>1. ~deployed' /\ next' = 0
        BY <1>0, <2>3 DEF ApplyFail
      <3>2. Reach' = 0
        BY <3>1 DEF Reach
      <3> QED
        BY <1>0, <1>r, <2>1, <3>2, RowKept
    <2> QED
      BY <1>1, <2>2, <2>3
  <1>2. CASE Apply
    BY <1>0, <1>2, ApplyRow
  <1>3. ASSUME NEW q \in Place, Edit(q) PROVE RowInv(p)'
    BY <1>0, <1>3, EditRow
  <1>4. CASE \/ \E limit \in 0..MaxLimit : Open(limit)
             \/ Turn \/ Leave \/ UNCHANGED vars
    <2>1. UNCHANGED <<table, local, refreshes, next, deployed>>
      BY <1>4 DEF Open, Turn, Leave, vars
    <2>2. Reach' = Reach
      BY <2>1 DEF Reach
    <2> QED
      BY <1>0, <1>r, <2>1, <2>2, RowKept
  <1> QED
    BY <1>1, <1>2, <1>3, <1>4 DEF Next

LEMMA DeployInvariant == Spec => []DeployInv
  BY StateInvariant, DeployInit, DeployStep, PTL DEF Spec

LEMMA NewestChosen ==
  ASSUME StateInv, DeployInv, deployed, NEW p \in Place
  PROVE  table[p] = NewestVersion(p)
  <1> DEFINE from == {i \in 0..refreshes : Gives(p, i)}
             Latest(i) == \A j \in from : NotNewer(p, j, i)
  <1>1. Reach = refreshes /\ RowInv(p)
    BY DEF Reach, DeployInv
  <1>2. CASE table[p] = None /\ \A i \in 0..refreshes : ~Gives(p, i)
    <2>1. from = {}
      BY <1>2
    <2> QED
      BY <1>2, <2>1 DEF NewestVersion
  <1>3. ASSUME NEW j \in 0..refreshes, Gives(p, j), table[p] = Given(p, j),
               \A i \in 0..refreshes : Gives(p, i) => NotNewer(p, i, j)
        PROVE  table[p] = NewestVersion(p)
    <2>1. j \in from /\ Latest(j)
      BY <1>3
    <2>2. ASSUME NEW i \in from, Latest(i) PROVE i = j
      <3>1. NotNewer(p, i, j) /\ NotNewer(p, j, i)
        BY <2>1, <2>2
      <3>2. DateOf(Given(p, i)) \in Int /\ DateOf(Given(p, j)) \in Int
        BY <1>3, GivenFacts
      <3> QED
        BY <3>1, <3>2, RowsAssumption DEF NotNewer, StateInv
    <2> DEFINE latest == CHOOSE i \in from : Latest(i)
    <2>3. latest = j
      BY <2>1, <2>2
    <2>4. NewestVersion(p) = Given(p, latest)
      BY <2>1 DEF NewestVersion
    <2> QED
      BY <1>3, <2>3, <2>4
  <1> QED
    BY <1>1, <1>2, <1>3 DEF RowInv

\* README.md:246: whatever was applied, broken off, edited and applied again, a
\* deployment that completes leaves every row the newest there is.
THEOREM DeployedNewest == Spec => []DeployedIsNewest
  <1>1. StateInv /\ DeployInv => DeployedIsNewest
    BY NewestChosen DEF DeployedIsNewest
  <1> QED
    BY <1>1, StateInvariant, DeployInvariant, PTL

-----------------------------------------------------------------------------
(* The matches of a page: position i of the listing holds rank i - 1, and    *)
(* the positions of a page are those whose rank, divided by the page size,   *)
(* is one less than its number.                                              *)

LEMMA QuotientIs ==
  ASSUME NEW a \in Nat, NEW limit \in Nat \ {0}, NEW k \in Nat
  PROVE  a \div limit = k <=> k * limit <= a /\ a < k * limit + limit
  <1> DEFINE d == a \div limit
  <1>1. d \in Nat /\ d * limit <= a /\ a < d * limit + limit
    OBVIOUS
  <1>2. ASSUME k * limit <= a, a < k * limit + limit PROVE d = k
    <2>1. ASSUME NEW x \in Nat, NEW y \in Nat, x < y PROVE x * limit + limit <= y * limit
      <3> DEFINE z == y - x - 1
      <3>1. z \in Nat /\ y = x + 1 + z
        BY <2>1
      <3> HIDE DEF z
      <3>2. z * limit \in Nat /\ y * limit = x * limit + limit + z * limit
        BY <3>1
      <3>3. x * limit \in Nat
        OBVIOUS
      <3> QED
        BY <3>2, <3>3
    <2> HIDE DEF d
    <2>2. d * limit \in Nat /\ k * limit \in Nat
      BY <1>1
    <2>3. ~(d < k) /\ ~(k < d)
      BY <1>1, <1>2, <2>1, <2>2
    <2> QED
      BY <1>1, <2>3
  <1> QED
    BY <1>1, <1>2

LEMMA SliceFacts ==
  ASSUME NEW t \in Tables, NEW s \in Listings(t), NEW page \in Nat \ {0}, NEW limit \in Nat \ {0}
  PROVE  LET offset == (page - 1) * limit
             cities == Slice(s, page, limit).cities
         IN  /\ cities \in Seq(Matched(t)) /\ offset \in Nat
             /\ Len(cities) = IF Count(t) <= offset THEN 0
                              ELSE IF offset + limit <= Count(t) THEN limit ELSE Count(t) - offset
             /\ \A i \in 1..Len(cities) : offset + i \in 1..Count(t) /\ cities[i] = s[offset + i]
  <1> DEFINE offset == (page - 1) * limit  n == Count(t)
             last == Min({offset + limit, n})
             cities == SubSeq(s, offset + 1, last)
  <1>1. offset \in Nat /\ n \in Nat
    BY MatchedFacts
  <1>2. s \in [1..n -> Matched(t)] /\ Len(s) = n
    BY ListingFacts
  <1>3. Slice(s, page, limit).cities = cities
    BY <1>2 DEF Slice
  <1> HIDE DEF offset, n
  <1>4. last = IF offset + limit <= n THEN offset + limit ELSE n
    BY <1>1, MinOfTwo
  <1>5. last \in Int /\ last <= n
    BY <1>1, <1>4
  <1> HIDE DEF last
  <1>6. \A i \in offset + 1 .. last : i \in 1..n /\ s[i] \in Matched(t)
    BY <1>1, <1>2, <1>5
  <1>7. /\ cities \in Seq(Matched(t))
        /\ Len(cities) = IF offset + 1 <= last THEN last - (offset + 1) + 1 ELSE 0
        /\ \A i \in 1..(last - (offset + 1) + 1) : cities[i] = s[offset + 1 + i - 1]
    BY <1>1, <1>5, <1>6, SubSeqProperties
  <1> HIDE DEF cities
  <1>8. Len(cities) = IF n <= offset THEN 0
                      ELSE IF offset + limit <= n THEN limit ELSE n - offset
    BY <1>1, <1>4, <1>7
  <1>9. ASSUME NEW i \in 1..Len(cities)
        PROVE  offset + i \in 1..n /\ cities[i] = s[offset + i]
    <2>1. i \in 1..(last - (offset + 1) + 1) /\ offset + 1 + i - 1 = offset + i
      BY <1>1, <1>5, <1>7
    <2>2. offset + i \in 1..n
      BY <1>1, <1>8, <2>1
    <2> QED
      BY <1>7, <2>1, <2>2
  <1> QED
    BY <1>1, <1>3, <1>7, <1>8, <1>9 DEF offset, n

LEMMA SliceHoldsItsMatches ==
  ASSUME NEW t \in Tables, NEW s \in Listings(t), NEW page \in Nat \ {0}, NEW limit \in Nat \ {0}
  PROVE  ToSet(Slice(s, page, limit).cities) = {p \in Matched(t) : Rank(t, p) \div limit = page - 1}
  <1> DEFINE offset == (page - 1) * limit  n == Count(t)
             cities == Slice(s, page, limit).cities
             due == {p \in Matched(t) : Rank(t, p) \div limit = page - 1}
  <1>1. /\ cities \in Seq(Matched(t)) /\ offset \in Nat /\ n \in Nat
        /\ Len(cities) = IF n <= offset THEN 0
                         ELSE IF offset + limit <= n THEN limit ELSE n - offset
        /\ \A i \in 1..Len(cities) : offset + i \in 1..n /\ cities[i] = s[offset + i]
    BY SliceFacts, MatchedFacts
  <1>2. /\ s \in [1..n -> Matched(t)]
        /\ \A i \in 1..n : Rank(t, s[i]) = i - 1
        /\ \A p \in Matched(t) : \E i \in 1..n : s[i] = p
    BY ListingFacts
  <1>3. ASSUME NEW p \in Matched(t)
        PROVE  /\ Rank(t, p) \in Nat
               /\ Rank(t, p) \div limit = page - 1
                    <=> offset <= Rank(t, p) /\ Rank(t, p) < offset + limit
    <2>1. Rank(t, p) \in Nat /\ page - 1 \in Nat
      BY BetterFacts, MatchedFacts
    <2> QED
      BY <2>1, QuotientIs
  <1> HIDE DEF offset, cities, n
  <1>4. ASSUME NEW i \in 1..Len(cities) PROVE cities[i] \in due
    <2>1. offset + i \in 1..n /\ cities[i] = s[offset + i] /\ i \in Nat /\ 1 <= i /\ i <= limit
      BY <1>1
    <2> DEFINE j == offset + i
    <2>2. j \in 1..n /\ s[j] \in Matched(t) /\ Rank(t, s[j]) = j - 1
      BY <1>2, <2>1
    <2>3. offset <= Rank(t, s[j]) /\ Rank(t, s[j]) < offset + limit
      BY <1>1, <2>1, <2>2
    <2>4. s[j] \in due
      BY <1>3, <2>2, <2>3
    <2> QED
      BY <2>1, <2>4
  <1>5. ASSUME NEW p \in due PROVE \E i \in 1..Len(cities) : cities[i] = p
    <2>1. PICK j \in 1..n : s[j] = p
      BY <1>2
    <2>2. offset <= j - 1 /\ j - 1 < offset + limit
      BY <1>2, <1>3, <2>1
    <2>3. j - offset \in 1..Len(cities) /\ offset + (j - offset) = j
      BY <1>1, <2>2
    <2> QED
      BY <1>1, <2>1, <2>3
  <1>6. ToSet(cities) = due
    <2>1. DOMAIN cities = 1..Len(cities)
      BY <1>1
    <2> QED
      BY <1>4, <1>5, <2>1 DEF ToSet
  <1> QED
    BY <1>6 DEF cities

LEMMA PageHolds == StateInv => PageHoldsItsMatches
  <1> DEFINE Ahead(p) == Cardinality({q \in Matched(table) :
                        table[q].rank > table[p].rank \/ (table[q].rank = table[p].rank /\ q < p)})
             Holds(page, limit, a) ==
               /\ a.status = 200
               /\ ToSet(a.body.cities) = {p \in Matched(table) : Ahead(p) \div limit = page - 1}
               /\ a.body.cities # <<>> =>
                    a.body.total = Min({Cardinality(Matched(table)), MaxCounted})
  <1> SUFFICES ASSUME StateInv PROVE PageHoldsItsMatches
    OBVIOUS
  <1>1. ASSUME NEW page \in 1..MaxInt, NEW limit \in 1..MaxInt,
               limit <= MaxLimit, (page - 1) * limit <= MaxInt,
               NEW a \in Search(table, page, limit)
        PROVE  Holds(page, limit, a)
    <2>1. table \in Tables /\ page \in Nat \ {0} /\ limit \in Nat \ {0} /\ limit \in 1..MaxLimit
      BY <1>1, NumbersAssumption DEF StateInv
    <2>2. PICK s : s \in Listings(table)
      BY <2>1, OneListing
    <2>3. ParseIntDefault(page, 1) = page /\ ParseIntDefault(limit, DefaultLimit) = limit
      BY <1>1 DEF ParseIntDefault
    <2>4. a = [status |-> 200, body |-> Slice(s, page, limit)]
      BY <1>1, <2>1, <2>2, <2>3, SearchAnswers
    <2>5. \A p \in Matched(table) : Ahead(p) = Rank(table, p)
      BY DEF Rank, Better, Before
    <2>6. ToSet(a.body.cities) = {p \in Matched(table) : Ahead(p) \div limit = page - 1}
      BY <2>1, <2>2, <2>4, <2>5, SliceHoldsItsMatches
    <2>7. ASSUME a.body.cities # <<>> PROVE a.body.total = Min({Cardinality(Matched(table)), MaxCounted})
      <3> DEFINE cities == Slice(s, page, limit).cities
      <3>1. /\ cities \in Seq(Matched(table)) /\ cities # <<>>
            /\ Len(cities) = IF Count(table) <= (page - 1) * limit THEN 0
                             ELSE IF (page - 1) * limit + limit <= Count(table) THEN limit
                             ELSE Count(table) - (page - 1) * limit
        BY <2>1, <2>2, <2>4, <2>7, SliceFacts
      <3>2. Len(cities) # 0
        BY <3>1
      <3>3. ~(Count(table) <= (page - 1) * limit)
        BY <3>1, <3>2
      <3>4. (page - 1) * limit \in Int /\ Count(table) \in Int /\ Len(s) = Count(table)
        BY <2>1, <2>2, MatchedFacts, ListingFacts
      <3>5. (page - 1) * limit < Len(s)
        BY <3>3, <3>4
      <3> QED
        BY <2>4, <3>4, <3>5 DEF Slice, Count
    <2> QED
      BY <2>4, <2>6, <2>7
  <1> HIDE DEF Holds
  <1>2. \A page, limit \in 1..MaxInt :
          limit <= MaxLimit /\ (page - 1) * limit <= MaxInt =>
            \A a \in Search(table, page, limit) : Holds(page, limit, a)
    BY <1>1
  <1> QED
    BY <1>2 DEF PageHoldsItsMatches, Holds

\* A page asked for by number, whose offset fits an int, holds the matches that
\* are due on it, whatever the table holds and however many they are.
THEOREM PagesHold == Spec => []PageHoldsItsMatches
  BY StateInvariant, PageHolds, PTL

-----------------------------------------------------------------------------
(* A reader.  After k pages the reader has seen the first k * Width matches  *)
(* of the listing, or all of them; the table has not changed meanwhile.      *)

Width == ParseIntDefault(pager.limit, DefaultLimit)

\* What has been seen of the listing s after k pages, of which the last was full
\* or not.
SeenOf(s, k) ==
  /\ pager.page = k + 1
  /\ (k - 1) * Width <= Len(s)
  /\ pager.seen = SubSeq(s, 1, Min({k * Width, Len(s)}))
  /\ pager.ended <=> Len(s) < k * Width

PagerTyped ==
  pager \in [limit : 0..MaxLimit, page : Nat, seen : Seq(Place), ended : BOOLEAN]

PagerInv ==
  pager # None =>
    /\ PagerTyped
    /\ \/ pager.page = 0 /\ pager.seen = <<>> /\ ~pager.ended
       \/ \E k \in Nat \ {0}, s \in Listings(table) : SeenOf(s, k)

LEMMA PrefixGrows ==
  ASSUME NEW t \in Tables, NEW s \in Listings(t), NEW page \in Nat \ {0}, NEW width \in Nat \ {0},
         (page - 1) * width <= Len(s)
  PROVE  LET cities == Slice(s, page, width).cities
         IN  /\ SubSeq(s, 1, (page - 1) * width) \o cities = SubSeq(s, 1, Min({page * width, Len(s)}))
             /\ Len(cities) < width <=> Len(s) < page * width
  <1> DEFINE offset == (page - 1) * width  n == Len(s)  cities == Slice(s, page, width).cities
             last == Min({offset + width, n})
  <1>1. offset \in Nat /\ page * width = offset + width
    OBVIOUS
  <1>2. s \in Seq(Matched(t)) /\ n \in Nat /\ n = Count(t)
    BY ListingFacts
  <1>3. cities = SubSeq(s, offset + 1, last)
    BY DEF Slice
  <1>4. Len(cities) = IF n <= offset THEN 0
                      ELSE IF offset + width <= n THEN width ELSE n - offset
    BY <1>1, <1>2, SliceFacts
  <1> HIDE DEF cities
  <1>5. last = IF offset + width <= n THEN offset + width ELSE n
    BY <1>1, <1>2, MinOfTwo
  <1> HIDE DEF last
  <1>6. offset <= n
    OBVIOUS
  <1> HIDE DEF offset
  <1>7. 1 \in 1..n + 1 /\ offset \in 1 - 1..n /\ last \in offset..n
    BY <1>1, <1>2, <1>5, <1>6
  <1>8. SubSeq(s, 1, offset) \o SubSeq(s, offset + 1, last) = SubSeq(s, 1, last)
    BY <1>2, <1>7, ConcatAdjacentSubSeq
  <1>9. Len(cities) < width <=> n < offset + width
    BY <1>1, <1>2, <1>4, <1>6
  <1> QED
    BY <1>1, <1>3, <1>8, <1>9 DEF cities, offset, last

LEMMA WidthType ==
  ASSUME PagerTyped
  PROVE  Width \in 1..MaxLimit /\ Width \in Nat \ {0}
  BY NumbersAssumption DEF PagerTyped, Width, ParseIntDefault

\* A page more, of a listing whose pages so far were full.
LEMMA TurnPage ==
  ASSUME StateInv, PagerTyped, Turn, NEW s \in Listings(table), NEW page \in Nat \ {0},
         pager.page = IF page = 1 THEN 0 ELSE page, (page - 1) * Width <= Len(s),
         pager.seen = SubSeq(s, 1, (page - 1) * Width)
  PROVE  PagerTyped' /\ SeenOf(s, page)' /\ table' = table
  <1> DEFINE width == Width  cities == Slice(s, page, width).cities  short == Len(cities) < width
             seen == pager.seen \o cities
  <1>1. width \in 1..MaxLimit /\ width \in Nat \ {0} /\ table \in Tables
        /\ ParseIntDefault(pager.limit, DefaultLimit) = width
    BY WidthType DEF StateInv, Width
  <1>0. (page - 1) * width <= Len(s) /\ pager.seen = SubSeq(s, 1, (page - 1) * width)
    OBVIOUS
  <1> HIDE DEF width
  <1>2. /\ Len(s) \in Nat /\ Len(s) < MaxInt /\ MaxInt \in Nat
    BY <1>1, ListingFacts, MatchedFacts, CapacityAssumption, NumbersAssumption
  <1>3. page - 1 <= (page - 1) * width /\ (page - 1) * width \in Nat
    <2>1. PICK w \in Nat, k \in Nat : width = w + 1 /\ page = k + 1
      <3> DEFINE w == width - 1  k == page - 1
      <3>1. w \in Nat /\ k \in Nat /\ width = w + 1 /\ page = k + 1
        BY <1>1
      <3> HIDE DEF w, k
      <3> QED
        BY <3>1
    <2>2. (page - 1) * width = k * w + k /\ k * w \in Nat
      BY <2>1
    <2> QED
      BY <2>1, <2>2
  <1>4. ParseIntDefault(pager.page, 1) = page
    BY <1>0, <1>2, <1>3 DEF ParseIntDefault
  <1>5. Search(table, pager.page, pager.limit) = {[status |-> 200, body |-> Slice(s, page, width)]}
    <2>1. (page - 1) * width <= MaxInt
      BY <1>0, <1>2, <1>3
    <2> QED
      BY <1>1, <1>4, <2>1, SearchAnswers
  <1>6. /\ pager' = [pager EXCEPT !.page = page + 1, !.seen = seen, !.ended = short]
        /\ table' = table
    <2>1. PICK a \in Search(table, pager.page, pager.limit) :
            pager' = [pager EXCEPT !.page = a.body.page + 1, !.seen = pager.seen \o a.body.cities,
                                   !.ended = Len(a.body.cities) < a.body.limit]
      BY DEF Turn
    <2>2. a.body = Slice(s, page, width)
      BY <1>5
    <2>3. Slice(s, page, width).page = page /\ Slice(s, page, width).limit = width
      BY DEF Slice
    <2> QED
      BY <2>1, <2>2, <2>3 DEF Turn
  <1>7. /\ SubSeq(s, 1, (page - 1) * width) \o cities = SubSeq(s, 1, Min({page * width, Len(s)}))
        /\ short <=> Len(s) < page * width
        /\ cities \in Seq(Matched(table))
    BY <1>0, <1>1, PrefixGrows, SliceFacts
  <1>8. seen \in Seq(Place)
    <2>1. cities \in Seq(Place)
      BY <1>1, <1>7, MatchedFacts
    <2>2. pager.seen \in Seq(Place)
      BY DEF PagerTyped
    <2> HIDE DEF cities
    <2> QED
      BY <2>1, <2>2, ConcatProperties
  <1>9. seen = SubSeq(s, 1, Min({page * width, Len(s)}))
    BY <1>0, <1>7
  <1>10. short \in BOOLEAN
    OBVIOUS
  <1>11. short <=> Len(s) < page * width
    BY <1>7
  <1> HIDE DEF seen, short
  <1>12. PagerTyped'
    <2> DEFINE following == page + 1
    <2>1. following \in Nat /\ pager' = [pager EXCEPT !.page = following, !.seen = seen, !.ended = short]
      BY <1>6
    <2> HIDE DEF following
    <2>2. [pager EXCEPT !.page = following, !.seen = seen, !.ended = short]
            \in [limit : 0..MaxLimit, page : Nat, seen : Seq(Place), ended : BOOLEAN]
      BY <1>8, <1>10, <2>1, Zenon DEF PagerTyped
    <2> QED
      BY <2>1, <2>2 DEF PagerTyped
  <1>13. /\ pager'.limit = pager.limit /\ pager'.page = page + 1
         /\ pager'.seen = seen /\ pager'.ended = short
    BY <1>6 DEF PagerTyped
  <1>14. Width' = width
    BY <1>13 DEF Width, width
  <1> QED
    BY <1>0, <1>6, <1>9, <1>11, <1>12, <1>13, <1>14 DEF SeenOf

LEMMA TurnStep == StateInv /\ PagerInv /\ Turn => PagerInv'
  <1> SUFFICES ASSUME StateInv, PagerInv, Turn PROVE PagerInv'
    OBVIOUS
  <1>1. pager # None /\ ~pager.ended /\ PagerTyped
    BY DEF Turn, PagerInv
  <1>2. Width \in 1..MaxLimit /\ Width \in Nat \ {0} /\ table \in Tables
    BY <1>1, WidthType DEF StateInv
  <1>3. ASSUME NEW k \in Nat \ {0}, NEW s \in Listings(table),
               PagerTyped', SeenOf(s, k)', table' = table
        PROVE  PagerInv'
    <2>1. s \in Listings(table')
      BY <1>3
    <2>2. Listings(table') = Listings(table)'
      OBVIOUS
    <2> QED
      BY <1>3, <2>1, <2>2 DEF PagerInv
  <1>4. CASE pager.page = 0 /\ pager.seen = <<>>
    <2>1. PICK s : s \in Listings(table)
      BY <1>2, OneListing
    <2>2. (1 - 1) * Width = 0 /\ Len(s) \in Nat /\ 1 \in Nat \ {0}
      BY <1>2, <2>1, ListingFacts, MatchedFacts
    <2>3. SubSeq(s, 1, 0) = <<>>
      BY SubSeqEmpty
    <2> HIDE DEF Width
    <2>4. pager.seen = SubSeq(s, 1, (1 - 1) * Width) /\ (1 - 1) * Width <= Len(s)
      BY <1>4, <2>2, <2>3
    <2>5. pager.page = IF 1 = 1 THEN 0 ELSE 1
      BY <1>4
    <2>6. PagerTyped' /\ SeenOf(s, 1)' /\ table' = table
      BY <1>1, <2>1, <2>2, <2>4, <2>5, TurnPage
    <2> QED
      BY <1>3, <2>1, <2>2, <2>6
  <1>5. ASSUME NEW k \in Nat \ {0}, NEW s \in Listings(table), SeenOf(s, k) PROVE PagerInv'
    <2> DEFINE page == k + 1
    <2>1. page \in Nat \ {0} /\ page # 1 /\ page - 1 = k
      OBVIOUS
    <2>2. Len(s) \in Nat /\ k * Width \in Nat
      BY <1>2, ListingFacts, MatchedFacts
    <2>3. /\ pager.page = page /\ pager.seen = SubSeq(s, 1, Min({k * Width, Len(s)}))
          /\ ~(Len(s) < k * Width)
      BY <1>1, <1>5 DEF SeenOf
    <2> HIDE DEF page, Width
    <2>4. k * Width <= Len(s)
      BY <2>2, <2>3
    <2>5. Min({k * Width, Len(s)}) = k * Width
      BY <2>2, <2>4, MinOfTwo
    <2>6. PagerTyped' /\ SeenOf(s, page)' /\ table' = table
      BY <1>1, <2>1, <2>3, <2>4, <2>5, TurnPage
    <2> QED
      BY <1>3, <2>1, <2>6
  <1> QED
    BY <1>1, <1>4, <1>5 DEF PagerInv, Turn

LEMMA PagerStep == StateInv /\ PagerInv /\ [Next]_vars => PagerInv'
  <1> SUFFICES ASSUME StateInv, PagerInv, [Next]_vars PROVE PagerInv'
    OBVIOUS
  <1>1. CASE pager' = None
    BY <1>1 DEF PagerInv
  <1>2. CASE pager' = pager /\ table' = table
    <2>1. Width' = Width
      BY <1>2 DEF Width
    <2>2. \A k, s : SeenOf(s, k)' <=> SeenOf(s, k)
      BY <1>2, <2>1 DEF SeenOf
    <2>3. Listings(table)' = Listings(table)
      BY <1>2
    <2>4. PagerTyped' <=> PagerTyped
      BY <1>2 DEF PagerTyped
    <2> QED
      BY <1>2, <2>2, <2>3, <2>4 DEF PagerInv
  <1>3. CASE \/ Deploy \/ Apply \/ ApplyFail \/ AddRefresh
             \/ \E p \in Place : Edit(p)
             \/ Leave \/ UNCHANGED vars
    <2>1. pager' = None \/ (pager' = pager /\ table' = table)
      BY <1>3 DEF Deploy, Apply, ApplyFail, AddRefresh, Edit, Leave, Change, vars
    <2> QED
      BY <1>1, <1>2, <2>1
  <1>4. ASSUME NEW limit \in 0..MaxLimit, Open(limit) PROVE PagerInv'
    <2>1. pager' = [limit |-> limit, page |-> 0, seen |-> <<>>, ended |-> FALSE]
      BY <1>4 DEF Open
    <2>2. <<>> \in Seq(Place) /\ 0 \in Nat /\ FALSE \in BOOLEAN
      OBVIOUS
    <2>3. PagerTyped' /\ pager'.page = 0 /\ pager'.seen = <<>> /\ ~pager'.ended
      BY <2>1, <2>2 DEF PagerTyped
    <2> QED
      BY <2>3 DEF PagerInv
  <1>5. CASE Turn
    BY <1>5, TurnStep
  <1> QED
    BY <1>3, <1>4, <1>5 DEF Next

LEMMA PagerInvariant == Spec => []PagerInv
  <1>1. Init => PagerInv
    BY DEF Init, PagerInv
  <1> QED
    BY <1>1, PagerStep, StateInvariant, PTL DEF Spec

\* A reader who turns full pages only asks for one page more than there are
\* matches to fill them.
LEMMA PageBounded ==
  ASSUME StateInv, PagerInv, pager # None
  PROVE  pager.page \in 0..(Cardinality(Place) + 2)
  <1>1. PagerTyped /\ table \in Tables /\ Width \in Nat \ {0} /\ Cardinality(Place) \in Nat
    BY WidthType, MatchedFacts DEF PagerInv, StateInv
  <1>2. ASSUME NEW k \in Nat \ {0}, NEW s \in Listings(table), SeenOf(s, k)
        PROVE  pager.page \in 0..(Cardinality(Place) + 2)
    <2>1. pager.page = k + 1 /\ (k - 1) * Width <= Cardinality(Place)
      <3>1. Len(s) \in Nat /\ Len(s) <= Cardinality(Place)
        BY <1>1, ListingFacts, MatchedFacts
      <3>2. (k - 1) * Width \in Nat
        BY <1>1
      <3> QED
        BY <1>1, <1>2, <3>1, <3>2 DEF SeenOf
    <2>2. k - 1 <= (k - 1) * Width /\ (k - 1) * Width \in Nat
      <3> DEFINE w == Width - 1  j == k - 1
      <3>1. w \in Nat /\ j \in Nat /\ Width = w + 1
        BY <1>1
      <3> HIDE DEF w, j, Width
      <3>2. j * Width = j * w + j /\ j * w \in Nat
        BY <3>1
      <3> QED
        BY <3>1, <3>2 DEF j
    <2> QED
      BY <1>1, <2>1, <2>2
  <1> QED
    BY <1>1, <1>2 DEF PagerInv

LEMMA TypeHolds == StateInv /\ PagerInv => TypeOK
  <1> SUFFICES ASSUME StateInv, PagerInv PROVE TypeOK
    OBVIOUS
  <1>1. ASSUME pager # None
        PROVE  /\ pager.limit \in 0..MaxLimit /\ pager.page \in 0..(Cardinality(Place) + 2)
               /\ pager.seen \in Seq(Place) /\ pager.ended \in BOOLEAN
    <2>1. PagerTyped
      BY <1>1 DEF PagerInv
    <2> QED
      BY <1>1, <2>1, PageBounded DEF PagerTyped
  <1> QED
    BY <1>1 DEF StateInv, Tables, TypeOK

\* Every variable has its type, and a reader turns no more pages than there are
\* places, whatever the size of a page.
THEOREM TypeCorrect == Spec => []TypeOK
  BY StateInvariant, PagerInvariant, TypeHolds, PTL

LEMMA EachOnce == StateInv /\ PagerInv => PagesShowEachOnce
  <1> SUFFICES ASSUME StateInv, PagerInv, pager # None, pager.ended
               PROVE  /\ ToSet(pager.seen) = Matched(table)
                      /\ \A i, j \in DOMAIN pager.seen : i < j =>
                           /\ pager.seen[i] # pager.seen[j]
                           /\ table[pager.seen[i]].rank >= table[pager.seen[j]].rank
    BY DEF PagesShowEachOnce
  <1>1. PagerTyped /\ table \in Tables /\ Width \in Nat \ {0}
    BY WidthType DEF PagerInv, StateInv
  <1>2. PICK k \in Nat \ {0}, s \in Listings(table) : SeenOf(s, k)
    BY DEF PagerInv
  <1>3. /\ s \in Seq(Matched(table)) /\ Len(s) = Count(table) /\ Count(table) \in Nat
        /\ s \in [1..Count(table) -> Matched(table)]
        /\ \A i \in 1..Count(table) : Rank(table, s[i]) = i - 1
        /\ \A p \in Matched(table) : \E i \in 1..Count(table) : s[i] = p
    BY <1>1, ListingFacts, MatchedFacts
  <1>4. pager.seen = s
    <2>1. Len(s) < k * Width /\ k * Width \in Nat
      BY <1>1, <1>2 DEF SeenOf
    <2>2. Min({k * Width, Len(s)}) = Len(s)
      BY <1>3, <2>1, MinOfTwo
    <2> QED
      BY <1>2, <1>3, <2>2, SubSeqFull DEF SeenOf
  <1>5. ToSet(s) = Matched(table)
    BY <1>3 DEF ToSet
  <1>6. ASSUME NEW i \in DOMAIN s, NEW j \in DOMAIN s, i < j
        PROVE  s[i] # s[j] /\ table[s[i]].rank >= table[s[j]].rank
    <2>1. /\ i \in 1..Count(table) /\ j \in 1..Count(table)
          /\ s[i] \in Matched(table) /\ s[j] \in Matched(table)
      BY <1>3
    <2>2. Rank(table, s[i]) < Rank(table, s[j])
      BY <1>3, <1>6, <2>1
    <2>3. Before(table, s[i], s[j])
      BY <1>1, <2>1, <2>2, RankOrders
    <2> QED
      BY <1>1, <2>1, <2>3, MatchedFacts DEF Before
  <1> QED
    BY <1>4, <1>5, <1>6

\* Going through the pages shows every match once, the better first: each page
\* is a query of its own, but all of them are cut from one listing.
THEOREM PagesShow == Spec => []PagesShowEachOnce
  BY StateInvariant, PagerInvariant, EachOnce, PTL
=============================================================================
