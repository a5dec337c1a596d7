---------------------------- MODULE MCCitySearch ----------------------------
(* An instance of CitySearch for TLC: three places of which two refreshes give *)
(* versions of different and of equal dates.                                    *)
EXTENDS CitySearch

V(date, rank) == [date |-> date, rank |-> rank]

Table == [p \in Place |-> IF p = 1 THEN V(1, 1) ELSE None]

Files == <<
  (1 :> V(2, 2) @@ 2 :> V(1, 1)),
  (1 :> V(2, 1) @@ 2 :> V(2, 2) @@ 3 :> V(1, 1)) >>

Versions == {V(None, 1), V(1, 1), V(2, 2), V(1, 0), V(3, 2)}
             \cup UNION {Range(Files[i]) : i \in DOMAIN Files}
=============================================================================
