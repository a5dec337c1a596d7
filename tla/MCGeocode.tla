------------------------------- MODULE MCGeocode -------------------------------
(* Instances of Geocode for TLC. *)
EXTENDS Geocode, TLC

\* Callers and names are interchangeable; not for runs with liveness.
Interchangeable == Permutations(Request) \cup Permutations(Name)
=============================================================================
