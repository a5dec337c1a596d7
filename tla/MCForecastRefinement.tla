------------------------- MODULE MCForecastRefinement -------------------------
(* Instances of ForecastRefinement for TLC. *)
EXTENDS ForecastRefinement, TLC

\* Callers are interchangeable, and so are flight keys; used in runs without
\* liveness properties only.
CallersAndKeys == Permutations(Request) \cup Permutations(Key)
=============================================================================
