------------------------------ MODULE MCRateLimit ------------------------------
(* Instances of RateLimit for TLC. *)
EXTENDS RateLimit, TLC

Interchangeable == Permutations(Client) \cup Permutations(Proxy)
=============================================================================
