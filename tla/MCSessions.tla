----------------------------- MODULE MCSessions -----------------------------
(* Instances of Sessions. *)
EXTENDS Sessions, TLC
CONSTANTS u, v, p, q
Interchangeable == Permutations(Web) \union Permutations(Worker)
=============================================================================
