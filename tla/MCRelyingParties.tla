--------------------------- MODULE MCRelyingParties ---------------------------
(* Instances of RelyingParties. *)
EXTENDS RelyingParties, TLC
CONSTANTS c1, f1, w1, w2
Interchangeable == Permutations(Code) \union Permutations(Family) \union Permutations(Worker)
=============================================================================
