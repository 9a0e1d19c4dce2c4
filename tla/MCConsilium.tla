---------------------------- MODULE MCConsilium ----------------------------
(* Small instances of Consilium for TLC. *)
EXTENDS Consilium, TLC

CONSTANTS a, b, d, p1, p2

(* No constant names a proposal. *)
ProposalsInterchangeable == Permutations(Id)
=============================================================================
