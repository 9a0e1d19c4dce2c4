------------------------------- MODULE Roster -------------------------------
(***************************************************************************)
(* What the consilium promises about the owners' register, whatever the    *)
(* proposals, votes, requests and crashes behind it.  The register is      *)
(* seeded once and as a whole; after that it moves by one seat at a time,  *)
(* only while at least one owner sits, and never below the floor.          *)
(***************************************************************************)
EXTENDS Naturals, FiniteSets

CONSTANTS User, MinOwners

VARIABLE owners

Init == owners = {}

(* The one way out of an empty register. *)
Found(S) ==
  /\ owners = {}
  /\ Cardinality(S) >= MinOwners
  /\ owners' = S

Seat(u) ==
  /\ owners # {}
  /\ u \notin owners
  /\ owners' = owners \union {u}

(* At least MinOwners must remain after the seat is gone. *)
Unseat(u) ==
  /\ u \in owners
  /\ Cardinality(owners \ {u}) >= MinOwners
  /\ owners' = owners \ {u}

Next ==
  \/ \E S \in SUBSET User : Found(S)
  \/ \E u \in User : Seat(u) \/ Unseat(u)

Spec == Init /\ [][Next]_owners
=============================================================================
