------------------------------- MODULE MCGrants -------------------------------
(* Two instances in one run: the transactions over two aliases whose second     *)
(* catalog withdraws a delegation and an alias, and the meaning of what is      *)
(* granted in two namespaces whose clients publish all sorts of things.         *)
EXTENDS Grants, Iam, TLC
CONSTANTS u1, u2, u3, p1, w1, w2, admin, operator, none, several

VARIABLE instance

Catalogs2 == <<{admin, operator}, {operator}>>
AdminsDelegate == <<[t \in Alias |-> IF t = admin THEN {operator} ELSE {}], [t \in Alias |-> {}]>>
Interchangeable == Permutations(Worker) \union Permutations({u1, u3}) \union Permutations(Unnamed)

Segments == {"sa", "arb", "seat", "read", "leads"}
Admin == <<"sa", "leads">>
Clerk == <<"sa", "read">>
Read(n) == <<n, "leads", "read">>
Deep(n) == <<n, "leads", "read", "leads">>
SeatMay == {<<"seat", "leads", "read">>}

Typed == {Admin, Clerk, <<"sa", "*">>, <<"sa", "*", "read">>, <<"sa", "leads", "*">>, Deep("sa"),
          <<"arb", "*">>, <<"seat", "*">>, <<"*", "read">>}

As(name, members, delegates) == [name |-> name, members |-> members, delegates |-> delegates]
Built(version, permissions, aliases) == [version |-> version, permissions |-> permissions, aliases |-> aliases]

(* Of the first build and of the next; with the seats' permissions or a neighbour's in it; *)
(* with a peer to mint; with an alias twice; and one from the future.                      *)
Offered ==
  LET both == {As(Admin, {Read("sa")}, {Clerk}), As(Clerk, {}, {})}
  IN  {Built(1, {Read("sa"), Deep("sa")}, both),
       Built(2, {Read("sa")}, {As(Clerk, {Read("sa")}, {Admin}), As(Admin, {}, {})}),
       Built(2, {Read("sa")}, {As(Clerk, {Read("sa")}, {Clerk})}),
       Built(1, {Read("seat"), Read("arb")}, {}),
       Built(1, {Read("arb")}, {}),
       Built(2, {Read("sa")}, {As(Clerk, {}, {}), As(Clerk, {Read("sa")}, {})}),
       Built(3, {Read("arb")}, {})}

MCInit ==
  /\ Init /\ IamInit
  /\ \/ instance = "transactions" /\ seated = {} /\ Cardinality(seat) <= 1
     \/ instance = "meaning" /\ seat = {}

MCNext ==
  /\ UNCHANGED instance
  /\ \/ instance = "transactions" /\ Next /\ UNCHANGED iamVars
     \/ instance = "meaning" /\ IamNext /\ UNCHANGED vars

MCSpec == MCInit /\ [][MCNext]_<<vars, iamVars, instance>>
=============================================================================
