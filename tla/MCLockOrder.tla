---------------------------- MODULE MCLockOrder ----------------------------
(* Two instances in one run: which kinds of transaction lock side by side, and *)
(* what the operators' transactions decide about three accounts.               *)
EXTENDS LockOrder, Console, TLC

CONSTANTS o1, o2, o3, d1, d2

CONSTANTS Boards \* bound: which verbs the operators use side by side

VARIABLE instance

Numbered == 1..3
Seated   == {1, 3}

(* Everything that names no actor next to the consilia; grants next to what the accounts do. *)
Ordered  == {{"own_write", "open", "ballot", "verdict"}, {"grant", "own_write"}}

Paired == {{"hold", "reinstate"}, {"set_role", "set_maintenance"}, {"revoke_tokens"}, {"set_kyc_level"}}

Interchangeable == Permutations(Tx) \union Permutations(Desk)

MCInit ==
  /\ Init /\ ConsoleInit
  /\ \/ instance = {} /\ \A u \in Account : record[u].role = "investor"
     \/ instance \in Boards /\ traffic = CHOOSE t \in Traffics : TRUE

MCNext ==
  /\ UNCHANGED instance
  /\ \/ instance = {} /\ Next /\ UNCHANGED consoleVars
     \/ /\ instance # {} /\ ConsoleNext /\ UNCHANGED vars
        /\ \A d \in Desk : desk'[d].step = "waiting" \/ desk'[d].verb \in instance

MCSpec == MCInit /\ [][MCNext]_<<vars, consoleVars, instance>>
=============================================================================
