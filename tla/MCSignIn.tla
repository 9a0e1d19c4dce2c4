------------------------------ MODULE MCSignIn ------------------------------
(* Instances of SignIn. *)
EXTENDS SignIn, TLC
CONSTANTS u1, u2, m1, m2, s1, q1, q2
Interchangeable ==
  Permutations(Account) \union Permutations(Mailbox) \union Permutations(Subject)
    \union Permutations(Request)
=============================================================================
