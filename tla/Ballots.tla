------------------------------ MODULE Ballots ------------------------------
(***************************************************************************)
(* The passing rules of the consilia (domain/src/governance.rs): pure      *)
(* functions of a set of voters and of what each of them has answered.     *)
(* ADMIT, FOR and REMOVE all read as the ballot "for", REJECT, AGAINST and *)
(* KEEP as "against" (Vote::ballot, AdmissionVote::ballot,                 *)
(* ProposalVote::ballot).                                                  *)
(***************************************************************************)
EXTENDS Naturals, FiniteSets

Ballot  == {"pending", "for", "against"}
Cast    == Ballot \ {"pending"}
Outcome == {"passes", "fails", "pending"}

(* Those of the voters S whose answer in v is b. *)
Answered(S, v, b) == {u \in S : v[u] = b}

(* One block ends it, and nobody asked is nobody convinced. *)
Unanimity(S, v) ==
  IF S = {} \/ Answered(S, v, "against") # {} THEN "fails"
  ELSE IF Answered(S, v, "for") = S           THEN "passes"
  ELSE "pending"

NeededVotes(n) == (n \div 2) + 1

(* Decided as soon as the remaining voters cannot change the result. *)
Majority(S, v) ==
  LET needed  == NeededVotes(Cardinality(S))
      inFavor == Cardinality(Answered(S, v, "for"))
      opposed == Cardinality(Answered(S, v, "against"))
  IN  IF S = {}                                    THEN "fails"
      ELSE IF inFavor >= needed                    THEN "passes"
      ELSE IF opposed > Cardinality(S) - needed    THEN "fails"
      ELSE "pending"

(***************************************************************************)
(* A removal passes by the target's own consent or by its peers, of whom   *)
(* one refusal ends it.  With no peer left only the target can carry it.   *)
(***************************************************************************)
RemovalOutcome(decision, S, v) ==
  IF decision = "for"                         THEN "passes"
  ELSE IF Answered(S, v, "against") # {}      THEN "fails"
  ELSE IF S = {} /\ decision = "against"      THEN "fails"
  ELSE IF S = {}                              THEN "pending"
  ELSE Unanimity(S, v)
=============================================================================
