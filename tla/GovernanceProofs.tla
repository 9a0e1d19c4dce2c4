--------------------------- MODULE GovernanceProofs ---------------------------
(***************************************************************************)
(* Theorems about Consilium, and about the mails of MailRelay and          *)
(* Delivery, for any accounts, proposals, rows, dispatchers, requests and  *)
(* bounds.                                                                 *)
(*                                                                         *)
(* Of the consilia: nothing is proposed before the register is seeded      *)
(* (BornOfOwners), nobody votes on what he initiated (InitiatorIsNoPeer),  *)
(* and what is open is undecided (OpenIsUndecided), so that each step that *)
(* moves a seat is one of Roster's.                                        *)
(*                                                                         *)
(* Of the mails: a row of the queue is worth one sending for each          *)
(* dispatcher that holds it and one more if another may claim it.  All but *)
(* its first are a debt (Debt), and it is the lapses, and nothing the      *)
(* dispatchers tell each other, that pay for them (DebtsArePaid); so they  *)
(* do for each turn past the cap (TriesArePaidFor).                        *)
(***************************************************************************)
EXTENDS Consilium, MailRelay, FiniteSetTheorems, TLAPS

(***************************************************************************)
(* The handlers of the three tables, taken together                        *)
(***************************************************************************)

Steps ==
  \/ \E S \in SUBSET User : SeedOwners(S)
  \/ \E u \in User : PassGate(u) \/ RequestFails(u) \/ Resign(u) \/ HoldEnds(u)
  \/ \E p \in Id, kind \in Kinds, i, s \in User : OpenProposal(p, kind, i, s)
  \/ \E p \in Id, i \in User, b \in Cast : Vote(p, i, b)
  \/ \E p \in Id, b \in Cast : TargetDecides(p, b)
  \/ \E p \in Id, i \in User : Cancel(p, i) \/ ExpireOnWrite(p, i)
  \/ \E i, t \in User, r \in Role : SetRole(i, t, r)
  \/ \E a, t \in User : HoldUser(a, t)
  \/ \E p \in Id : DeadlinePasses(p)
  \/ Restart

(* Whichever table it is about, a step opens, answers or closes a proposal. *)
LEMMA NextIsStep == Next => Steps
<1> SUFFICES ASSUME Next PROVE Steps
  OBVIOUS
<1>1. ASSUME NEW p \in Id, NEW i \in User, NEW s \in User,
             OpenRemoval(p, i, s) \/ OpenAdmission(p, i, s) \/ OpenUserProposal(p, i, s)
      PROVE  \E kind \in Kinds : OpenProposal(p, kind, i, s)
  BY <1>1 DEF OpenRemoval, OpenAdmission, OpenUserProposal
<1>2. ASSUME NEW p \in Id, NEW i \in User, NEW b \in Cast,
             PeerVote(p, i, b) \/ AdmissionVote(p, i, b) \/ UserProposalVote(p, i, b)
      PROVE  Vote(p, i, b)
  BY <1>2 DEF PeerVote, AdmissionVote, UserProposalVote
<1>3. ASSUME NEW p \in Id, NEW i \in User,
             CancelRemoval(p, i) \/ CancelAdmission(p, i) \/ CancelUserProposal(p, i)
      PROVE  Cancel(p, i)
  BY <1>3 DEF CancelRemoval, CancelAdmission, CancelUserProposal
<1> QED BY <1>1, <1>2, <1>3 DEF Next, Steps

(***************************************************************************)
(* Types                                                                   *)
(***************************************************************************)

LEMMA NewProposalType ==
  ASSUME NEW kind \in Kinds, NEW i \in User, NEW s \in User
  PROVE  NewProposal(kind, i, s) \in Proposal
  BY KindsAssumption DEF NewProposal, PeersOf, Proposal, Owners, Ballot

LEMMA SettleType ==
  ASSUME TypeOK, NEW p \in Id, NEW x \in Proposal, Settle(p, x)
  PROVE  /\ role' \in [User -> Role]
         /\ standing' \in [User -> Standing]
         /\ proposal' \in [Id -> Proposal \union {Unused}]
<1> DEFINE after == StateAfterAnswer(x)
<1>1. after \in {"open"} \union Closed
  BY DEF StateAfterAnswer, Closed
<1>2. x.subject \in User
  BY DEF Proposal
<1>3. [x EXCEPT !.state = after] \in Proposal
  BY <1>1 DEF Proposal
<1>4. proposal' \in [Id -> Proposal \union {Unused}]
  BY <1>3 DEF Settle, TypeOK
<1>5. RoleAfter(x) \in Role /\ StandingAfter(x) \in Standing
  BY <1>2 DEF RoleAfter, StandingAfter, TypeOK, Role, Standing
<1>6. role' \in [User -> Role] /\ standing' \in [User -> Standing]
  BY <1>2, <1>5 DEF Settle, TypeOK
<1> QED BY <1>4, <1>6

LEMMA OpenIsProposal ==
  ASSUME TypeOK, NEW p \in Id, proposal[p].state = "open"
  PROVE  proposal[p] \in Proposal
  BY DEF TypeOK, Unused

LEMMA ClosingType ==
  ASSUME NEW x \in Proposal, NEW st \in {"open"} \union Closed
  PROVE  [x EXCEPT !.state = st] \in Proposal
  BY DEF Proposal

LEMMA TypeStep == TypeOK /\ [Next]_vars => TypeOK'
<1> SUFFICES ASSUME TypeOK, [Next]_vars PROVE TypeOK'
  OBVIOUS
<1>1. ASSUME NEW S \in SUBSET User, SeedOwners(S) PROVE TypeOK'
  BY <1>1 DEF TypeOK, SeedOwners, Role
<1>2. ASSUME NEW u \in User, PassGate(u) PROVE TypeOK'
  BY <1>2 DEF TypeOK, PassGate
<1>3. ASSUME NEW u \in User, RequestFails(u) PROVE TypeOK'
  BY <1>3 DEF TypeOK, RequestFails
<1>4. ASSUME NEW u \in User, Resign(u) PROVE TypeOK'
  <2>1. role' \in [User -> Role]
    BY <1>4 DEF TypeOK, Resign, SeatCanBeSpared, Role
  <2>2. ASSUME NEW p \in Id, p \in OpenAbout("removal", u)
        PROVE  [proposal[p] EXCEPT !.state = "void"] \in Proposal
    BY <2>2, OpenIsProposal, ClosingType DEF OpenAbout, Closed
  <2>3. proposal' \in [Id -> Proposal \union {Unused}]
    BY <1>4, <2>2 DEF TypeOK, Resign, SeatCanBeSpared
  <2> QED BY <1>4, <2>1, <2>3 DEF TypeOK, Resign, SeatCanBeSpared
<1>5. ASSUME NEW u \in User, HoldEnds(u) PROVE TypeOK'
  BY <1>5 DEF TypeOK, HoldEnds, Standing
<1>6. ASSUME NEW p \in Id, NEW kind \in Kinds, NEW i \in User, NEW s \in User,
             OpenProposal(p, kind, i, s)
      PROVE  TypeOK'
  <2>1. ASSUME NEW q \in Id, q \in OpenAbout(kind, s)
        PROVE  [proposal[q] EXCEPT !.state = "expired"] \in Proposal
    BY <2>1, OpenIsProposal, ClosingType DEF OpenAbout, Closed
  <2>2. proposal' \in [Id -> Proposal \union {Unused}]
    BY <1>6, <2>1, NewProposalType DEF TypeOK, OpenProposal
  <2> QED BY <1>6, <2>2 DEF TypeOK, OpenProposal
<1>7. ASSUME NEW p \in Id, NEW i \in User, NEW b \in Cast, Vote(p, i, b) PROVE TypeOK'
  <2>1. [proposal[p] EXCEPT !.vote[i] = b] \in Proposal
    BY <1>7, OpenIsProposal DEF Vote, Proposal, Cast, Lapsed
  <2>2. Settle(p, [proposal[p] EXCEPT !.vote[i] = b])
    BY <1>7 DEF Vote, Lapsed
  <2> QED BY <1>7, <2>1, <2>2, SettleType DEF TypeOK, Vote, Lapsed
<1>8. ASSUME NEW p \in Id, NEW b \in Cast, TargetDecides(p, b) PROVE TypeOK'
  <2>1. [proposal[p] EXCEPT !.decision = b] \in Proposal
    BY <1>8, OpenIsProposal DEF TargetDecides, Proposal, Cast, Lapsed
  <2>2. Settle(p, [proposal[p] EXCEPT !.decision = b])
    BY <1>8 DEF TargetDecides, Lapsed
  <2> QED BY <1>8, <2>1, <2>2, SettleType DEF TypeOK, TargetDecides, Lapsed
<1>9. ASSUME NEW p \in Id, NEW i \in User, Cancel(p, i) PROVE TypeOK'
  <2>1. [proposal[p] EXCEPT !.state = "cancelled"] \in Proposal
    BY <1>9, OpenIsProposal, ClosingType DEF Cancel, Closed, Lapsed
  <2> QED BY <1>9, <2>1 DEF TypeOK, Cancel, Lapsed
<1>10. ASSUME NEW p \in Id, NEW i \in User, ExpireOnWrite(p, i) PROVE TypeOK'
  <2>1. [proposal[p] EXCEPT !.state = "expired"] \in Proposal
    BY <1>10, OpenIsProposal, ClosingType DEF ExpireOnWrite, Closed, Lapsed
  <2> QED BY <1>10, <2>1 DEF TypeOK, ExpireOnWrite, Lapsed
<1>11. ASSUME NEW i \in User, NEW t \in User, NEW r \in Role, SetRole(i, t, r) PROVE TypeOK'
  BY <1>11 DEF TypeOK, SetRole
<1>12. ASSUME NEW a \in User, NEW t \in User, HoldUser(a, t) PROVE TypeOK'
  BY <1>12 DEF TypeOK, HoldUser, Standing
<1>13. ASSUME NEW p \in Id, DeadlinePasses(p) PROVE TypeOK'
  <2>1. [proposal[p] EXCEPT !.due = TRUE] \in Proposal
    BY <1>13, OpenIsProposal DEF DeadlinePasses, Proposal
  <2> QED BY <1>13, <2>1 DEF TypeOK, DeadlinePasses
<1>14. CASE Restart
  BY <1>14 DEF TypeOK, Restart
<1>15. CASE UNCHANGED vars
  BY <1>15 DEF TypeOK, vars
<1> QED
  BY <1>1, <1>2, <1>3, <1>4, <1>5, <1>6, <1>7, <1>8, <1>9, <1>10, <1>11, <1>12,
     <1>13, <1>14, <1>15, NextIsStep DEF Steps

(***************************************************************************)
(* Every variable of the consilium stays within its type.                  *)
(***************************************************************************)
THEOREM TypeCorrect == Spec => []TypeOK
<1>1. Init => TypeOK
  BY DEF Init, TypeOK, Role, Standing
<1> QED BY <1>1, TypeStep, PTL DEF Spec

(***************************************************************************)
(* The register                                                            *)
(***************************************************************************)

(* The instance brings its own copy of the library's definition. *)
LEMMA SameCardinality == \A S : Register!Cardinality(S) = Cardinality(S)
  BY DEF Register!Cardinality, Cardinality

LEMMA OwnersType == Owners \subseteq User /\ IsFiniteSet(Owners)
  BY UsersFinite, FS_Subset DEF Owners

(* Writing role r to one account moves the register by at most that account. *)
LEMMA OwnersAfterWrite ==
  ASSUME TypeOK, NEW s \in User, NEW r \in Role, role' = [role EXCEPT ![s] = r]
  PROVE  Owners' = IF r = "owner" THEN Owners \union {s} ELSE Owners \ {s}
  BY DEF Owners, TypeOK

(* With the floor checked, taking a seat is the abstract roster's Unseat. *)
LEMMA FloorAllowsUnseat ==
  ASSUME NEW s \in Owners, Cardinality(Owners) - 1 >= MinOwners
  PROVE  Cardinality(Owners \ {s}) >= MinOwners
  BY OwnersType, FS_RemoveElement, FS_CardinalityType, FloorAssumption

LEMMA FloorAllowsRemoval ==
  ASSUME TypeOK, NEW s \in User, Cardinality(Owners) - 1 >= MinOwners,
         role' = [role EXCEPT ![s] = "investor"]
  PROVE  [Register!Next]_Owners
<1>1. Owners' = Owners \ {s}
  BY OwnersAfterWrite DEF Role
<1>2. CASE s \in Owners
  <2>1. Register!Unseat(s)
    BY <1>1, <1>2, FloorAllowsUnseat, SameCardinality DEF Register!Unseat
  <2> QED BY <2>1 DEF Register!Next
<1>3. CASE s \notin Owners
  BY <1>1, <1>3
<1> QED BY <1>2, <1>3

(* A verdict moves the register as the abstract roster allows, or not at all. *)
LEMMA SettleRoster ==
  ASSUME TypeOK, NEW p \in Id, NEW x \in Proposal, Settle(p, x)
  PROVE  [Register!Next]_Owners
<1>1. CASE StateAfterAnswer(x) # "executed"
  BY <1>1 DEF Settle, Owners
<1>2. CASE StateAfterAnswer(x) = "executed"
  <2>1. ~CannotBeCarried(x)
    BY <1>2 DEF StateAfterAnswer
  <2>2. x.subject \in User /\ x.kind \in SeatKinds \union UserKinds
    BY DEF Proposal
  <2>3. role' = [role EXCEPT ![x.subject] = RoleAfter(x)]
    BY <1>2 DEF Settle
  <2>4. CASE x.kind = "removal"
    <3>1. Cardinality(Owners) - 1 >= MinOwners
      BY <2>1, <2>4, OwnersType, FS_CardinalityType, FloorAssumption DEF CannotBeCarried, RemovalMoot, AdmissionMoot, SeatCanBeSpared
    <3>2. role' = [role EXCEPT ![x.subject] = "investor"]
      BY <2>3, <2>4 DEF RoleAfter
    <3> QED BY <3>1, <3>2, <2>2, FloorAllowsRemoval
  <2>5. CASE x.kind = "admission"
    <3>1. x.initiator \in Owners /\ x.subject \notin Owners
      BY <2>1, <2>5 DEF CannotBeCarried, RemovalMoot, AdmissionMoot, SeatCanBeSpared
    <3>2. Owners' = Owners \union {x.subject}
      BY <2>2, <2>3, <2>5, OwnersAfterWrite DEF RoleAfter, Role
    <3>3. Register!Seat(x.subject)
      BY <3>1, <3>2 DEF Register!Seat
    <3> QED BY <2>2, <3>3 DEF Register!Next
  <2>6. CASE x.kind = "admin_admission"
    <3>1. role[x.subject] = "investor"
      BY <2>1, <2>6 DEF CannotBeCarried, Inapplicable, RemovalMoot, AdmissionMoot, SeatCanBeSpared
    <3>2. Owners' = Owners \ {x.subject}
      BY <2>2, <2>3, <2>6, OwnersAfterWrite DEF RoleAfter, Role
    <3> QED BY <3>1, <3>2 DEF Owners
  <2>7. CASE x.kind \in {"suspension", "reinstatement"}
    <3>1. role' = role
      BY <2>2, <2>3, <2>7 DEF RoleAfter, TypeOK
    <3> QED BY <3>1 DEF Owners
  <2> QED BY <2>2, <2>4, <2>5, <2>6, <2>7 DEF SeatKinds, UserKinds
<1> QED BY <1>1, <1>2

LEMMA RosterStep == TypeOK /\ [Next]_vars => [Register!Next]_Owners
<1> SUFFICES ASSUME TypeOK, [Next]_vars PROVE [Register!Next]_Owners
  OBVIOUS
<1>1. ASSUME NEW S \in SUBSET User, SeedOwners(S) PROVE [Register!Next]_Owners
  <2>1. Owners' = S
    BY <1>1 DEF SeedOwners, Owners, TypeOK
  <2>2. Register!Found(S)
    BY <1>1, <2>1, SameCardinality DEF SeedOwners, Register!Found
  <2> QED BY <2>2 DEF Register!Next
<1>2. CASE UNCHANGED role
  BY <1>2 DEF Owners
<1>3. ASSUME NEW i \in User, Resign(i) PROVE [Register!Next]_Owners
  BY <1>3, FloorAllowsRemoval DEF Resign, SeatCanBeSpared
<1>4. ASSUME NEW p \in Id, NEW i \in User, NEW b \in Cast, Vote(p, i, b)
      PROVE  [Register!Next]_Owners
  <2>1. [proposal[p] EXCEPT !.vote[i] = b] \in Proposal
    BY <1>4, OpenIsProposal DEF Vote, Proposal, Cast, Lapsed
  <2>2. Settle(p, [proposal[p] EXCEPT !.vote[i] = b])
    BY <1>4 DEF Vote, Lapsed
  <2> QED BY <2>1, <2>2, SettleRoster
<1>5. ASSUME NEW p \in Id, NEW b \in Cast, TargetDecides(p, b)
      PROVE  [Register!Next]_Owners
  <2>1. [proposal[p] EXCEPT !.decision = b] \in Proposal
    BY <1>5, OpenIsProposal DEF TargetDecides, Proposal, Cast, Lapsed
  <2>2. Settle(p, [proposal[p] EXCEPT !.decision = b])
    BY <1>5 DEF TargetDecides, Lapsed
  <2> QED BY <2>1, <2>2, SettleRoster
<1>6. ASSUME NEW i \in User, NEW t \in User, NEW r \in Role, SetRole(i, t, r)
      PROVE  [Register!Next]_Owners
  <2>1. Owners' = IF r = "owner" THEN Owners \union {t} ELSE Owners \ {t}
    BY <1>6, OwnersAfterWrite DEF SetRole
  <2>2. (t \in Owners) = (r = "owner")
    BY <1>6 DEF SetRole, Owners
  <2> QED BY <2>1, <2>2
<1> QED
  BY <1>1, <1>2, <1>3, <1>4, <1>5, <1>6, NextIsStep
  DEF Steps, vars, PassGate, RequestFails, HoldEnds, OpenProposal, Cancel,
      ExpireOnWrite, HoldUser, DeadlinePasses, Restart

(***************************************************************************)
(* Every change of the register, by whatever path, is one the abstract     *)
(* roster allows: seeded once, then one seat at a time above the floor.    *)
(***************************************************************************)
THEOREM RegisterIsARoster == Spec => RegisterSpec
<1>1. Init => Register!Init
  BY DEF Init, Owners, Register!Init
<1> QED BY <1>1, RosterStep, TypeCorrect, PTL DEF Spec, RegisterSpec, Register!Spec

LEMMA RosterKeepsFloor ==
  ASSUME RosterFloor, [Register!Next]_Owners
  PROVE  RosterFloor' /\ (Owners # {} => Owners' # {})
<1>1. ASSUME NEW S \in SUBSET User, Register!Found(S)
      PROVE  RosterFloor' /\ (Owners # {} => Owners' # {})
  BY <1>1, SameCardinality DEF Register!Found, RosterFloor
<1>2. ASSUME NEW u \in User, Register!Seat(u)
      PROVE  RosterFloor' /\ (Owners # {} => Owners' # {})
  <2>1. Cardinality(Owners \union {u}) = Cardinality(Owners) + 1
    BY <1>2, OwnersType, FS_AddElement DEF Register!Seat
  <2>2. Cardinality(Owners') >= MinOwners
    BY <1>2, <2>1, OwnersType, FS_CardinalityType, FloorAssumption
    DEF Register!Seat, RosterFloor
  <2> QED BY <1>2, <2>2 DEF Register!Seat, RosterFloor
<1>3. ASSUME NEW u \in User, Register!Unseat(u)
      PROVE  RosterFloor' /\ (Owners # {} => Owners' # {})
  <2>1. Cardinality(Owners') >= MinOwners
    BY <1>3, SameCardinality DEF Register!Unseat
  <2>2. Owners' # {}
    BY <2>1, FS_EmptySet, FloorAssumption
  <2> QED BY <2>1, <2>2 DEF RosterFloor
<1>4. CASE UNCHANGED Owners
  BY <1>4 DEF RosterFloor
<1> QED BY <1>1, <1>2, <1>3, <1>4 DEF Register!Next

(***************************************************************************)
(* The register never holds fewer owners than the floor once it is seeded. *)
(***************************************************************************)
THEOREM FloorHolds == Spec => []RosterFloor
<1>1. Init => RosterFloor
  BY DEF Init, RosterFloor, Owners
<1>2. TypeOK /\ RosterFloor /\ [Next]_vars => RosterFloor'
  BY RosterStep, RosterKeepsFloor
<1> QED BY <1>1, <1>2, TypeCorrect, PTL DEF Spec

(***************************************************************************)
(* A sealed process never faces an empty register, so emergency access,    *)
(* once it saw an owner, stays closed for good.                            *)
(***************************************************************************)
THEOREM SealIsSound == Spec => []SealedOnlyWithOwners
<1>1. Init => SealedOnlyWithOwners
  BY DEF Init, SealedOnlyWithOwners
<1>2. TypeOK /\ RosterFloor /\ SealedOnlyWithOwners /\ [Next]_vars => SealedOnlyWithOwners'
  <2> SUFFICES ASSUME TypeOK, RosterFloor, SealedOnlyWithOwners, [Next]_vars, sealed'
               PROVE  Owners' # {}
    BY DEF SealedOnlyWithOwners
  <2>1. Owners # {} => Owners' # {}
    BY RosterStep, RosterKeepsFloor
  <2>2. CASE \E u \in User : PassGate(u)
    <3>1. sealed \/ Owners # {}
      BY <2>2 DEF PassGate
    <3> QED BY <2>1, <3>1 DEF SealedOnlyWithOwners
  <2>3. CASE ~\E u \in User : PassGate(u)
    <3>1. sealed' = sealed \/ sealed' = FALSE
      BY <2>3, NextIsStep DEF Steps, vars, SeedOwners, RequestFails, Resign, SeatCanBeSpared, HoldEnds, OpenProposal,
         Vote, TargetDecides, Cancel, ExpireOnWrite, SetRole, HoldUser, DeadlinePasses, Restart
    <3> QED BY <2>1, <3>1 DEF SealedOnlyWithOwners
  <2> QED BY <2>2, <2>3
<1> QED BY <1>1, <1>2, TypeCorrect, FloorHolds, PTL DEF Spec

(***************************************************************************)
(* Answers                                                                 *)
(***************************************************************************)

(* The two kinds of answer, with what the handlers checked before settling. *)
Answer(p, x) ==
  /\ proposal[p].state = "open"
  /\ ~proposal[p].due
  /\ \/ \E i \in proposal[p].peers, b \in Cast :
          /\ proposal[p].vote[i] \in {"pending", b}
          /\ x = [proposal[p] EXCEPT !.vote[i] = b]
     \/ \E b \in Cast :
          /\ proposal[p].kind = "removal"
          /\ proposal[p].decision = "pending"
          /\ x = [proposal[p] EXCEPT !.decision = b]
  /\ Settle(p, x)

(* The writes that close a proposal whatever its ballots say. *)
Closing == {"expired", "void", "cancelled"}

LEMMA AnswerType ==
  ASSUME TypeOK, NEW p \in Id, NEW x, Answer(p, x)
  PROVE  /\ proposal[p] \in Proposal
         /\ x \in Proposal
         /\ x.kind = proposal[p].kind
         /\ x.subject = proposal[p].subject
         /\ x.initiator = proposal[p].initiator
         /\ x.peers = proposal[p].peers
         /\ x.due = FALSE
         /\ x.peers \subseteq User /\ IsFiniteSet(x.peers)
<1>1. proposal[p] \in Proposal
  BY OpenIsProposal DEF Answer
<1>2. x \in Proposal
  BY <1>1 DEF Answer, Proposal, Cast
<1>3. x.peers \subseteq User /\ IsFiniteSet(x.peers)
  BY <1>2, UsersFinite, FS_Subset DEF Proposal
<1> QED BY <1>1, <1>2, <1>3 DEF Answer, Proposal

(* What an answer leaves behind. *)
LEMMA AnswerEffect ==
  ASSUME TypeOK, NEW p \in Id, NEW x, Answer(p, x)
  PROVE  /\ proposal' = [proposal EXCEPT ![p] = [x EXCEPT !.state = StateAfterAnswer(x)]]
         /\ proposal'[p].state = StateAfterAnswer(x)
         /\ proposal'[p].kind = x.kind
         /\ proposal'[p].subject = x.subject
         /\ proposal'[p].initiator = x.initiator
         /\ proposal'[p].peers = x.peers
         /\ proposal'[p].vote = x.vote
         /\ proposal'[p].decision = x.decision
         /\ \A q \in Id \ {p} : proposal'[q] = proposal[q]
<1>1. x \in Proposal
  BY AnswerType
<1>2. proposal' = [proposal EXCEPT ![p] = [x EXCEPT !.state = StateAfterAnswer(x)]]
  BY DEF Answer, Settle
<1> QED BY <1>1, <1>2 DEF TypeOK, Proposal

LEMMA VoteIsAnswer ==
  ASSUME NEW p \in Id, NEW i \in User, NEW b \in Cast, Vote(p, i, b)
  PROVE  \E x : Answer(p, x)
<1>1. Answer(p, [proposal[p] EXCEPT !.vote[i] = b])
  BY DEF Vote, Answer, Lapsed
<1> QED BY <1>1

LEMMA DecisionIsAnswer ==
  ASSUME NEW p \in Id, NEW b \in Cast, TargetDecides(p, b)
  PROVE  \E x : Answer(p, x)
<1>1. Answer(p, [proposal[p] EXCEPT !.decision = b])
  BY DEF TargetDecides, Answer, Lapsed
<1> QED BY <1>1

(* A proposal opens, is answered, is closed, falls due, or is not touched. *)
Moves(p) ==
  \/ proposal'[p] = proposal[p]
  \/ \E kind \in Kinds, i, s \in User : OpenProposal(p, kind, i, s)
  \/ \E x : Answer(p, x)
  \/ /\ proposal[p].state = "open"
     /\ \E st \in Closing : proposal'[p] = [proposal[p] EXCEPT !.state = st]
  \/ /\ proposal[p].state = "open"
     /\ proposal'[p] = [proposal[p] EXCEPT !.due = TRUE]

LEMMA ProposalSteps ==
  ASSUME TypeOK, [Next]_vars, NEW p \in Id
  PROVE  Moves(p)
<1>1. CASE UNCHANGED proposal
  BY <1>1 DEF Moves
<1>2. ASSUME NEW q \in Id, NEW kind \in Kinds, NEW i \in User, NEW s \in User,
             OpenProposal(q, kind, i, s)
      PROVE  Moves(p)
  <2>1. CASE q = p
    BY <1>2, <2>1 DEF Moves
  <2>2. CASE q # p
    BY <1>2, <2>2 DEF OpenProposal, OpenAbout, Closing, Moves
  <2> QED BY <2>1, <2>2
<1>3. ASSUME NEW q \in Id, NEW x, Answer(q, x) PROVE Moves(p)
  BY <1>3, AnswerEffect DEF Moves
<1>4. ASSUME NEW q \in Id, NEW i \in User, Cancel(q, i) \/ ExpireOnWrite(q, i) PROVE Moves(p)
  BY <1>4 DEF Cancel, ExpireOnWrite, Closing, TypeOK, Moves, Lapsed
<1>5. ASSUME NEW i \in User, Resign(i) PROVE Moves(p)
  BY <1>5 DEF Resign, SeatCanBeSpared, OpenAbout, Closing, Moves
<1>6. ASSUME NEW q \in Id, DeadlinePasses(q) PROVE Moves(p)
  BY <1>6 DEF DeadlinePasses, TypeOK, Moves
<1>7. ASSUME NEW q \in Id, NEW i \in User, NEW b \in Cast, Vote(q, i, b) PROVE Moves(p)
  BY <1>3, <1>7, VoteIsAnswer
<1>8. ASSUME NEW q \in Id, NEW b \in Cast, TargetDecides(q, b) PROVE Moves(p)
  BY <1>3, <1>8, DecisionIsAnswer
<1>9. CASE UNCHANGED vars \/ Restart
  BY <1>1, <1>9 DEF vars, Restart
<1>10. ASSUME NEW u \in User, PassGate(u) \/ RequestFails(u) \/ HoldEnds(u) PROVE Moves(p)
  BY <1>1, <1>10 DEF PassGate, RequestFails, HoldEnds
<1>11. ASSUME NEW S \in SUBSET User, SeedOwners(S) PROVE Moves(p)
  BY <1>1, <1>11 DEF SeedOwners
<1>12. ASSUME NEW i \in User, NEW t \in User, NEW r \in Role, SetRole(i, t, r) PROVE Moves(p)
  BY <1>1, <1>12 DEF SetRole
<1>13. ASSUME NEW a \in User, NEW t \in User, HoldUser(a, t) PROVE Moves(p)
  BY <1>1, <1>13 DEF HoldUser
<1> QED
  BY <1>2, <1>4, <1>5, <1>6, <1>7, <1>8, <1>9, <1>10, <1>11, <1>12, <1>13,
     NextIsStep DEF Steps

(* Only an answer executes, and only one that passed and can be carried. *)
LEMMA ExecutionIsAnswer ==
  ASSUME TypeOK, [Next]_vars, NEW p \in Id, Executes(p)
  PROVE  \E x : Answer(p, x) /\ StateAfterAnswer(x) = "executed"
<1>1. ~(\E kind \in Kinds, i, s \in User : OpenProposal(p, kind, i, s))
  BY DEF OpenProposal, Executes, Unused
<1>2. ASSUME NEW st \in Closing, proposal'[p] = [proposal[p] EXCEPT !.state = st] PROVE FALSE
  BY <1>2, OpenIsProposal DEF Executes, Closing, Proposal
<1>3. proposal'[p] # [proposal[p] EXCEPT !.due = TRUE]
  BY OpenIsProposal DEF Executes, Proposal
<1>4. PICK x : Answer(p, x)
  BY <1>1, <1>2, <1>3, ProposalSteps DEF Executes, Moves
<1> QED BY <1>4, AnswerEffect DEF Executes

(* What an answer that executes its proposal was checked against. *)
LEMMA ExecutedPassed ==
  ASSUME NEW x, StateAfterAnswer(x) = "executed"
  PROVE  /\ Tally(x, x.peers) = "passes"
         /\ Tally(x, x.peers \intersect Owners) = "passes" 
         /\ ~CannotBeCarried(x)
<1>1. Tally(x, x.peers) \in {"passes", "fails", "pending"}
  BY DEF Tally, RemovalOutcome, Unanimity, Majority
<1> QED BY <1>1 DEF StateAfterAnswer, PassesNow

(***************************************************************************)
(* Counting                                                                *)
(***************************************************************************)
LEMMA BarBounds == \A n \in Nat \ {0} : NeededVotes(n) \in 1 .. n
  BY DEF NeededVotes

LEMMA AnsweredCount ==
  ASSUME NEW S, IsFiniteSet(S), NEW v, NEW b
  PROVE  /\ IsFiniteSet(Answered(S, v, b))
         /\ Cardinality(Answered(S, v, b)) \in Nat
         /\ Cardinality(Answered(S, v, b)) = 0 <=> Answered(S, v, b) = {}
<1>1. IsFiniteSet(Answered(S, v, b))
  BY FS_Subset DEF Answered
<1> QED BY <1>1, FS_CardinalityType, FS_EmptySet

LEMMA UnanimityNeedsAll ==
  ASSUME NEW S, NEW v, Unanimity(S, v) = "passes"
  PROVE  S # {} /\ Answered(S, v, "for") = S /\ Answered(S, v, "against") = {}
  BY DEF Unanimity

LEMMA MajorityNeedsOne ==
  ASSUME NEW S, IsFiniteSet(S), NEW v, Majority(S, v) = "passes"
  PROVE  /\ Answered(S, v, "for") # {}
         /\ Cardinality(Answered(S, v, "for")) >= NeededVotes(Cardinality(S))
<1>1. S # {} /\ Cardinality(Answered(S, v, "for")) >= NeededVotes(Cardinality(S))
  BY DEF Majority
<1>2. Cardinality(S) \in Nat \ {0}
  BY <1>1, FS_CardinalityType, FS_EmptySet
<1>3. Cardinality(Answered(S, v, "for")) > 0
  BY <1>1, <1>2, BarBounds, AnsweredCount
<1> QED BY <1>1, <1>3, AnsweredCount

(* Whatever passes has a supporter, or the target's consent. *)
LEMMA PassingHasSupport ==
  ASSUME NEW x \in Proposal, NEW S, IsFiniteSet(S), Tally(x, S) = "passes"
  PROVE  \/ x.kind = "removal" /\ x.decision = "for"
         \/ Answered(S, x.vote, "for") # {}
<1>1. CASE x.kind = "removal"
  BY <1>1, UnanimityNeedsAll DEF Tally, RemovalOutcome
<1>2. CASE x.kind = "admission"
  BY <1>2, UnanimityNeedsAll DEF Tally
<1>3. CASE x.kind \in UserKinds
  BY <1>3, MajorityNeedsOne DEF Tally, UserKinds
<1> QED BY <1>1, <1>2, <1>3 DEF Proposal, SeatKinds

(***************************************************************************)
(* The invariant behind the verdicts                                       *)
(***************************************************************************)

(* Whoever opens a proposal is not asked about it. *)
InitiatorIsNoPeer ==
  \A p \in Id : proposal[p] # Unused => proposal[p].initiator \notin proposal[p].peers

(* Proposals exist only once the register was seeded. *)
BornOfOwners == (\E p \in Id : proposal[p] # Unused) => Owners # {}

LEMMA InitiatorStep == TypeOK /\ InitiatorIsNoPeer /\ [Next]_vars => InitiatorIsNoPeer'
<1> SUFFICES ASSUME TypeOK, InitiatorIsNoPeer, [Next]_vars, NEW p \in Id, proposal'[p] # Unused
             PROVE  proposal'[p].initiator \notin proposal'[p].peers
  BY DEF InitiatorIsNoPeer
<1>1. CASE proposal'[p] = proposal[p]
  BY <1>1 DEF InitiatorIsNoPeer
<1>2. ASSUME NEW kind \in Kinds, NEW i \in User, NEW s \in User, OpenProposal(p, kind, i, s)
      PROVE  proposal'[p].initiator \notin proposal'[p].peers
  BY <1>2 DEF OpenProposal, NewProposal, PeersOf
<1>3. ASSUME NEW x, Answer(p, x) PROVE proposal'[p].initiator \notin proposal'[p].peers
  <2>1. proposal[p] # Unused
    BY <1>3 DEF Answer, Unused
  <2>2. x.initiator = proposal[p].initiator /\ x.peers = proposal[p].peers
    BY <1>3, AnswerType
  <2>3. proposal'[p].initiator = x.initiator /\ proposal'[p].peers = x.peers
    BY <1>3, AnswerEffect
  <2> QED BY <2>1, <2>2, <2>3 DEF InitiatorIsNoPeer
<1>4. ASSUME proposal[p].state = "open", NEW st \in Closing,
             proposal'[p] = [proposal[p] EXCEPT !.state = st]
      PROVE  proposal'[p].initiator \notin proposal'[p].peers
  BY <1>4, OpenIsProposal DEF InitiatorIsNoPeer, Proposal, Unused
<1>5. ASSUME proposal[p].state = "open", proposal'[p] = [proposal[p] EXCEPT !.due = TRUE]
      PROVE  proposal'[p].initiator \notin proposal'[p].peers
  BY <1>5, OpenIsProposal DEF InitiatorIsNoPeer, Proposal, Unused
<1> QED BY <1>1, <1>2, <1>3, <1>4, <1>5, ProposalSteps DEF Moves

LEMMA BornStep == TypeOK /\ RosterFloor /\ BornOfOwners /\ [Next]_vars => BornOfOwners'
<1> SUFFICES ASSUME TypeOK, RosterFloor, BornOfOwners, [Next]_vars, NEW p \in Id, proposal'[p] # Unused
             PROVE  Owners' # {}
  BY DEF BornOfOwners
<1>1. Owners # {} => Owners' # {}
  BY RosterStep, RosterKeepsFloor
<1>2. CASE proposal[p] # Unused
  BY <1>1, <1>2 DEF BornOfOwners
<1>3. CASE proposal[p] = Unused
  <2>1. \E kind \in Kinds, i, s \in User : OpenProposal(p, kind, i, s)
    BY <1>3, ProposalSteps DEF Moves, Answer, Unused
  <2> QED BY <1>1, <2>1 DEF OpenProposal, MayOpen, MayOpenRemoval, MayOpenAdmission, MayOpenUserProposal, SeatCanBeSpared
<1> QED BY <1>2, <1>3

(* A new proposal is decided by nobody. *)
LEMMA NewIsUndecided ==
  ASSUME TypeOK, NEW kind \in Kinds, NEW i \in User, NEW s \in User, MayOpen(kind, i, s)
  PROVE  Tally(NewProposal(kind, i, s), NewProposal(kind, i, s).peers) = "pending"
<1> DEFINE x == NewProposal(kind, i, s)
           S == PeersOf(kind, i, s)
<1>1. S \subseteq User /\ IsFiniteSet(S)
  BY UsersFinite, FS_Subset DEF PeersOf, Owners
<1>2. /\ Answered(S, x.vote, "for") = {}
      /\ Answered(S, x.vote, "against") = {}
  BY <1>1 DEF NewProposal, Answered
<1>3. x.kind = kind /\ x.peers = S /\ x.decision = "pending"
  BY DEF NewProposal
<1>4. kind # "removal" => S # {}
  BY DEF MayOpen, MayOpenRemoval, MayOpenAdmission, MayOpenUserProposal, SeatCanBeSpared
<1> SUFFICES Tally(x, S) = "pending"
  BY <1>3
<1> HIDE DEF x, S
<1>5. CASE kind = "removal"
  BY <1>2, <1>3, <1>5 DEF Tally, RemovalOutcome, Unanimity
<1>6. CASE kind = "admission"
  BY <1>2, <1>3, <1>4, <1>6 DEF Tally, Unanimity
<1>7. CASE kind \in UserKinds
  <2>1. Cardinality(S) \in Nat \ {0}
    BY <1>1, <1>4, <1>7, FS_CardinalityType, FS_EmptySet DEF UserKinds
  <2>2. NeededVotes(Cardinality(S)) \in 1 .. Cardinality(S)
    BY <2>1, BarBounds
  <2>3. Cardinality({}) = 0
    BY FS_EmptySet
  <2>4. Majority(S, x.vote) = "pending"
    BY <1>2, <1>4, <1>7, <2>1, <2>2, <2>3 DEF Majority, UserKinds
  <2> QED BY <1>3, <1>7, <2>4 DEF Tally, UserKinds
<1>8. kind \in SeatKinds \union UserKinds
  BY KindsAssumption
<1> QED BY <1>5, <1>6, <1>7, <1>8 DEF SeatKinds

(* The count looks at the ballots, not at the state or the deadline. *)
LEMMA TallyLooksAtBallots ==
  ASSUME NEW x \in Proposal, NEW y \in Proposal, x.kind = y.kind, x.vote = y.vote,
         x.decision = y.decision, NEW S
  PROVE  Tally(x, S) = Tally(y, S)
  BY DEF Tally

LEMMA UndecidedStep == TypeOK /\ OpenIsUndecided /\ [Next]_vars => OpenIsUndecided'
<1> SUFFICES ASSUME TypeOK, OpenIsUndecided, [Next]_vars, NEW p \in Id, proposal'[p].state = "open"
             PROVE  Tally(proposal'[p], proposal'[p].peers) = "pending"
  BY DEF OpenIsUndecided, Tally, RemovalOutcome, Majority, Unanimity, Answered, NeededVotes
<1>1. CASE proposal'[p] = proposal[p]
  BY <1>1 DEF OpenIsUndecided
<1>2. ASSUME NEW kind \in Kinds, NEW i \in User, NEW s \in User, OpenProposal(p, kind, i, s)
      PROVE  Tally(proposal'[p], proposal'[p].peers) = "pending"
  BY <1>2, NewIsUndecided DEF OpenProposal
<1>3. ASSUME NEW x, Answer(p, x) PROVE Tally(proposal'[p], proposal'[p].peers) = "pending"
  <2>1. StateAfterAnswer(x) = "open" /\ x \in Proposal
    BY <1>3, AnswerType, AnswerEffect
  <2>2. Tally(x, x.peers) = "pending"
    BY <2>1 DEF StateAfterAnswer
  <2>3. [x EXCEPT !.state = "open"] \in Proposal
    BY <2>1, ClosingType
  <2>4. /\ proposal'[p].kind = x.kind /\ proposal'[p].vote = x.vote
        /\ proposal'[p].decision = x.decision /\ proposal'[p].peers = x.peers
        /\ proposal' = [proposal EXCEPT ![p] = [x EXCEPT !.state = "open"]]
    BY <1>3, <2>1, AnswerEffect
  <2>5. proposal'[p] \in Proposal
    BY <1>3, <2>3, <2>4, AnswerType DEF TypeOK
  <2>6. Tally(proposal'[p], x.peers) = Tally(x, x.peers)
    BY <2>1, <2>4, <2>5, TallyLooksAtBallots
  <2> QED BY <2>2, <2>4, <2>6
<1>4. ASSUME NEW st \in Closing, proposal'[p] = [proposal[p] EXCEPT !.state = st],
             proposal[p].state = "open"
      PROVE  FALSE
  BY <1>4, OpenIsProposal DEF Closing, Proposal
<1>5. ASSUME proposal[p].state = "open", proposal'[p] = [proposal[p] EXCEPT !.due = TRUE]
      PROVE  Tally(proposal'[p], proposal'[p].peers) = "pending"
  <2>1. proposal[p] \in Proposal /\ proposal'[p] \in Proposal
    BY <1>5, OpenIsProposal DEF Proposal
  <2>2. Tally(proposal[p], proposal[p].peers) = "pending"
    BY <1>5 DEF OpenIsUndecided
  <2>3. /\ proposal'[p].kind = proposal[p].kind
        /\ proposal'[p].vote = proposal[p].vote
        /\ proposal'[p].decision = proposal[p].decision
        /\ proposal'[p].peers = proposal[p].peers
    BY <1>5, <2>1 DEF Proposal
  <2> QED BY <2>1, <2>2, <2>3, TallyLooksAtBallots
<1> QED BY <1>1, <1>2, <1>3, <1>4, <1>5, ProposalSteps DEF Moves

(***************************************************************************)
(* How the register moves                                                  *)
(***************************************************************************)

(* The one answer that gives a seat and the one that takes it. *)
Carries(q, y, kind) == Answer(q, y) /\ StateAfterAnswer(y) = "executed" /\ y.kind = kind

LEMMA ExecutedAnswerMoves ==
  ASSUME TypeOK, NEW q \in Id, NEW y, Answer(q, y), Owners' # Owners
  PROVE  \/ Carries(q, y, "removal")   /\ Owners' = Owners \ {y.subject}
         \/ Carries(q, y, "admission") /\ Owners' = Owners \union {y.subject}
<1>1. y \in Proposal /\ y.subject \in User /\ y.kind \in SeatKinds \union UserKinds
  BY AnswerType DEF Proposal
<1>2. StateAfterAnswer(y) = "executed"
  BY DEF Answer, Settle, Owners
<1>3. role' = [role EXCEPT ![y.subject] = RoleAfter(y)]
  BY <1>2 DEF Answer, Settle
<1>4. CASE y.kind = "removal"
  <2>1. role' = [role EXCEPT ![y.subject] = "investor"]
    BY <1>3, <1>4 DEF RoleAfter
  <2>2. Owners' = Owners \ {y.subject}
    BY <1>1, <2>1, OwnersAfterWrite DEF Role
  <2> QED BY <1>2, <1>4, <2>2 DEF Carries
<1>5. CASE y.kind = "admission"
  <2>1. role' = [role EXCEPT ![y.subject] = "owner"]
    BY <1>3, <1>5 DEF RoleAfter
  <2>2. Owners' = Owners \union {y.subject}
    BY <1>1, <2>1, OwnersAfterWrite DEF Role
  <2> QED BY <1>2, <1>5, <2>2 DEF Carries
<1>6. CASE y.kind = "admin_admission"
  <2>1. role[y.subject] = "investor"
    BY <1>2, <1>6, ExecutedPassed DEF CannotBeCarried, Inapplicable, RemovalMoot, AdmissionMoot, SeatCanBeSpared
  <2>2. role' = [role EXCEPT ![y.subject] = "admin"]
    BY <1>3, <1>6 DEF RoleAfter
  <2>3. Owners' = Owners \ {y.subject}
    BY <1>1, <2>2, OwnersAfterWrite DEF Role
  <2> QED BY <2>1, <2>3 DEF Owners
<1>7. CASE y.kind \in {"suspension", "reinstatement"}
  <2>1. role' = role
    BY <1>1, <1>3, <1>7 DEF RoleAfter, TypeOK
  <2> QED BY <2>1 DEF Owners
<1> QED BY <1>1, <1>4, <1>5, <1>6, <1>7 DEF SeatKinds, UserKinds

LEMMA RegisterMoves ==
  ASSUME TypeOK, [Next]_vars, Owners' # Owners
  PROVE  \/ Owners = {}
         \/ \E i \in User : Resign(i) /\ Owners' = Owners \ {i}
         \/ \E q \in Id : \E y : Carries(q, y, "removal") /\ Owners' = Owners \ {y.subject}
         \/ \E q \in Id : \E y : Carries(q, y, "admission") /\ Owners' = Owners \union {y.subject}
<1>1. CASE \E S \in SUBSET User : SeedOwners(S)
  BY <1>1 DEF SeedOwners
<1>2. ASSUME NEW i \in User, Resign(i) PROVE Owners' = Owners \ {i}
  BY <1>2, OwnersAfterWrite DEF Resign, SeatCanBeSpared, Role
<1>3. ASSUME NEW i \in User, NEW t \in User, NEW r \in Role, SetRole(i, t, r) PROVE FALSE
  <2>1. Owners' = IF r = "owner" THEN Owners \union {t} ELSE Owners \ {t}
    BY <1>3, OwnersAfterWrite DEF SetRole
  <2>2. (t \in Owners) = (r = "owner")
    BY <1>3 DEF SetRole, Owners
  <2> QED BY <2>1, <2>2
<1>4. ~UNCHANGED role
  BY DEF Owners
<1>5. CASE \E q \in Id : \E y : Answer(q, y)
  BY <1>5, ExecutedAnswerMoves
<1>6. CASE \E p \in Id, i \in User, b \in Cast : Vote(p, i, b)
  BY <1>5, <1>6, VoteIsAnswer
<1>7. CASE \E p \in Id, b \in Cast : TargetDecides(p, b)
  BY <1>5, <1>7, DecisionIsAnswer
<1> QED
  BY <1>1, <1>2, <1>3, <1>4, <1>6, <1>7, NextIsStep
  DEF Steps, vars, PassGate, RequestFails, HoldEnds, OpenProposal, Cancel,
      ExpireOnWrite, HoldUser, DeadlinePasses, Restart

(* What is open after a step was open before it, or is new. *)
LEMMA OpenWasOpen ==
  ASSUME TypeOK, [Next]_vars, NEW p \in Id, proposal'[p].state = "open"
  PROVE  \/ /\ proposal[p].state = "open"
            /\ proposal'[p].kind = proposal[p].kind
            /\ proposal'[p].subject = proposal[p].subject
         \/ \E kind \in Kinds, i, s \in User : OpenProposal(p, kind, i, s)
<1>1. ASSUME NEW x, Answer(p, x)
      PROVE  /\ proposal[p].state = "open"
             /\ proposal'[p].kind = proposal[p].kind
             /\ proposal'[p].subject = proposal[p].subject
  <2>1. proposal[p].state = "open"
    BY <1>1 DEF Answer
  <2>2. x.kind = proposal[p].kind /\ x.subject = proposal[p].subject
    BY <1>1, AnswerType
  <2>3. proposal'[p].kind = x.kind /\ proposal'[p].subject = x.subject
    BY <1>1, AnswerEffect
  <2> QED BY <2>1, <2>2, <2>3
<1>2. ASSUME proposal[p].state = "open", NEW st \in Closing,
             proposal'[p] = [proposal[p] EXCEPT !.state = st]
      PROVE  FALSE
  BY <1>2, OpenIsProposal DEF Closing, Proposal
<1>3. ASSUME proposal[p].state = "open", proposal'[p] = [proposal[p] EXCEPT !.due = TRUE]
      PROVE  /\ proposal'[p].kind = proposal[p].kind
             /\ proposal'[p].subject = proposal[p].subject
  BY <1>3, OpenIsProposal DEF Proposal
<1> QED BY <1>1, <1>2, <1>3, ProposalSteps DEF Moves

LEMMA OneOpenStep ==
  ASSUME TypeOK, OpenConsiliumIsLive, [Next]_vars,
         NEW p \in Id, proposal'[p].state = "open",
         NEW q \in Id, proposal'[q].state = "open",
         proposal'[q].kind = proposal'[p].kind,
         proposal'[q].subject = proposal'[p].subject
  PROVE  q = p
<1>1. ASSUME NEW r \in Id, NEW t \in Id, NEW kind \in Kinds, NEW i \in User, NEW s \in User,
             OpenProposal(r, kind, i, s), r # t, proposal'[t].state = "open",
             proposal'[t].kind = proposal'[r].kind, proposal'[t].subject = proposal'[r].subject
      PROVE  FALSE
  <2>1. proposal'[r].kind = kind /\ proposal'[r].subject = s
    BY <1>1 DEF OpenProposal, NewProposal
  <2>2. t \notin OpenAbout(kind, s)
    BY <1>1, OpenIsProposal DEF OpenProposal, OpenAbout, Proposal
  <2>3. proposal'[t] = proposal[t]
    BY <1>1, <2>2 DEF OpenProposal
  <2> QED BY <1>1, <2>1, <2>2, <2>3 DEF OpenAbout
<1>2. CASE \E kind \in Kinds, i, s \in User : OpenProposal(p, kind, i, s)
  BY <1>1, <1>2
<1>3. CASE \E kind \in Kinds, i, s \in User : OpenProposal(q, kind, i, s)
  BY <1>1, <1>3
<1>4. CASE /\ proposal[p].state = "open" /\ proposal[q].state = "open"
           /\ proposal[q].kind = proposal[p].kind
           /\ proposal[q].subject = proposal[p].subject
  BY <1>4 DEF OpenConsiliumIsLive, OpenAbout
<1> QED BY <1>2, <1>3, <1>4, OpenWasOpen

LEMMA LiveStep ==
  TypeOK /\ RosterFloor /\ BornOfOwners /\ OpenConsiliumIsLive /\ [Next]_vars => OpenConsiliumIsLive'
<1> SUFFICES ASSUME TypeOK, RosterFloor, BornOfOwners, OpenConsiliumIsLive, [Next]_vars,
                    NEW p \in Id, proposal'[p].state = "open"
             PROVE  /\ proposal'[p].kind = "removal"   => proposal'[p].subject \in Owners'
                    /\ proposal'[p].kind = "admission" => proposal'[p].subject \notin Owners'
                    /\ OpenAbout(proposal[p].kind, proposal[p].subject)' = {p}
  BY DEF OpenConsiliumIsLive, OpenAbout
<1>1. OpenAbout(proposal[p].kind, proposal[p].subject)' = {p}
  BY OneOpenStep DEF OpenAbout
<1>2. CASE \E kind \in Kinds, i, s \in User : OpenProposal(p, kind, i, s)
  BY <1>1, <1>2 DEF OpenProposal, MayOpen, MayOpenRemoval, MayOpenAdmission, MayOpenUserProposal, SeatCanBeSpared, NewProposal, Owners
<1>3. CASE /\ proposal[p].state = "open"
           /\ proposal'[p].kind = proposal[p].kind
           /\ proposal'[p].subject = proposal[p].subject
  <2>1. /\ proposal[p].kind = "removal"   => proposal[p].subject \in Owners
        /\ proposal[p].kind = "admission" => proposal[p].subject \notin Owners
        /\ OpenAbout(proposal[p].kind, proposal[p].subject) = {p}
    BY <1>3 DEF OpenConsiliumIsLive
  <2>2. Owners # {}
    BY <1>3 DEF BornOfOwners, Unused
  <2>3. CASE Owners' = Owners
    BY <1>1, <1>3, <2>1, <2>3
  <2>4. ASSUME NEW i \in User, Resign(i), Owners' = Owners \ {i}
        PROVE  /\ proposal[p].kind = "removal"   => proposal[p].subject \in Owners'
               /\ proposal[p].kind = "admission" => proposal[p].subject \notin Owners'
    <3>1. p \notin OpenAbout("removal", i)
      BY <2>4, OpenIsProposal DEF Resign, SeatCanBeSpared, OpenAbout, Proposal
    <3> QED BY <1>3, <2>1, <2>4, <3>1 DEF OpenAbout
  <2>5. ASSUME NEW q \in Id, NEW y, NEW kind, Carries(q, y, kind)
        PROVE  ~(proposal[p].kind = kind /\ proposal[p].subject = y.subject)
    <3>1. proposal'[q].state = "executed" /\ q # p
      BY <2>5, AnswerEffect DEF Carries
    <3>2. y.kind = proposal[q].kind /\ y.subject = proposal[q].subject /\ proposal[q].state = "open"
      BY <2>5, AnswerType DEF Carries, Answer
    <3> QED BY <1>3, <2>1, <2>5, <3>1, <3>2 DEF OpenAbout, Carries
  <2>6. /\ proposal[p].kind = "removal"   => proposal[p].subject \in Owners'
        /\ proposal[p].kind = "admission" => proposal[p].subject \notin Owners'
    BY <2>1, <2>2, <2>3, <2>4, <2>5, RegisterMoves
  <2> QED BY <1>1, <1>3, <2>6
<1> QED BY <1>2, <1>3, OpenWasOpen

(***************************************************************************)
(* The inductive invariant: the types, the floor, and what is true of      *)
(* every proposal from its opening to its verdict.                         *)
(***************************************************************************)
IInv ==
  /\ TypeOK
  /\ RosterFloor
  /\ BornOfOwners
  /\ InitiatorIsNoPeer
  /\ OpenIsUndecided
  /\ OpenConsiliumIsLive

THEOREM Invariance == Spec => []IInv
<1>1. Init => IInv
  <2>1. Init => TypeOK /\ RosterFloor
    BY DEF Init, TypeOK, Role, Standing, RosterFloor, Owners
  <2>2. Init => BornOfOwners /\ InitiatorIsNoPeer
    BY DEF Init, BornOfOwners, InitiatorIsNoPeer
  <2>3. Init => OpenIsUndecided /\ OpenConsiliumIsLive
    BY DEF Init, OpenIsUndecided, OpenConsiliumIsLive, Unused
  <2> QED BY <2>1, <2>2, <2>3 DEF IInv
<1>2. IInv /\ [Next]_vars => IInv'
  BY TypeStep, RosterStep, RosterKeepsFloor, BornStep, InitiatorStep, UndecidedStep, LiveStep
  DEF IInv
<1> QED BY <1>1, <1>2, PTL DEF Spec

(***************************************************************************)
(* Open proposals stay about something, and at most one of a kind is open  *)
(* about one account.                                                      *)
(***************************************************************************)
THEOREM OpenProposalsAreLive == Spec => []OpenConsiliumIsLive
<1>1. IInv => OpenConsiliumIsLive
  BY DEF IInv
<1> QED BY <1>1, Invariance, PTL

(***************************************************************************)
(* The verdicts                                                            *)
(***************************************************************************)

(* Of those asked to be unanimous nobody refused, if the proposal executes. *)
LEMMA NobodyRefused ==
  ASSUME TypeOK, OpenIsUndecided, NEW p \in Id, NEW x, Answer(p, x),
         StateAfterAnswer(x) = "executed", x.kind \in SeatKinds
  PROVE  Answered(x.peers, x.vote, "against") = {}
<1>1. Tally(x, x.peers) = "passes"
  BY ExecutedPassed
<1>2. CASE x.kind = "admission"
  BY <1>1, <1>2, UnanimityNeedsAll DEF Tally
<1>3. CASE x.kind = "removal"
  <2>1. proposal[p] \in Proposal /\ proposal[p].kind = "removal" /\ x.peers = proposal[p].peers
    BY <1>3, AnswerType
  <2>2. RemovalOutcome(proposal[p].decision, proposal[p].peers, proposal[p].vote) = "pending"
    BY <2>1 DEF Answer, OpenIsUndecided, Tally
  <2>3. /\ proposal[p].decision # "for"
        /\ Answered(proposal[p].peers, proposal[p].vote, "against") = {}
    BY <2>2 DEF RemovalOutcome
  <2>4. CASE x.vote = proposal[p].vote
    BY <2>1, <2>3, <2>4
  <2>5. CASE x.vote # proposal[p].vote
    <3>1. x.decision = proposal[p].decision
      BY <2>1, <2>5 DEF Answer, Proposal
    <3> QED BY <1>1, <1>3, <2>3, <3>1 DEF Tally, RemovalOutcome
  <2> QED BY <2>4, <2>5
<1> QED BY <1>2, <1>3 DEF SeatKinds

(***************************************************************************)
(* No proposal executes late, for an initiator who lost the seat, on the   *)
(* initiator's word alone, or over the refusal of one who was asked to be  *)
(* unanimous.                                                              *)
(***************************************************************************)
THEOREM NobodyAlone == Spec => [][NobodyActsAlone]_vars
<1>1. IInv /\ [Next]_vars =>
        \A p \in Id : Executes(p) =>
          LET x == proposal'[p]
          IN  /\ ~proposal[p].due
              /\ x.initiator \in Owners
              /\ \/ Supporters(x) \intersect (Owners \ {x.initiator}) # {}
                 \/ x.kind = "removal" /\ x.decision = "for"
              /\ x.kind \in SeatKinds => Answered(x.peers, x.vote, "against") = {}
  <2> SUFFICES ASSUME IInv, [Next]_vars, NEW p \in Id, Executes(p)
               PROVE  /\ ~proposal[p].due
                      /\ proposal'[p].initiator \in Owners
                      /\ \/ Supporters(proposal'[p]) \intersect (Owners \ {proposal'[p].initiator}) # {}
                         \/ proposal'[p].kind = "removal" /\ proposal'[p].decision = "for"
                      /\ proposal'[p].kind \in SeatKinds =>
                           Answered(proposal'[p].peers, proposal'[p].vote, "against") = {}
    OBVIOUS
  <2>1. TypeOK /\ OpenIsUndecided /\ InitiatorIsNoPeer
    BY DEF IInv
  <2>2. PICK x : Answer(p, x) /\ StateAfterAnswer(x) = "executed"
    BY <2>1, ExecutionIsAnswer
  <2>3. /\ proposal'[p].kind = x.kind
        /\ proposal'[p].initiator = x.initiator
        /\ proposal'[p].peers = x.peers
        /\ proposal'[p].vote = x.vote
        /\ proposal'[p].decision = x.decision
    BY <2>1, <2>2, AnswerEffect
  <2>4. ~proposal[p].due /\ x.initiator \in Owners
    BY <2>2, ExecutedPassed DEF Answer, CannotBeCarried, RemovalMoot, AdmissionMoot, SeatCanBeSpared
  <2>5. x \in Proposal /\ IsFiniteSet(x.peers \intersect Owners)
    BY <2>1, <2>2, AnswerType, FS_Subset
  <2>6. x.initiator \notin x.peers
    <3>1. proposal[p] # Unused
      BY <2>2 DEF Answer, Unused
    <3>2. x.initiator = proposal[p].initiator /\ x.peers = proposal[p].peers
      BY <2>1, <2>2, AnswerType
    <3> QED BY <2>1, <3>1, <3>2 DEF InitiatorIsNoPeer
  <2>7. \/ x.kind = "removal" /\ x.decision = "for"
        \/ Answered(x.peers \intersect Owners, x.vote, "for") # {}
    BY <2>2, <2>5, ExecutedPassed, PassingHasSupport
  <2>8. Answered(x.peers \intersect Owners, x.vote, "for") # {} =>
          Answered(x.peers, x.vote, "for") \intersect (Owners \ {x.initiator}) # {}
    BY <2>6 DEF Answered
  <2>9. x.kind \in SeatKinds => Answered(x.peers, x.vote, "against") = {}
    BY <2>1, <2>2, NobodyRefused
  <2> QED BY <2>3, <2>4, <2>7, <2>8, <2>9 DEF Supporters
<1> QED BY <1>1, Invariance, PTL DEF Spec, NobodyActsAlone

(***************************************************************************)
(* After the founding a seat is only ever given by an admission to which   *)
(* every peer asked when it opened agreed.                                 *)
(***************************************************************************)
THEOREM SeatsAreGranted == Spec => [][SeatGrantedByPeers]_vars
<1>1. IInv /\ [Next]_vars =>
        \A u \in User :
          (Owners # {} /\ role[u] # "owner" /\ role'[u] = "owner") =>
            \E p \in Id : /\ Executes(p)
                          /\ proposal'[p].kind = "admission"
                          /\ proposal'[p].subject = u
                          /\ Supporters(proposal'[p]) = proposal'[p].peers
  <2> SUFFICES ASSUME IInv, [Next]_vars, NEW u \in User,
                      Owners # {}, role[u] # "owner", role'[u] = "owner"
               PROVE  \E p \in Id : /\ Executes(p)
                                    /\ proposal'[p].kind = "admission"
                                    /\ proposal'[p].subject = u
                                    /\ Supporters(proposal'[p]) = proposal'[p].peers
    OBVIOUS
  <2>1. TypeOK
    BY DEF IInv
  <2>2. u \notin Owners /\ u \in Owners'
    BY DEF Owners
  <2>3. PICK p \in Id : \E y : Carries(p, y, "admission") /\ Owners' = Owners \union {y.subject}
    BY <2>1, <2>2, RegisterMoves
  <2>4. PICK y : Carries(p, y, "admission") /\ Owners' = Owners \union {y.subject}
    BY <2>3
  <2>5. y.subject = u
    BY <2>2, <2>4
  <2>6. Answered(y.peers, y.vote, "for") = y.peers
    BY <2>4, ExecutedPassed, UnanimityNeedsAll DEF Carries, Tally
  <2>7. Executes(p)
    BY <2>1, <2>4, AnswerEffect DEF Carries, Executes, Answer
  <2>8. /\ proposal'[p].kind = y.kind
        /\ proposal'[p].subject = y.subject
        /\ proposal'[p].peers = y.peers
        /\ proposal'[p].vote = y.vote
    BY <2>1, <2>4, AnswerEffect DEF Carries
  <2> QED BY <2>4, <2>5, <2>6, <2>7, <2>8 DEF Carries, Supporters
<1> QED BY <1>1, Invariance, PTL DEF Spec, SeatGrantedByPeers

(***************************************************************************)
(* A seat is lost by resignation, by consent, or to every peer.            *)
(***************************************************************************)
THEOREM SeatsAreSafe == Spec => [][SeatTakenLawfully]_vars
<1>1. IInv /\ [Next]_vars =>
        \A u \in User :
          (role[u] = "owner" /\ role'[u] # "owner") =>
            \/ u \in gate /\ u \notin gate' /\ \A p \in Id : ~Executes(p)
            \/ \E p \in Id :
                 /\ Executes(p)
                 /\ proposal'[p].kind = "removal"
                 /\ proposal'[p].subject = u
                 /\ \/ proposal'[p].decision = "for"
                    \/ Supporters(proposal'[p]) = proposal'[p].peers
  <2> SUFFICES ASSUME IInv, [Next]_vars, NEW u \in User, role[u] = "owner", role'[u] # "owner"
               PROVE  \/ u \in gate /\ u \notin gate' /\ \A p \in Id : ~Executes(p)
                      \/ \E p \in Id :
                           /\ Executes(p)
                           /\ proposal'[p].kind = "removal"
                           /\ proposal'[p].subject = u
                           /\ \/ proposal'[p].decision = "for"
                              \/ Supporters(proposal'[p]) = proposal'[p].peers
    OBVIOUS
  <2>1. TypeOK
    BY DEF IInv
  <2>2. u \in Owners /\ u \notin Owners'
    BY DEF Owners
  <2>3. ASSUME NEW i \in User, Resign(i), Owners' = Owners \ {i}
        PROVE  u \in gate /\ u \notin gate' /\ \A p \in Id : ~Executes(p)
    <3>1. u = i
      BY <2>2, <2>3
    <3>2. ASSUME NEW p \in Id, Executes(p) PROVE FALSE
      <4>1. proposal[p] \in Proposal
        BY <2>1, <3>2, OpenIsProposal DEF Executes
      <4>2. proposal'[p] = proposal[p] \/ proposal'[p] = [proposal[p] EXCEPT !.state = "void"]
        BY <2>3 DEF Resign, SeatCanBeSpared
      <4> QED BY <3>2, <4>1, <4>2 DEF Executes, Proposal
    <3> QED BY <2>3, <3>1, <3>2 DEF Resign, SeatCanBeSpared
  <2>4. ASSUME NEW p \in Id, NEW y, Carries(p, y, "removal"), Owners' = Owners \ {y.subject}
        PROVE  /\ Executes(p)
               /\ proposal'[p].kind = "removal"
               /\ proposal'[p].subject = u
               /\ \/ proposal'[p].decision = "for"
                  \/ Supporters(proposal'[p]) = proposal'[p].peers
    <3>1. y.subject = u
      BY <2>2, <2>4
    <3>2. y.decision = "for" \/ Answered(y.peers, y.vote, "for") = y.peers
      BY <2>4, ExecutedPassed, UnanimityNeedsAll DEF Carries, Tally, RemovalOutcome
    <3>3. Executes(p)
      BY <2>1, <2>4, AnswerEffect DEF Carries, Executes, Answer
    <3>4. /\ proposal'[p].kind = y.kind
          /\ proposal'[p].subject = y.subject
          /\ proposal'[p].peers = y.peers
          /\ proposal'[p].vote = y.vote
          /\ proposal'[p].decision = y.decision
      BY <2>1, <2>4, AnswerEffect DEF Carries
    <3> QED BY <2>4, <3>1, <3>2, <3>3, <3>4 DEF Carries, Supporters
  <2>5. \/ \E i \in User : Resign(i) /\ Owners' = Owners \ {i}
        \/ \E p \in Id : \E y : Carries(p, y, "removal") /\ Owners' = Owners \ {y.subject}
    BY <2>1, <2>2, RegisterMoves
  <2> QED BY <2>3, <2>4, <2>5
<1> QED BY <1>1, Invariance, PTL DEF Spec, SeatTakenLawfully

(***************************************************************************)
(* Both doors of the register (open_admission, resign, settle).            *)
(***************************************************************************)
THEOREM RegisterHasTwoDoors == Spec => SeatsMoveLawfully
  BY SeatsAreGranted, SeatsAreSafe, PTL DEF SeatsMoveLawfully

(* A step leaves a lapsed proposal alone, stamps it, or voids it with its seat. *)
LEMMA LapsedStep ==
  ASSUME TypeOK, [Next]_vars, NEW p \in Id, Lapsed(p)
  PROVE  \E st \in {"open", "expired", "void"} : proposal'[p] = [proposal[p] EXCEPT !.state = st]
<1> DEFINE Stays == \E st \in {"open", "expired", "void"} :
                      proposal'[p] = [proposal[p] EXCEPT !.state = st]
<1>1. proposal[p] \in Proposal /\ proposal[p].state = "open"
  BY OpenIsProposal DEF Lapsed
<1>2. ASSUME proposal'[p] = proposal[p] PROVE Stays
  <2>1. proposal[p] = [proposal[p] EXCEPT !.state = "open"]
    BY <1>1 DEF Proposal
  <2> QED BY <1>2, <2>1
<1>3. ASSUME NEW q \in Id, NEW kind \in Kinds, NEW i \in User, NEW s \in User,
             OpenProposal(q, kind, i, s)
      PROVE  Stays
  <2>1. q # p
    BY <1>1, <1>3 DEF OpenProposal, Unused
  <2>2. proposal'[p] = proposal[p] \/ proposal'[p] = [proposal[p] EXCEPT !.state = "expired"]
    BY <1>3, <2>1 DEF OpenProposal
  <2> QED BY <1>2, <2>2
<1>4. ASSUME NEW q \in Id, NEW i \in User, NEW b \in Cast, Vote(q, i, b) PROVE Stays
  BY <1>2, <1>4 DEF Vote, Settle, Lapsed
<1>5. ASSUME NEW q \in Id, NEW b \in Cast, TargetDecides(q, b) PROVE Stays
  BY <1>2, <1>5 DEF TargetDecides, Settle, Lapsed
<1>6. ASSUME NEW q \in Id, NEW i \in User, Cancel(q, i) \/ ExpireOnWrite(q, i) PROVE Stays
  <2>1. CASE q # p
    BY <1>2, <1>6, <2>1 DEF Cancel, ExpireOnWrite, TypeOK, Lapsed
  <2>2. CASE q = p
    BY <1>1, <1>6, <2>2 DEF Cancel, ExpireOnWrite, Lapsed, TypeOK
  <2> QED BY <2>1, <2>2
<1>7. ASSUME NEW i \in User, Resign(i) PROVE Stays
  BY <1>2, <1>7 DEF Resign
<1>8. ASSUME NEW q \in Id, DeadlinePasses(q) PROVE Stays
  BY <1>2, <1>8 DEF DeadlinePasses, Lapsed
<1>9. CASE UNCHANGED proposal
  BY <1>2, <1>9
<1> QED
  BY <1>3, <1>4, <1>5, <1>6, <1>7, <1>8, <1>9, NextIsStep
  DEF Steps, vars, SeedOwners, PassGate, RequestFails, HoldEnds, SetRole, HoldUser, Restart

(***************************************************************************)
(* Only Open accepts transitions, a ballot once cast stays cast, and what  *)
(* is shown as expired is never carried.                                   *)
(***************************************************************************)
THEOREM ClosedStaysClosed == Spec => DecisionsAreFinal
<1>1. IInv /\ [Next]_vars =>
        \A p \in Id :
          /\ proposal[p].state \in Closed => proposal'[p] = proposal[p]
          /\ proposal[p].state = "open" =>
               /\ \A u \in User : proposal[p].vote[u] \in Cast => proposal'[p].vote[u] = proposal[p].vote[u]
               /\ proposal[p].decision \in Cast => proposal'[p].decision = proposal[p].decision
          /\ Shown(p) = "expired" =>
               \E st \in {"open", "expired", "void"} : proposal'[p] = [proposal[p] EXCEPT !.state = st]
  <2> SUFFICES ASSUME IInv, [Next]_vars, NEW p \in Id
               PROVE  /\ proposal[p].state \in Closed => proposal'[p] = proposal[p]
                      /\ proposal[p].state = "open" =>
                           /\ \A u \in User : proposal[p].vote[u] \in Cast =>
                                                proposal'[p].vote[u] = proposal[p].vote[u]
                           /\ proposal[p].decision \in Cast => proposal'[p].decision = proposal[p].decision
                      /\ Shown(p) = "expired" =>
                           \E st \in {"open", "expired", "void"} :
                             proposal'[p] = [proposal[p] EXCEPT !.state = st]
    OBVIOUS
  <2>1. TypeOK
    BY DEF IInv
  <2>2. ASSUME proposal[p].state \in Closed PROVE proposal'[p] = proposal[p]
    <3>1. proposal[p].state # "open" /\ proposal[p] # Unused
      BY <2>2 DEF Closed, Unused
    <3>2. ~(\E x : Answer(p, x)) /\ ~(\E kind \in Kinds, i, s \in User : OpenProposal(p, kind, i, s))
      BY <3>1 DEF Answer, OpenProposal
    <3> QED BY <2>1, <3>1, <3>2, ProposalSteps DEF Moves
  <2>3. ASSUME proposal[p].state = "open"
        PROVE  /\ \A u \in User : proposal[p].vote[u] \in Cast =>
                                    proposal'[p].vote[u] = proposal[p].vote[u]
               /\ proposal[p].decision \in Cast => proposal'[p].decision = proposal[p].decision
    <3>1. proposal[p] \in Proposal
      BY <2>1, <2>3, OpenIsProposal
    <3>2. ASSUME NEW x, Answer(p, x)
          PROVE  /\ \A u \in User : proposal[p].vote[u] \in Cast =>
                                      proposal'[p].vote[u] = proposal[p].vote[u]
                 /\ proposal[p].decision \in Cast => proposal'[p].decision = proposal[p].decision
      <4>1. proposal'[p].vote = x.vote /\ proposal'[p].decision = x.decision
        BY <2>1, <3>2, AnswerEffect
      <4>2. /\ \A u \in User : proposal[p].vote[u] \in Cast => x.vote[u] = proposal[p].vote[u]
            /\ proposal[p].decision \in Cast => x.decision = proposal[p].decision
        BY <3>1, <3>2 DEF Answer, Proposal, Cast
      <4> QED BY <4>1, <4>2
    <3>3. ~(\E kind \in Kinds, i, s \in User : OpenProposal(p, kind, i, s))
      BY <2>3 DEF OpenProposal, Unused
    <3>4. ASSUME NEW st \in Closing, proposal'[p] = [proposal[p] EXCEPT !.state = st]
          PROVE  proposal'[p].vote = proposal[p].vote /\ proposal'[p].decision = proposal[p].decision
      BY <3>1, <3>4 DEF Proposal
    <3>5. ASSUME proposal'[p] = [proposal[p] EXCEPT !.due = TRUE]
          PROVE  proposal'[p].vote = proposal[p].vote /\ proposal'[p].decision = proposal[p].decision
      BY <3>1, <3>5 DEF Proposal
    <3> QED BY <2>1, <3>2, <3>3, <3>4, <3>5, ProposalSteps DEF Moves
  <2>4. ASSUME Shown(p) = "expired"
        PROVE  \E st \in {"open", "expired", "void"} :
                 proposal'[p] = [proposal[p] EXCEPT !.state = st]
    <3>1. CASE Lapsed(p)
      BY <2>1, <3>1, LapsedStep
    <3>2. CASE ~Lapsed(p)
      <4>1. proposal[p].state = "expired" /\ proposal[p] # Unused
        BY <2>4, <3>2 DEF Shown, Unused
      <4>2. proposal[p] \in Proposal
        BY <2>1, <4>1 DEF TypeOK
      <4>3. proposal[p] = [proposal[p] EXCEPT !.state = "expired"]
        BY <4>1, <4>2 DEF Proposal
      <4> QED BY <2>2, <4>1, <4>3 DEF Closed
    <3> QED BY <3>1, <3>2
  <2> QED BY <2>2, <2>3, <2>4
<1> QED BY <1>1, Invariance, PTL DEF Spec, DecisionsAreFinal

(***************************************************************************)
(* Admin rights, and the owners' suspension or its end, come only from a   *)
(* proposal that reached the majority frozen on it when it opened.         *)
(***************************************************************************)
LEMMA VerdictByAnswer ==
  ASSUME TypeOK, NEW p \in Id, NEW x, Answer(p, x), NEW u \in User
  PROVE  /\ (role[u] # "admin" /\ role'[u] = "admin") => ExecutesAbout("admin_admission", u)
         /\ (standing[u] # "suspended" /\ standing'[u] = "suspended") => ExecutesAbout("suspension", u)
         /\ (standing[u] = "suspended" /\ standing'[u] # "suspended") => ExecutesAbout("reinstatement", u)
<1>1. /\ proposal'[p].state = StateAfterAnswer(x)
      /\ proposal'[p].kind = x.kind
      /\ proposal'[p].subject = x.subject
  BY AnswerEffect
<1>2. CASE StateAfterAnswer(x) # "executed"
  BY <1>2 DEF Answer, Settle
<1>3. CASE StateAfterAnswer(x) = "executed"
  <2>1. Executes(p)
    BY <1>1, <1>3 DEF Executes, Answer
  <2>2. ASSUME NEW kind, x.kind = kind, x.subject = u PROVE ExecutesAbout(kind, u)
    BY <1>1, <2>1, <2>2 DEF ExecutesAbout
  <2>3. /\ role' = [role EXCEPT ![x.subject] = RoleAfter(x)]
        /\ standing' = [standing EXCEPT ![x.subject] = StandingAfter(x)]
    BY <1>3 DEF Answer, Settle
  <2>4. (role[u] # "admin" /\ role'[u] = "admin") => x.subject = u /\ x.kind = "admin_admission"
    BY <2>3 DEF TypeOK, RoleAfter
  <2>5. (standing[u] # "suspended" /\ standing'[u] = "suspended") => x.subject = u /\ x.kind = "suspension"
    BY <2>3 DEF TypeOK, StandingAfter
  <2>6. (standing[u] = "suspended" /\ standing'[u] # "suspended") => x.subject = u /\ x.kind = "reinstatement"
    BY <2>3 DEF TypeOK, StandingAfter
  <2> QED BY <2>2, <2>4, <2>5, <2>6
<1> QED BY <1>2, <1>3

THEOREM VerdictsNeedMajority == Spec => [][UserVerdictsNeedTheBar]_vars
<1>1. IInv /\ [Next]_vars =>
        /\ \A u \in User :
             /\ (role[u] # "admin" /\ role'[u] = "admin") => ExecutesAbout("admin_admission", u)
             /\ (standing[u] # "suspended" /\ standing'[u] = "suspended") => ExecutesAbout("suspension", u)
             /\ (standing[u] = "suspended" /\ standing'[u] # "suspended") => ExecutesAbout("reinstatement", u)
        /\ \A p \in Id :
             (Executes(p) /\ proposal'[p].kind \in UserKinds) =>
                Cardinality(Supporters(proposal'[p])) >= NeededVotes(Cardinality(proposal'[p].peers))
  <2> SUFFICES ASSUME IInv, [Next]_vars
               PROVE  /\ \A u \in User :
                           /\ (role[u] # "admin" /\ role'[u] = "admin") => ExecutesAbout("admin_admission", u)
                           /\ (standing[u] # "suspended" /\ standing'[u] = "suspended") => ExecutesAbout("suspension", u)
                           /\ (standing[u] = "suspended" /\ standing'[u] # "suspended") => ExecutesAbout("reinstatement", u)
                      /\ \A p \in Id :
                           (Executes(p) /\ proposal'[p].kind \in UserKinds) =>
                              Cardinality(Supporters(proposal'[p])) >= NeededVotes(Cardinality(proposal'[p].peers))
    OBVIOUS
  <2>1. TypeOK
    BY DEF IInv
  <2>2. ASSUME NEW u \in User, ~(\E p \in Id : \E x : Answer(p, x))
        PROVE  /\ ~(role[u] # "admin" /\ role'[u] = "admin")
               /\ ~(standing[u] # "suspended" /\ standing'[u] = "suspended")
               /\ ~(standing[u] = "suspended" /\ standing'[u] # "suspended")
    <3>1. CASE UNCHANGED <<role, standing>>
      BY <3>1
    <3>2. ASSUME NEW S \in SUBSET User, SeedOwners(S)
          PROVE  UNCHANGED standing /\ role'[u] \in {role[u], "owner"}
      BY <3>2 DEF SeedOwners
    <3>3. ASSUME NEW i \in User, Resign(i)
          PROVE  UNCHANGED standing /\ role'[u] \in {role[u], "investor"}
      BY <2>1, <3>3 DEF Resign, SeatCanBeSpared, TypeOK
    <3>4. ASSUME NEW i \in User, NEW t \in User, NEW r \in Role, SetRole(i, t, r)
          PROVE  UNCHANGED standing /\ (role'[u] = "admin" => role[u] = "admin")
      BY <2>1, <3>4 DEF SetRole, TypeOK
    <3>5. ASSUME NEW t \in User, HoldEnds(t) \/ \E a \in User : HoldUser(a, t)
          PROVE  UNCHANGED role /\ (standing'[u] = "suspended" <=> standing[u] = "suspended")
      BY <2>1, <3>5 DEF HoldEnds, HoldUser, TypeOK
    <3>6. ~(\E p \in Id, i \in User, b \in Cast : Vote(p, i, b))
      BY <2>2, VoteIsAnswer
    <3>7. ~(\E p \in Id, b \in Cast : TargetDecides(p, b))
      BY <2>2, DecisionIsAnswer
    <3>8. UNCHANGED vars \/ Restart => UNCHANGED <<role, standing>>
      BY DEF vars, Restart
    <3>9. (\E v \in User : PassGate(v) \/ RequestFails(v)) => UNCHANGED <<role, standing>>
      BY DEF PassGate, RequestFails
    <3>10. (\E p \in Id, kind \in Kinds, i, s \in User : OpenProposal(p, kind, i, s))
             => UNCHANGED <<role, standing>>
      BY DEF OpenProposal
    <3>11. (\E p \in Id, i \in User : Cancel(p, i) \/ ExpireOnWrite(p, i))
             => UNCHANGED <<role, standing>>
      BY DEF Cancel, ExpireOnWrite, Lapsed
    <3>12. (\E p \in Id : DeadlinePasses(p)) => UNCHANGED <<role, standing>>
      BY DEF DeadlinePasses
    <3>13. \/ UNCHANGED <<role, standing>>
           \/ \E S \in SUBSET User : SeedOwners(S)
           \/ \E i \in User : Resign(i)
           \/ \E i, t \in User, r \in Role : SetRole(i, t, r)
           \/ \E t \in User : HoldEnds(t) \/ \E a \in User : HoldUser(a, t)
      BY <3>6, <3>7, <3>8, <3>9, <3>10, <3>11, <3>12, NextIsStep DEF Steps
    <3> QED BY <3>1, <3>2, <3>3, <3>4, <3>5, <3>13
  <2>3. ASSUME NEW u \in User
        PROVE  /\ (role[u] # "admin" /\ role'[u] = "admin") => ExecutesAbout("admin_admission", u)
               /\ (standing[u] # "suspended" /\ standing'[u] = "suspended") => ExecutesAbout("suspension", u)
               /\ (standing[u] = "suspended" /\ standing'[u] # "suspended") => ExecutesAbout("reinstatement", u)
    BY <2>1, <2>2, VerdictByAnswer
  <2>4. ASSUME NEW p \in Id, Executes(p), proposal'[p].kind \in UserKinds
        PROVE  Cardinality(Supporters(proposal'[p])) >= NeededVotes(Cardinality(proposal'[p].peers))
    <3>1. PICK x : Answer(p, x) /\ StateAfterAnswer(x) = "executed"
      BY <2>1, <2>4, ExecutionIsAnswer
    <3>2. proposal'[p].kind = x.kind /\ proposal'[p].peers = x.peers /\ proposal'[p].vote = x.vote
      BY <2>1, <3>1, AnswerEffect
    <3>3. Majority(x.peers, x.vote) = "passes"
      BY <2>4, <3>1, <3>2, ExecutedPassed DEF Tally, UserKinds
    <3>4. IsFiniteSet(x.peers)
      BY <2>1, <3>1, AnswerType
    <3> QED BY <3>2, <3>3, <3>4, MajorityNeedsOne DEF Supporters
  <2> QED BY <2>3, <2>4
<1> QED BY <1>1, Invariance, PTL DEF Spec, UserVerdictsNeedTheBar

(***************************************************************************)
(* Both at once.                                                           *)
(***************************************************************************)
THEOREM ExecutionsBacked == Spec => ExecutionsAreBacked
<1>1. Spec => [][NobodyActsAlone]_vars
  BY NobodyAlone
<1>2. Spec => [][UserVerdictsNeedTheBar]_vars
  BY VerdictsNeedMajority
<1> QED BY <1>1, <1>2, PTL DEF ExecutionsAreBacked
(***************************************************************************)
(* The inductive invariant of the mail queue and its relay                 *)
(***************************************************************************)
Note == [key : DedupeKey, to : Recipient, kind : DOMAIN MailKind]
Tag == {Unkeyed, [key |-> "own"]} \union Note
Job == [state : {"pending", "sent", "failed"}, kind : Kind, attempts : Nat, due : BOOLEAN,
        payload : Payload, mail : Tag]
Address == [state : {"none", "unconfirmed", "confirmed"}, token : BOOLEAN, throttled : BOOLEAN]
Relayed ==
  [step : {"idle"}]
    \union [step : {"asked"}, to : Recipient, subject : Recipient, key : DedupeKey, mail : Mail]
    \union [step : {"admitted"}, to : Recipient, key : DedupeKey, mail : Mail, traced : BOOLEAN]
    \union [step : {"answering"}, to : Recipient, traced : BOOLEAN, entry : Note, new : BOOLEAN]

QueueTyped ==
  /\ queue \in [Row -> {Absent} \union Job]
  /\ mailbox \in Address
  /\ hand \in [Worker -> SUBSET [row : Row, renderable : BOOLEAN]]
  /\ request \in [Request -> Relayed]
  /\ lapses \in Nat /\ repeats \in Nat /\ mailed \subseteq Row

Present(r) == queue[r] # Absent

(* A row can be rendered until it is done, and holds no secret after. *)
RowsAreSound ==
  \A r \in Row : Present(r) =>
    /\ queue[r].payload # "unrenderable"
    /\ queue[r].state \in {"sent", "failed"} => queue[r].payload # "armed"

IsQueued(e) == \E r \in Row : Present(r) /\ queue[r].mail = e

(* Who is about to leave a trace has seen its mail in the queue. *)
TracesAreOfMails ==
  /\ \A e \in inbox : e # Key => IsQueued(e)
  /\ \A q \in Request : request[q].step = "answering" => IsQueued(request[q].entry)

(* A dispatcher holds jobs of rows there are, one of each. *)
JobsAreOfRows ==
  /\ \A w \in Worker : \A j, k \in hand[w] : Present(j.row) /\ (j.row = k.row => j = k)
  /\ \A r \in mailed : Present(r)

StoryInv == QueueTyped /\ RowsAreSound /\ EmitsAreIdempotent /\ TracesAreOfMails /\ JobsAreOfRows

(***************************************************************************)
(* How often a row may still be sent if nothing lapses: by each dispatcher *)
(* that holds it, and by the next one if it is due or waits for its turn.  *)
(* All but the first mail of a row are owed, and were paid for.            *)
(***************************************************************************)
Holding(r) == {w \in Worker : \E j \in hand[w] : j.row = r}
Ready(r) == Present(r) /\ queue[r].state = "pending" /\ (queue[r].due \/ Holding(r) = {})
Turns(r) == Cardinality(Holding(r)) + (IF Ready(r) THEN 1 ELSE 0)
Debt(r) == IF r \in mailed \/ Turns(r) = 0 THEN Turns(r) ELSE Turns(r) - 1
Debts == [r \in Row |-> Debt(r)]

(* One element for each unit of the debts D. *)
Units(D) == {x \in Row \X (Nat \ {0}) : x[2] <= D[x[1]]}

DebtsArePaid ==
  /\ \A r \in Row : IsFiniteSet(Holding(r))
  /\ IsFiniteSet(Units(Debts))
  /\ repeats + Cardinality(Units(Debts)) <= lapses

RelayInv == StoryInv /\ DebtsArePaid

(***************************************************************************)
(* What the relay lets through can be rendered                             *)
(***************************************************************************)
LEMMA AcceptedRender ==
  ASSUME NEW m \in Accepted
  PROVE  GovernanceMail(m) # "none" /\ m.kind \in DOMAIN MailKind
<1>1. DOMAIN MailKind = {"payout_approval", "payment_approval", "fee_policy_approval", "payout_outcome",
                         "payment_consent", "fee_policy_notice", "payment_outcome"}
  BY DEF MailKind
<1>2. CASE m \in [kind : DOMAIN MailKind \ {"payout_outcome", "payment_outcome"}, fields : {{}}]
  BY <1>1, <1>2 DEF GovernanceMail
<1>3. CASE m \in [kind : {"payout_outcome"}, fields : {f \in SUBSET OutcomeField : OutcomeAccepted(f)}]
  <2>1. PICK f \in SUBSET OutcomeField : m.fields = f /\ OutcomeAccepted(f) /\ m.kind = "payout_outcome"
    BY <1>3
  <2>2. CASE "mark" \in f
    <3>1. "mark" \in Described(f)
      BY <2>2 DEF Described
    <3>2. "fund" \in f
      BY <2>1, <3>1 DEF OutcomeAccepted
    <3> QED BY <1>1, <2>1, <2>2, <3>2 DEF GovernanceMail
  <2>3. CASE "mark" \notin f /\ f \intersect {"fund", "proposed"} # {}
    <3>1. "terms" \in Described(f)
      BY <2>3 DEF Described
    <3>2. {"fund", "proposed"} \subseteq f
      BY <2>1, <3>1 DEF OutcomeAccepted
    <3> QED BY <1>1, <2>1, <2>3, <3>2 DEF GovernanceMail
  <2>4. CASE "mark" \notin f /\ f \intersect {"fund", "proposed"} = {}
    BY <1>1, <2>1, <2>4 DEF GovernanceMail
  <2> QED BY <2>2, <2>3, <2>4
<1>4. CASE m \in [kind : {"payment_outcome"}, fields : {f \in SUBSET EndingField : ConsentEnding(f)}]
  BY <1>1, <1>4 DEF GovernanceMail, ConsentEnding
<1> QED BY <1>2, <1>3, <1>4 DEF Accepted

LEMMA MailsRender ==
  \A m \in Mail : m.payload \in {"armed", "plain"} /\ m.kind \in DOMAIN MailKind
BY AcceptedRender DEF Mail, MailPayload

(***************************************************************************)
(* The records of the queue                                                *)
(***************************************************************************)
LEMMA JobRecords ==
  /\ Absent \notin Job
  /\ \A j \in Job : /\ j.state \in {"pending", "sent", "failed"} /\ j.kind \in Kind /\ j.attempts \in Nat
                    /\ j.due \in BOOLEAN /\ j.payload \in Payload /\ j.mail \in Tag
  /\ \A kind \in Kind, payload \in Payload, mail \in Tag :
       LET j == Queued(kind, payload, mail)
       IN  /\ j \in Job /\ j.state = "pending" /\ j.kind = kind /\ j.due /\ j.payload = payload /\ j.mail = mail
<1>1. Absent \notin Job
  <2>1. Absent.state = "absent"
    BY DEF Absent
  <2> QED BY <2>1 DEF Job
<1> QED BY <1>1 DEF Job, Queued

LEMMA StepsOfRelay ==
  ASSUME NEW d \in Relayed
  PROVE  /\ d.step = "asked" => d.to \in Recipient /\ d.key \in DedupeKey /\ d.mail \in Mail
         /\ d.step = "admitted" => d.to \in Recipient /\ d.key \in DedupeKey /\ d.mail \in Mail /\ d.traced \in BOOLEAN
         /\ d.step = "answering" => d.entry \in Note /\ d.traced \in BOOLEAN
<1>1. \/ d.step = "idle"
      \/ d.step = "asked" /\ d.to \in Recipient /\ d.key \in DedupeKey /\ d.mail \in Mail
      \/ d.step = "admitted" /\ d.to \in Recipient /\ d.key \in DedupeKey /\ d.mail \in Mail /\ d.traced \in BOOLEAN
      \/ d.step = "answering" /\ d.entry \in Note /\ d.traced \in BOOLEAN
  BY DEF Relayed
<1> QED BY <1>1

(***************************************************************************)
(* Steps of the queue, row by row                                          *)
(***************************************************************************)

(* A row keeps its kind and its mail, and stays sound. *)
RowMoves(r) ==
  \/ queue'[r] = queue[r]
  \/ /\ Present(r) /\ queue'[r] \in Job
     /\ queue'[r].kind = queue[r].kind /\ queue'[r].mail = queue[r].mail
     /\ queue'[r].payload # "unrenderable"
     /\ queue'[r].state \in {"sent", "failed"} => queue'[r].payload # "armed"

QueueMoves == queue' \in [Row -> {Absent} \union Job] /\ \A r \in Row : RowMoves(r)

(* One row that was free is taken. *)
QueueGrows(kind, payload, mail) ==
  \E r \in Row : queue[r] = Absent /\ queue' = [queue EXCEPT ![r] = Queued(kind, payload, mail)]

LEMMA OneRowMoves ==
  ASSUME QueueTyped, RowsAreSound, NEW r \in Row, Present(r), NEW j \in Job,
         queue' = [queue EXCEPT ![r] = j], j.kind = queue[r].kind, j.mail = queue[r].mail,
         j.payload # "unrenderable", j.state \in {"sent", "failed"} => j.payload # "armed"
  PROVE  QueueMoves
BY DEF QueueMoves, RowMoves, QueueTyped

LEMMA MarkingMoves ==
  ASSUME QueueTyped, RowsAreSound, NEW r \in Row, Present(r), NEW max \in Nat
  PROVE  /\ queue' = MarkedSent(r) => QueueMoves /\ queue'[r].state = "sent"
         /\ queue' = MarkedFailed(r, max) =>
              QueueMoves /\ (queue'[r].state = "pending" => ~queue'[r].due) /\ queue'[r].state \in {"pending", "failed"}
         /\ queue' = [queue EXCEPT ![r].due = TRUE] => QueueMoves
         /\ \A s \in Row : s # r =>
              /\ MarkedSent(r)[s] = queue[s] /\ MarkedFailed(r, max)[s] = queue[s]
              /\ [queue EXCEPT ![r].due = TRUE][s] = queue[s]
<1>1. queue \in [Row -> {Absent} \union Job] /\ queue[r] \in Job
  BY DEF QueueTyped, Present
<1>2. PICK j \in Job : queue[r] = j
  BY <1>1
<1>3. j.payload # "unrenderable" /\ (j.state \in {"sent", "failed"} => j.payload # "armed")
  BY <1>2 DEF RowsAreSound
<1>4. ASSUME queue' = MarkedSent(r) PROVE QueueMoves /\ queue'[r].state = "sent"
  <2> DEFINE n == [j EXCEPT !.state = "sent", !.payload = "none"]
  <2>1. n \in Job /\ n.kind = j.kind /\ n.mail = j.mail /\ n.payload = "none" /\ n.state = "sent"
    BY DEF Job, Payload
  <2>2. queue' = [queue EXCEPT ![r] = n]
    BY <1>1, <1>2, <1>4 DEF MarkedSent
  <2> QED BY <1>1, <1>2, <2>1, <2>2, OneRowMoves
<1>5. ASSUME queue' = MarkedFailed(r, max)
      PROVE  QueueMoves /\ (queue'[r].state = "pending" => ~queue'[r].due) /\ queue'[r].state \in {"pending", "failed"}
  <2> DEFINE n == [j EXCEPT !.state = IF j.attempts >= max THEN "failed" ELSE "pending",
                            !.payload = IF j.attempts >= max /\ j.payload = "armed" THEN "redacted" ELSE j.payload,
                            !.due = FALSE]
  <2>1. /\ n \in Job /\ n.kind = j.kind /\ n.mail = j.mail /\ n.due = FALSE
        /\ n.state = (IF j.attempts >= max THEN "failed" ELSE "pending")
        /\ n.payload = (IF j.attempts >= max /\ j.payload = "armed" THEN "redacted" ELSE j.payload)
    BY DEF Job, Payload
  <2>2. queue' = [queue EXCEPT ![r] = n]
    BY <1>1, <1>2, <1>5 DEF MarkedFailed
  <2> HIDE DEF n
  <2>3. n.payload # "unrenderable" /\ (n.state \in {"sent", "failed"} => n.payload # "armed")
    BY <1>3, <2>1
  <2> QED BY <1>1, <1>2, <2>1, <2>2, <2>3, OneRowMoves
<1>6. ASSUME queue' = [queue EXCEPT ![r].due = TRUE] PROVE QueueMoves
  <2> DEFINE n == [j EXCEPT !.due = TRUE]
  <2>1. n \in Job /\ n.kind = j.kind /\ n.mail = j.mail /\ n.payload = j.payload /\ n.state = j.state
    BY DEF Job
  <2>2. queue' = [queue EXCEPT ![r] = n]
    BY <1>1, <1>2, <1>6
  <2> QED BY <1>1, <1>2, <1>3, <2>1, <2>2, OneRowMoves
<1>7. \A s \in Row : s # r =>
        /\ MarkedSent(r)[s] = queue[s] /\ MarkedFailed(r, max)[s] = queue[s]
        /\ [queue EXCEPT ![r].due = TRUE][s] = queue[s]
  BY <1>1 DEF MarkedSent, MarkedFailed
<1> QED BY <1>4, <1>5, <1>6, <1>7

(* Rows that move change nothing about what was queued for whom. *)
LEMMA MovingTellsTheSame ==
  ASSUME QueueTyped, RowsAreSound, EmitsAreIdempotent, QueueMoves, inbox \subseteq inbox'
  PROVE  /\ RowsAreSound' /\ EmitsAreIdempotent'
         /\ \A r \in Row : Present(r)' = Present(r)
         /\ \A e : IsQueued(e) => IsQueued(e)'
<1>1. ASSUME NEW r \in Row
      PROVE  /\ Present(r)' <=> Present(r)
             /\ Present(r) => queue'[r].kind = queue[r].kind /\ queue'[r].mail = queue[r].mail
             /\ Present(r)' => /\ queue'[r].payload # "unrenderable"
                               /\ queue'[r].state \in {"sent", "failed"} => queue'[r].payload # "armed"
  <2>1. RowMoves(r)
    BY DEF QueueMoves
  <2>2. CASE queue'[r] = queue[r]
    BY <2>2 DEF Present, RowsAreSound
  <2>3. CASE queue'[r] # queue[r]
    BY <2>1, <2>3, JobRecords DEF RowMoves, Present
  <2> QED BY <2>2, <2>3
<1>2. RowsAreSound'
  BY <1>1 DEF RowsAreSound
<1>3. EmitsAreIdempotent'
  <2>1. \A r \in Row : IsCopy(r)' => IsCopy(r)
    BY <1>1 DEF IsCopy, Present
  <2> QED BY <2>1 DEF EmitsAreIdempotent
<1>4. \A e : IsQueued(e) => IsQueued(e)'
  BY <1>1 DEF IsQueued
<1>5. \A r \in Row : Present(r)' = Present(r)
  <2> SUFFICES ASSUME NEW r \in Row PROVE Present(r)' = Present(r)
    OBVIOUS
  <2>1. Present(r)' <=> Present(r)
    BY <1>1
  <2>2. Present(r) \in BOOLEAN /\ Present(r)' \in BOOLEAN
    BY DEF Present
  <2> QED BY <2>1, <2>2
<1> QED BY <1>2, <1>3, <1>4, <1>5

(* A row that is queued adds its mail to the story. *)
LEMMA GrowingTellsMore ==
  ASSUME QueueTyped, RowsAreSound, EmitsAreIdempotent, inbox \subseteq inbox',
         NEW kind \in Kind, NEW payload \in Payload \ {"unrenderable"}, NEW mail \in Tag,
         QueueGrows(kind, payload, mail),
         kind = "notification" => Key \notin inbox /\ Key \in inbox'
  PROVE  /\ queue' \in [Row -> {Absent} \union Job]
         /\ RowsAreSound' /\ EmitsAreIdempotent'
         /\ \A r \in Row : Present(r) => Present(r)' /\ queue'[r] = queue[r]
         /\ \A e : IsQueued(e) => IsQueued(e)'
         /\ IsQueued(mail)'
<1>1. PICK n \in Row : queue[n] = Absent /\ queue' = [queue EXCEPT ![n] = Queued(kind, payload, mail)]
  BY DEF QueueGrows
<1>2. PICK j \in Job : /\ j = Queued(kind, payload, mail)
                       /\ j.state = "pending" /\ j.kind = kind /\ j.payload = payload /\ j.mail = mail
  BY JobRecords
<1>3. queue' \in [Row -> {Absent} \union Job] /\ queue'[n] = j /\ \A r \in Row : r # n => queue'[r] = queue[r]
  BY <1>1, <1>2 DEF QueueTyped
<1>4. Present(n)' /\ ~Present(n)
  BY <1>1, <1>2, <1>3, JobRecords DEF Present
<1>5. \A r \in Row : r # n => (Present(r)' <=> Present(r))
  BY <1>3 DEF Present
<1>6. RowsAreSound'
  BY <1>2, <1>3, <1>5 DEF RowsAreSound
<1>7. EmitsAreIdempotent'
  <2>1. \A r \in Row : r # n => (IsCopy(r)' <=> IsCopy(r))
    BY <1>3 DEF IsCopy
  <2>2. IsCopy(n)' => kind = "notification"
    BY <1>2, <1>3 DEF IsCopy
  <2>3. Key \notin inbox => \A r \in Row : ~IsCopy(r)
    BY DEF EmitsAreIdempotent
  <2> QED BY <2>1, <2>2, <2>3 DEF EmitsAreIdempotent
<1>8. \A r \in Row : Present(r) => Present(r)' /\ queue'[r] = queue[r]
  BY <1>3, <1>4, <1>5
<1>9. \A e : IsQueued(e) => IsQueued(e)'
  BY <1>8 DEF IsQueued
<1>10. IsQueued(mail)'
  BY <1>2, <1>3, <1>4 DEF IsQueued
<1> QED BY <1>3, <1>6, <1>7, <1>8, <1>9, <1>10

LEMMA EnqueueGrows ==
  ASSUME NEW kind, NEW payload, NEW mail, Enqueue(kind, payload, mail)
  PROVE  QueueGrows(kind, payload, mail)
BY DEF Enqueue, QueueGrows

(***************************************************************************)
(* Units of debt                                                           *)
(***************************************************************************)
LEMMA DebtsShrink ==
  ASSUME NEW D \in [Row -> Nat], NEW E \in [Row -> Nat], IsFiniteSet(Units(D)),
         \A r \in Row : E[r] <= D[r]
  PROVE  IsFiniteSet(Units(E)) /\ Cardinality(Units(E)) <= Cardinality(Units(D))
<1>1. Units(E) \subseteq Units(D)
  <2> SUFFICES ASSUME NEW x \in Units(E) PROVE x \in Units(D)
    OBVIOUS
  <2>1. x \in Row \X (Nat \ {0}) /\ x[1] \in Row /\ x[2] \in Nat /\ x[2] <= E[x[1]]
    BY DEF Units
  <2>2. E[x[1]] \in Nat /\ D[x[1]] \in Nat /\ E[x[1]] <= D[x[1]]
    BY <2>1
  <2> QED BY <2>1, <2>2 DEF Units
<1> QED BY <1>1, FS_Subset

LEMMA DebtsGrowByOne ==
  ASSUME NEW D \in [Row -> Nat], NEW E \in [Row -> Nat], IsFiniteSet(Units(D)), NEW a \in Row,
         E[a] <= D[a] + 1, \A r \in Row \ {a} : E[r] <= D[r]
  PROVE  IsFiniteSet(Units(E)) /\ Cardinality(Units(E)) <= Cardinality(Units(D)) + 1
<1>1. Units(E) \subseteq Units(D) \union {<<a, D[a] + 1>>}
  <2> SUFFICES ASSUME NEW x \in Units(E) PROVE x \in Units(D) \/ x = <<a, D[a] + 1>>
    OBVIOUS
  <2>1. x \in Row \X (Nat \ {0}) /\ x[1] \in Row /\ x[2] \in Nat /\ x[2] <= E[x[1]] /\ x = <<x[1], x[2]>>
    BY DEF Units
  <2>2. E[x[1]] \in Nat /\ D[x[1]] \in Nat /\ D[a] \in Nat
    BY <2>1
  <2>3. CASE x[1] = a
    <3>1. x[2] <= D[a] \/ x[2] = D[a] + 1
      BY <2>1, <2>2, <2>3
    <3> QED BY <2>1, <2>3, <3>1 DEF Units
  <2>4. CASE x[1] # a
    <3>1. x[2] <= D[x[1]]
      BY <2>1, <2>2, <2>4
    <3> QED BY <2>1, <3>1 DEF Units
  <2> QED BY <2>3, <2>4
<1>2. /\ IsFiniteSet(Units(D) \union {<<a, D[a] + 1>>})
      /\ Cardinality(Units(D) \union {<<a, D[a] + 1>>}) <= Cardinality(Units(D)) + 1
  <2> DEFINE paid == Units(D)
             unit == <<a, D[a] + 1>>
  <2>1. IsFiniteSet(paid) /\ Cardinality(paid) \in Nat
    BY FS_CardinalityType
  <2> HIDE DEF paid, unit
  <2>2. /\ IsFiniteSet(paid \union {unit})
        /\ Cardinality(paid \union {unit}) = IF unit \in paid THEN Cardinality(paid) ELSE Cardinality(paid) + 1
    BY <2>1, FS_AddElement
  <2>3. Cardinality(paid \union {unit}) <= Cardinality(paid) + 1
    BY <2>1, <2>2
  <2> QED BY <2>2, <2>3 DEF paid, unit
<1>3. /\ IsFiniteSet(Units(E))
      /\ Cardinality(Units(E)) <= Cardinality(Units(D) \union {<<a, D[a] + 1>>})
  BY <1>1, <1>2, FS_Subset
<1>4. /\ Cardinality(Units(E)) \in Nat /\ Cardinality(Units(D)) \in Nat
      /\ Cardinality(Units(D) \union {<<a, D[a] + 1>>}) \in Nat
  BY <1>2, <1>3, FS_CardinalityType
<1> QED BY <1>2, <1>3, <1>4

LEMMA DebtIsPaid ==
  ASSUME NEW D \in [Row -> Nat], NEW E \in [Row -> Nat], IsFiniteSet(Units(D)), NEW a \in Row,
         D[a] > 0, E[a] <= D[a] - 1, \A r \in Row \ {a} : E[r] <= D[r]
  PROVE  IsFiniteSet(Units(E)) /\ Cardinality(Units(E)) <= Cardinality(Units(D)) - 1
<1>1. <<a, D[a]>> \in Units(D)
  BY DEF Units
<1>2. Units(E) \subseteq Units(D) \ {<<a, D[a]>>}
  <2> SUFFICES ASSUME NEW x \in Units(E) PROVE x \in Units(D) /\ x # <<a, D[a]>>
    OBVIOUS
  <2>1. x \in Row \X (Nat \ {0}) /\ x[1] \in Row /\ x[2] \in Nat /\ x[2] <= E[x[1]] /\ x = <<x[1], x[2]>>
    BY DEF Units
  <2>2. E[x[1]] \in Nat /\ D[x[1]] \in Nat /\ D[a] \in Nat
    BY <2>1
  <2>3. CASE x[1] = a
    <3>1. x[2] <= D[a] - 1
      BY <2>1, <2>2, <2>3
    <3>2. x[2] <= D[x[1]] /\ x[2] # D[a]
      BY <2>1, <2>2, <2>3, <3>1
    <3>3. x # <<a, D[a]>>
      BY <3>2
    <3> QED BY <2>1, <3>2, <3>3 DEF Units
  <2>4. CASE x[1] # a
    <3>1. x[2] <= D[x[1]]
      BY <2>1, <2>2, <2>4
    <3> QED BY <2>1, <2>4, <3>1 DEF Units
  <2> QED BY <2>3, <2>4
<1>3. IsFiniteSet(Units(D) \ {<<a, D[a]>>}) /\ Cardinality(Units(D) \ {<<a, D[a]>>}) = Cardinality(Units(D)) - 1
  BY <1>1, FS_RemoveElement
<1> QED BY <1>2, <1>3, FS_Subset

LEMMA TurnsAreNumbers ==
  ASSUME NEW r \in Row, IsFiniteSet(Holding(r))
  PROVE  /\ Cardinality(Holding(r)) \in Nat /\ (Cardinality(Holding(r)) = 0 <=> Holding(r) = {})
         /\ Turns(r) \in Nat /\ Debt(r) \in Nat
         /\ Debt(r) = IF r \in mailed \/ Turns(r) = 0 THEN Turns(r) ELSE Turns(r) - 1
         /\ Turns(r) = Cardinality(Holding(r)) + (IF Ready(r) THEN 1 ELSE 0)
<1>1. Cardinality(Holding(r)) \in Nat /\ (Cardinality(Holding(r)) = 0 <=> Holding(r) = {})
  BY FS_CardinalityType, FS_EmptySet
<1>2. Turns(r) \in Nat /\ Turns(r) = Cardinality(Holding(r)) + (IF Ready(r) THEN 1 ELSE 0)
  BY <1>1 DEF Turns
<1> QED BY <1>1, <1>2 DEF Debt

(* What a step owes is what its rows owe. *)
LEMMA DebtsFollow ==
  ASSUME DebtsArePaid, lapses \in Nat, repeats \in Nat, lapses' \in Nat, repeats' \in Nat,
         \A r \in Row : IsFiniteSet(Holding(r))' /\ Debt(r)' \in Nat,
         \/ /\ \A r \in Row : Debt(r)' <= Debt(r)
            /\ (repeats' = repeats /\ lapses <= lapses') \/ (repeats' = repeats + 1 /\ lapses' = lapses + 1)
         \/ \E a \in Row : /\ Debt(a)' <= Debt(a) + 1 /\ \A r \in Row \ {a} : Debt(r)' <= Debt(r)
                           /\ repeats' = repeats /\ lapses' = lapses + 1
         \/ \E a \in Row : /\ Debt(a) > 0 /\ Debt(a)' <= Debt(a) - 1 /\ \A r \in Row \ {a} : Debt(r)' <= Debt(r)
                           /\ repeats' = repeats + 1 /\ lapses' = lapses
  PROVE  DebtsArePaid'
<1>1. PICK D \in [Row -> Nat] : D = Debts /\ \A r \in Row : D[r] = Debt(r)
  <2>1. \A r \in Row : Debt(r) \in Nat
    BY TurnsAreNumbers DEF DebtsArePaid
  <2>2. Debts \in [Row -> Nat] /\ \A r \in Row : Debts[r] = Debt(r)
    BY <2>1 DEF Debts
  <2> QED BY <2>2
<1>2. PICK E \in [Row -> Nat] : E = Debts' /\ \A r \in Row : E[r] = Debt(r)'
  <2>1. Debts' \in [Row -> Nat] /\ \A r \in Row : Debts'[r] = Debt(r)'
    BY DEF Debts
  <2> QED BY <2>1
<1>3. IsFiniteSet(Units(D)) /\ repeats + Cardinality(Units(D)) <= lapses
  BY <1>1 DEF DebtsArePaid
<1>4. Cardinality(Units(D)) \in Nat
  BY <1>3, FS_CardinalityType
<1>5. IsFiniteSet(Units(E)) /\ repeats' + Cardinality(Units(E)) <= lapses'
  <2>1. ASSUME \A r \in Row : Debt(r)' <= Debt(r),
               (repeats' = repeats /\ lapses <= lapses') \/ (repeats' = repeats + 1 /\ lapses' = lapses + 1)
        PROVE  IsFiniteSet(Units(E)) /\ repeats' + Cardinality(Units(E)) <= lapses'
    <3>1. IsFiniteSet(Units(E)) /\ Cardinality(Units(E)) <= Cardinality(Units(D))
      BY <1>1, <1>2, <1>3, <2>1, DebtsShrink
    <3>2. Cardinality(Units(E)) \in Nat
      BY <3>1, FS_CardinalityType
    <3>3. repeats + Cardinality(Units(E)) <= lapses
      BY <1>3, <1>4, <3>1, <3>2
    <3>4. repeats' + Cardinality(Units(E)) <= lapses'
      BY <2>1, <3>2, <3>3
    <3> QED BY <3>1, <3>4
  <2>2. ASSUME NEW a \in Row, Debt(a)' <= Debt(a) + 1, \A r \in Row \ {a} : Debt(r)' <= Debt(r),
               repeats' = repeats, lapses' = lapses + 1
        PROVE  IsFiniteSet(Units(E)) /\ repeats' + Cardinality(Units(E)) <= lapses'
    <3>1. IsFiniteSet(Units(E)) /\ Cardinality(Units(E)) <= Cardinality(Units(D)) + 1
      BY <1>1, <1>2, <1>3, <2>2, DebtsGrowByOne
    <3>2. Cardinality(Units(E)) \in Nat
      BY <3>1, FS_CardinalityType
    <3> QED BY <1>3, <1>4, <2>2, <3>1, <3>2
  <2>3. ASSUME NEW a \in Row, Debt(a) > 0, Debt(a)' <= Debt(a) - 1, \A r \in Row \ {a} : Debt(r)' <= Debt(r),
               repeats' = repeats + 1, lapses' = lapses
        PROVE  IsFiniteSet(Units(E)) /\ repeats' + Cardinality(Units(E)) <= lapses'
    <3>1. IsFiniteSet(Units(E)) /\ Cardinality(Units(E)) <= Cardinality(Units(D)) - 1
      BY <1>1, <1>2, <1>3, <2>3, DebtIsPaid
    <3>2. Cardinality(Units(E)) \in Nat
      BY <3>1, FS_CardinalityType
    <3> QED BY <1>3, <1>4, <2>3, <3>1, <3>2
  <2> QED BY <2>1, <2>2, <2>3
<1>6. IsFiniteSet(Units(Debts))' /\ (repeats + Cardinality(Units(Debts)) <= lapses)'
  BY <1>2, <1>5
<1> QED BY <1>6 DEF DebtsArePaid

(* A row nobody touches owes what it owed. *)
LEMMA RowOwesTheSame ==
  ASSUME NEW r \in Row, IsFiniteSet(Holding(r)), Holding(r)' = Holding(r), queue'[r] = queue[r],
         r \in mailed' <=> r \in mailed
  PROVE  IsFiniteSet(Holding(r))' /\ Debt(r)' = Debt(r) /\ Debt(r) \in Nat
<1>1. Ready(r)' <=> Ready(r)
  BY DEF Ready, Present
<1>2. Turns(r)' = Turns(r)
  BY <1>1 DEF Turns
<1>3. Debt(r)' = Debt(r)
  BY <1>2 DEF Debt
<1> QED BY <1>3, TurnsAreNumbers

(* The turns of a row after a step, from who holds it then. *)
LEMMA TurnsThen ==
  ASSUME NEW r \in Row, IsFiniteSet(Holding(r))'
  PROVE  /\ Cardinality(Holding(r)') \in Nat /\ (Cardinality(Holding(r)') = 0 <=> Holding(r)' = {})
         /\ Turns(r)' \in Nat /\ Debt(r)' \in Nat
         /\ Debt(r)' = IF r \in mailed' \/ Turns(r)' = 0 THEN Turns(r)' ELSE Turns(r)' - 1
         /\ Turns(r)' = Cardinality(Holding(r)') + (IF Ready(r)' THEN 1 ELSE 0)
<1>1. Cardinality(Holding(r)') \in Nat /\ (Cardinality(Holding(r)') = 0 <=> Holding(r)' = {})
  BY FS_CardinalityType, FS_EmptySet
<1>2. Turns(r)' \in Nat /\ Turns(r)' = Cardinality(Holding(r)') + (IF Ready(r)' THEN 1 ELSE 0)
  BY <1>1 DEF Turns
<1> QED BY <1>1, <1>2 DEF Debt

(* A job that is dropped is one holder less of its row. *)
LEMMA DropReleases ==
  ASSUME QueueTyped, JobsAreOfRows, DebtsArePaid, NEW w \in Worker, NEW j \in hand[w], Drop(w, j)
  PROVE  /\ j.row \in Row /\ Present(j.row)
         /\ hand' \in [Worker -> SUBSET [row : Row, renderable : BOOLEAN]]
         /\ \A v \in Worker : hand'[v] \subseteq hand[v]
         /\ \A r \in Row \ {j.row} : Holding(r)' = Holding(r)
         /\ IsFiniteSet(Holding(j.row)')
         /\ Cardinality(Holding(j.row)') = Cardinality(Holding(j.row)) - 1
<1>1. /\ hand \in [Worker -> SUBSET [row : Row, renderable : BOOLEAN]]
      /\ hand' = [hand EXCEPT ![w] = hand[w] \ {j}]
  BY DEF QueueTyped, Drop
<1>2. j.row \in Row /\ Present(j.row)
  BY <1>1 DEF JobsAreOfRows
<1>3. hand'[w] = hand[w] \ {j} /\ \A v \in Worker \ {w} : hand'[v] = hand[v]
  BY <1>1
<1>4. \A k \in hand[w] : j.row = k.row => j = k
  BY DEF JobsAreOfRows
<1>5. ASSUME NEW r \in Row \ {j.row} PROVE Holding(r)' = Holding(r)
  <2>1. \A v \in Worker : (\E k \in hand'[v] : k.row = r) <=> (\E k \in hand[v] : k.row = r)
    BY <1>3
  <2> QED BY <2>1 DEF Holding
<1>6. Holding(j.row)' = Holding(j.row) \ {w} /\ w \in Holding(j.row)
  <2>1. \A v \in Worker : (\E k \in hand'[v] : k.row = j.row) <=> v # w /\ (\E k \in hand[v] : k.row = j.row)
    BY <1>3, <1>4
  <2>2. \E k \in hand[w] : k.row = j.row
    OBVIOUS
  <2> QED BY <2>1, <2>2 DEF Holding
<1>7. IsFiniteSet(Holding(j.row))
  BY <1>2 DEF DebtsArePaid
<1>8. IsFiniteSet(Holding(j.row)') /\ Cardinality(Holding(j.row)') = Cardinality(Holding(j.row)) - 1
  BY <1>6, <1>7, FS_RemoveElement
<1>9. hand' \in [Worker -> SUBSET [row : Row, renderable : BOOLEAN]] /\ \A v \in Worker : hand'[v] \subseteq hand[v]
  BY <1>1, <1>3
<1> QED BY <1>2, <1>5, <1>8, <1>9

(***************************************************************************)
(* What each kind of step does to the debts                                *)
(***************************************************************************)

(* Fewer turns are no more debt, and one turn is one unit. *)
LEMMA TurnsMakeDebts ==
  ASSUME NEW r \in Row, IsFiniteSet(Holding(r)), IsFiniteSet(Holding(r))', r \in mailed' <=> r \in mailed
  PROVE  /\ Turns(r)' <= Turns(r) => Debt(r)' <= Debt(r)
         /\ Turns(r)' <= Turns(r) + 1 => Debt(r)' <= Debt(r) + 1
<1>1. /\ Turns(r) \in Nat /\ Turns(r)' \in Nat /\ Debt(r) \in Nat /\ Debt(r)' \in Nat
      /\ Debt(r) = IF r \in mailed \/ Turns(r) = 0 THEN Turns(r) ELSE Turns(r) - 1
      /\ Debt(r)' = IF r \in mailed' \/ Turns(r)' = 0 THEN Turns(r)' ELSE Turns(r)' - 1
  BY TurnsAreNumbers, TurnsThen
<1>2. PICK s \in Nat, t \in Nat, d \in Nat, e \in Nat :
        s = Turns(r) /\ t = Turns(r)' /\ d = Debt(r) /\ e = Debt(r)'
  BY <1>1
<1> QED BY <1>1, <1>2

(* Rows nobody touches. *)
LEMMA QuietDebts ==
  ASSUME QueueTyped, DebtsArePaid, UNCHANGED <<queue, hand, mails>>, lapses' \in Nat, lapses <= lapses'
  PROVE  DebtsArePaid'
<1>1. \A r \in Row : Holding(r)' = Holding(r)
  BY DEF Holding
<1>2. \A r \in Row : IsFiniteSet(Holding(r))' /\ Debt(r)' = Debt(r) /\ Debt(r) \in Nat
  BY <1>1, RowOwesTheSame DEF DebtsArePaid, mails
<1>3. lapses \in Nat /\ repeats \in Nat /\ repeats' = repeats
  BY DEF QueueTyped, mails
<1>4. \A r \in Row : Debt(r)' <= Debt(r)
  BY <1>2
<1>5. \A r \in Row : IsFiniteSet(Holding(r))' /\ Debt(r)' \in Nat
  BY <1>2
<1>6. /\ \A r \in Row : Debt(r)' <= Debt(r)
      /\ (repeats' = repeats /\ lapses <= lapses') \/ (repeats' = repeats + 1 /\ lapses' = lapses + 1)
  BY <1>3, <1>4
<1>7. repeats' \in Nat
  BY <1>3
<1> QED BY <1>3, <1>5, <1>6, <1>7, DebtsFollow

(* A row that is queued is due for the one mail nobody has to pay for. *)
LEMMA GrowingOwesNothing ==
  ASSUME QueueTyped, JobsAreOfRows, DebtsArePaid, NEW kind \in Kind, NEW payload \in Payload, NEW mail \in Tag,
         QueueGrows(kind, payload, mail), UNCHANGED <<hand, mails>>, lapses' = lapses
  PROVE  DebtsArePaid'
<1>1. PICK n \in Row : queue[n] = Absent /\ queue' = [queue EXCEPT ![n] = Queued(kind, payload, mail)]
  BY DEF QueueGrows
<1>2. \A r \in Row : Holding(r)' = Holding(r)
  BY DEF Holding
<1>3. \A r \in Row \ {n} : queue'[r] = queue[r]
  BY <1>1 DEF QueueTyped
<1>4. \A r \in Row \ {n} : IsFiniteSet(Holding(r))' /\ Debt(r)' = Debt(r) /\ Debt(r) \in Nat
  BY <1>2, <1>3, RowOwesTheSame DEF DebtsArePaid, mails
<1>5. IsFiniteSet(Holding(n))' /\ Debt(n)' = 0 /\ Debt(n) \in Nat
  <2>1. ~Present(n) /\ Holding(n) = {} /\ n \notin mailed
    BY <1>1 DEF JobsAreOfRows, Holding, Present
  <2>2. n \notin mailed' /\ Holding(n)' = {}
    BY <1>2, <2>1 DEF mails
  <2>3. IsFiniteSet(Holding(n)) /\ IsFiniteSet(Holding(n))'
    BY <2>1, <2>2, FS_EmptySet
  <2>4. /\ Cardinality(Holding(n)') \in Nat /\ (Cardinality(Holding(n)') = 0 <=> Holding(n)' = {})
        /\ Turns(n)' = Cardinality(Holding(n)') + (IF Ready(n)' THEN 1 ELSE 0)
        /\ Debt(n)' = IF n \in mailed' \/ Turns(n)' = 0 THEN Turns(n)' ELSE Turns(n)' - 1
    BY <2>3, TurnsThen
  <2>5. Ready(n)' \in BOOLEAN
    BY DEF Ready, Present
  <2>6. Debt(n)' = 0
    BY <2>2, <2>4, <2>5
  <2> QED BY <2>3, <2>6, TurnsAreNumbers
<1>6. lapses \in Nat /\ repeats \in Nat /\ repeats' = repeats
  BY DEF QueueTyped, mails
<1>7. \A r \in Row : IsFiniteSet(Holding(r))' /\ Debt(r)' \in Nat /\ Debt(r)' <= Debt(r)
  BY <1>4, <1>5
<1>8. lapses' \in Nat /\ repeats' \in Nat /\ lapses <= lapses'
  BY <1>6
<1>9. /\ \A r \in Row : Debt(r)' <= Debt(r)
      /\ (repeats' = repeats /\ lapses <= lapses') \/ (repeats' = repeats + 1 /\ lapses' = lapses + 1)
  BY <1>6, <1>7, <1>8
<1>10. \A r \in Row : IsFiniteSet(Holding(r))' /\ Debt(r)' \in Nat
  BY <1>7
<1> QED BY <1>6, <1>8, <1>9, <1>10, DebtsFollow

(* A claim turns a row that is due into a holder of it. *)
LEMMA ClaimsTakeTurns ==
  ASSUME QueueTyped, DebtsArePaid, NEW w \in Worker, Claim(w), lapses' \in Nat
  PROVE  DebtsArePaid'
<1>1. PICK S \in SUBSET DueRows : queue' = Claimed(S, FALSE) /\ hand' = [hand EXCEPT ![w] = Jobs(S)]
  BY DEF Claim
<1>2. hand[w] = {} /\ mailed' = mailed /\ repeats' = repeats
  BY DEF Claim, mails
<1>3. hand'[w] = Jobs(S) /\ \A v \in Worker \ {w} : hand'[v] = hand[v]
  BY <1>1 DEF QueueTyped
<1>4. S \subseteq Row
  BY DEF DueRows
<1>5. ASSUME NEW r \in Row \ S
      PROVE  IsFiniteSet(Holding(r))' /\ Debt(r)' = Debt(r) /\ Debt(r) \in Nat
  <2>1. queue'[r] = queue[r]
    BY <1>1 DEF Claimed
  <2>2. ~\E j \in Jobs(S) : j.row = r
    BY DEF Jobs
  <2>3. \A v \in Worker : (\E j \in hand'[v] : j.row = r) <=> (\E j \in hand[v] : j.row = r)
    BY <1>2, <1>3, <2>2
  <2>4. Holding(r)' = Holding(r)
    BY <2>3 DEF Holding
  <2> QED BY <1>2, <2>1, <2>4, RowOwesTheSame DEF DebtsArePaid
<1>6. ASSUME NEW r \in S
      PROVE  r \in Row /\ IsFiniteSet(Holding(r))' /\ Debt(r)' \in Nat /\ Debt(r)' <= Debt(r)
  <2>1. r \in Row /\ IsFiniteSet(Holding(r))
    BY <1>4 DEF DebtsArePaid
  <2>2. queue[r].state = "pending" /\ queue[r].due /\ queue[r] \in {Absent} \union Job
    BY <2>1 DEF DueRows, QueueTyped
  <2>3. Present(r) /\ queue[r] \in Job
    BY <2>2 DEF Absent, Present
  <2>4. queue'[r] = [queue[r] EXCEPT !.attempts = @ + 1, !.due = FALSE]
    BY <1>1, <2>1 DEF Claimed
  <2>5. ~queue'[r].due
    BY <2>3, <2>4 DEF Job
  <2>6. \E j \in Jobs(S) : j.row = r
    <3>1. [row |-> r, renderable |-> Renderable(r)] \in Jobs(S)
      BY DEF Jobs
    <3> QED BY <3>1
  <2>7. Holding(r)' = Holding(r) \union {w} /\ w \notin Holding(r)
    <3>1. \A v \in Worker : (\E j \in hand'[v] : j.row = r) <=> v = w \/ (\E j \in hand[v] : j.row = r)
      BY <1>3, <2>6
    <3> QED BY <1>2, <3>1 DEF Holding
  <2>8. IsFiniteSet(Holding(r))' /\ Cardinality(Holding(r)') = Cardinality(Holding(r)) + 1
    BY <2>1, <2>7, FS_AddElement
  <2>9. ~Ready(r)'
    BY <2>5, <2>7 DEF Ready
  <2>10. Ready(r)
    BY <2>2, <2>3 DEF Ready
  <2>11. /\ Turns(r)' = Cardinality(Holding(r)') + (IF Ready(r)' THEN 1 ELSE 0)
         /\ Turns(r) = Cardinality(Holding(r)) + (IF Ready(r) THEN 1 ELSE 0)
         /\ Cardinality(Holding(r)) \in Nat /\ Debt(r) \in Nat /\ Debt(r)' \in Nat
    BY <2>1, <2>8, TurnsAreNumbers, TurnsThen
  <2>12. Turns(r)' <= Turns(r)
    BY <2>8, <2>9, <2>10, <2>11
  <2>13. r \in mailed' <=> r \in mailed
    BY <1>2
  <2>14. Debt(r)' <= Debt(r)
    BY <2>1, <2>8, <2>12, <2>13, TurnsMakeDebts
  <2> QED BY <2>1, <2>8, <2>11, <2>14
<1>7. lapses \in Nat /\ repeats \in Nat /\ lapses <= lapses'
  BY DEF QueueTyped, Claim, MaySend
<1>8. \A r \in Row : IsFiniteSet(Holding(r))' /\ Debt(r)' \in Nat /\ Debt(r)' <= Debt(r)
  BY <1>5, <1>6
<1>9. repeats' \in Nat /\ repeats' = repeats
  BY <1>2, <1>7
<1>10. /\ \A r \in Row : Debt(r)' <= Debt(r)
       /\ (repeats' = repeats /\ lapses <= lapses') \/ (repeats' = repeats + 1 /\ lapses' = lapses + 1)
  BY <1>7, <1>8, <1>9
<1>11. \A r \in Row : IsFiniteSet(Holding(r))' /\ Debt(r)' \in Nat
  BY <1>8
<1> QED BY <1>7, <1>9, <1>10, <1>11, DebtsFollow

(* A mail that is sent again takes a turn that was owed. *)
LEMMA SentPays ==
  ASSUME QueueTyped, RowsAreSound, JobsAreOfRows, DebtsArePaid, NEW w \in Worker, NEW j \in hand[w], Sent(w, j)
  PROVE  DebtsArePaid'
<1> DEFINE a == j.row
<1>1. /\ a \in Row /\ Present(a)
      /\ \A r \in Row \ {a} : Holding(r)' = Holding(r)
      /\ IsFiniteSet(Holding(a)')
      /\ Cardinality(Holding(a)') = Cardinality(Holding(a)) - 1
  BY DropReleases DEF Sent
<1>2. /\ queue' = MarkedSent(a) /\ mailed' = mailed \union {a} /\ lapses' = lapses
      /\ repeats' = IF a \in mailed THEN repeats + 1 ELSE repeats
  BY DEF Sent, Mailed
<1>3. queue'[a].state = "sent" /\ \A r \in Row \ {a} : queue'[r] = queue[r]
  BY <1>1, <1>2, MarkingMoves
<1> HIDE DEF a
<1>4. IsFiniteSet(Holding(a)) /\ IsFiniteSet(Holding(a))'
  BY <1>1 DEF DebtsArePaid
<1>5. \A r \in Row \ {a} : IsFiniteSet(Holding(r))' /\ Debt(r)' = Debt(r) /\ Debt(r) \in Nat
  BY <1>1, <1>2, <1>3, RowOwesTheSame DEF DebtsArePaid
<1>6. lapses \in Nat /\ repeats \in Nat /\ lapses' \in Nat /\ repeats' \in Nat
  BY <1>2 DEF QueueTyped
<1>7. ~Ready(a)'
  BY <1>3 DEF Ready
<1>8. /\ Cardinality(Holding(a)) \in Nat /\ Cardinality(Holding(a)') \in Nat
      /\ Turns(a) \in Nat /\ Turns(a)' \in Nat /\ Debt(a) \in Nat /\ Debt(a)' \in Nat
      /\ Turns(a) = Cardinality(Holding(a)) + (IF Ready(a) THEN 1 ELSE 0)
      /\ Turns(a)' = Cardinality(Holding(a)') + (IF Ready(a)' THEN 1 ELSE 0)
      /\ Debt(a) = IF a \in mailed \/ Turns(a) = 0 THEN Turns(a) ELSE Turns(a) - 1
      /\ Debt(a)' = IF a \in mailed' \/ Turns(a)' = 0 THEN Turns(a)' ELSE Turns(a)' - 1
  BY <1>1, <1>4, TurnsAreNumbers, TurnsThen
<1>9. Turns(a) >= Cardinality(Holding(a)) /\ Turns(a)' = Cardinality(Holding(a)) - 1
  BY <1>1, <1>7, <1>8
<1>10. Debt(a)' = Turns(a)' /\ Turns(a)' <= Turns(a) - 1
  BY <1>2, <1>8, <1>9
<1>11. \A r \in Row : IsFiniteSet(Holding(r))' /\ Debt(r)' \in Nat
  BY <1>4, <1>5, <1>8
<1>12. CASE a \in mailed
  <2>1. Debt(a) > 0 /\ Debt(a)' <= Debt(a) - 1
    BY <1>8, <1>10, <1>12
  <2>2. \A r \in Row \ {a} : Debt(r)' <= Debt(r)
    BY <1>5
  <2>3. repeats' = repeats + 1 /\ lapses' = lapses
    BY <1>2, <1>12
  <2>4. \E b \in Row : /\ Debt(b) > 0 /\ Debt(b)' <= Debt(b) - 1 /\ \A r \in Row \ {b} : Debt(r)' <= Debt(r)
                       /\ repeats' = repeats + 1 /\ lapses' = lapses
    BY <1>1, <2>1, <2>2, <2>3
  <2> QED BY <1>6, <1>11, <2>4, DebtsFollow
<1>13. CASE a \notin mailed
  <2>1. Debt(a)' <= Debt(a)
    BY <1>8, <1>10, <1>13
  <2>2. \A r \in Row : Debt(r)' <= Debt(r)
    BY <1>5, <2>1
  <2>3. (repeats' = repeats /\ lapses <= lapses') \/ (repeats' = repeats + 1 /\ lapses' = lapses + 1)
    BY <1>2, <1>6, <1>13
  <2>4. /\ \A r \in Row : Debt(r)' <= Debt(r)
        /\ (repeats' = repeats /\ lapses <= lapses') \/ (repeats' = repeats + 1 /\ lapses' = lapses + 1)
    BY <2>2, <2>3
  <2> QED BY <1>6, <1>11, <2>4, DebtsFollow
<1> QED BY <1>12, <1>13

(* An outcome that is lost leaves the row its turn, at the price of a lapse. *)
LEMMA UnrecordedIsPaid ==
  ASSUME QueueTyped, JobsAreOfRows, DebtsArePaid, NEW w \in Worker, NEW j \in hand[w], SentUnrecorded(w, j)
  PROVE  DebtsArePaid'
<1> DEFINE a == j.row
<1>1. /\ a \in Row /\ Present(a)
      /\ \A r \in Row \ {a} : Holding(r)' = Holding(r)
      /\ IsFiniteSet(Holding(a)')
      /\ Cardinality(Holding(a)') = Cardinality(Holding(a)) - 1
  BY DropReleases DEF SentUnrecorded
<1>2. /\ queue' = queue /\ mailed' = mailed \union {a} /\ lapses' = lapses + 1
      /\ repeats' = IF a \in mailed THEN repeats + 1 ELSE repeats
  BY DEF SentUnrecorded, Mailed
<1> HIDE DEF a
<1>3. IsFiniteSet(Holding(a)) /\ IsFiniteSet(Holding(a))'
  BY <1>1 DEF DebtsArePaid
<1>4. \A r \in Row \ {a} : IsFiniteSet(Holding(r))' /\ Debt(r)' = Debt(r) /\ Debt(r) \in Nat
  BY <1>1, <1>2, RowOwesTheSame DEF DebtsArePaid
<1>5. lapses \in Nat /\ repeats \in Nat /\ lapses' \in Nat /\ repeats' \in Nat
  BY <1>2 DEF QueueTyped
<1>6. /\ Cardinality(Holding(a)) \in Nat /\ Cardinality(Holding(a)') \in Nat
      /\ (Cardinality(Holding(a)') = 0 <=> Holding(a)' = {})
      /\ Turns(a) \in Nat /\ Turns(a)' \in Nat /\ Debt(a) \in Nat /\ Debt(a)' \in Nat
      /\ Turns(a) = Cardinality(Holding(a)) + (IF Ready(a) THEN 1 ELSE 0)
      /\ Turns(a)' = Cardinality(Holding(a)') + (IF Ready(a)' THEN 1 ELSE 0)
      /\ Debt(a) = IF a \in mailed \/ Turns(a) = 0 THEN Turns(a) ELSE Turns(a) - 1
      /\ Debt(a)' = IF a \in mailed' \/ Turns(a)' = 0 THEN Turns(a)' ELSE Turns(a)' - 1
  BY <1>1, <1>3, TurnsAreNumbers, TurnsThen
<1>7. Turns(a)' <= Turns(a) /\ Turns(a) > 0
  BY <1>1, <1>6
<1>8. Debt(a)' = Turns(a)'
  BY <1>2, <1>6
<1>9. \A r \in Row : IsFiniteSet(Holding(r))' /\ Debt(r)' \in Nat
  BY <1>3, <1>4, <1>6
<1>10. CASE a \in mailed
  <2>1. Debt(a)' <= Debt(a)
    BY <1>6, <1>7, <1>8, <1>10
  <2>2. \A r \in Row : Debt(r)' <= Debt(r)
    BY <1>4, <2>1
  <2>3. /\ \A r \in Row : Debt(r)' <= Debt(r)
        /\ (repeats' = repeats /\ lapses <= lapses') \/ (repeats' = repeats + 1 /\ lapses' = lapses + 1)
    BY <1>2, <1>10, <2>2
  <2> QED BY <1>5, <1>9, <2>3, DebtsFollow
<1>11. CASE a \notin mailed
  <2>1. Debt(a)' <= Debt(a) + 1
    BY <1>6, <1>7, <1>8, <1>11
  <2>2. \A r \in Row \ {a} : Debt(r)' <= Debt(r)
    BY <1>4
  <2>3. \E b \in Row : /\ Debt(b)' <= Debt(b) + 1 /\ \A r \in Row \ {b} : Debt(r)' <= Debt(r)
                       /\ repeats' = repeats /\ lapses' = lapses + 1
    BY <1>1, <1>2, <1>11, <2>1, <2>2
  <2> QED BY <1>5, <1>9, <2>3, DebtsFollow
<1> QED BY <1>10, <1>11

(* A job that fails gives the turn to whoever comes after the pause. *)
LEMMA FailingIsFree ==
  ASSUME QueueTyped, RowsAreSound, JobsAreOfRows, DebtsArePaid, NEW w \in Worker, NEW j \in hand[w],
         NEW max \in Nat, queue' = MarkedFailed(j.row, max), Drop(w, j), UNCHANGED <<lapses, mails>>
  PROVE  DebtsArePaid'
<1> DEFINE a == j.row
<1>1. /\ a \in Row /\ Present(a)
      /\ \A r \in Row \ {a} : Holding(r)' = Holding(r)
      /\ IsFiniteSet(Holding(a)')
      /\ Cardinality(Holding(a)') = Cardinality(Holding(a)) - 1
  BY DropReleases
<1>2. mailed' = mailed /\ repeats' = repeats /\ lapses' = lapses
  BY DEF mails
<1>3. /\ queue'[a].state = "pending" => ~queue'[a].due
      /\ \A r \in Row \ {a} : queue'[r] = queue[r]
  BY <1>1, MarkingMoves
<1> HIDE DEF a
<1>4. IsFiniteSet(Holding(a)) /\ IsFiniteSet(Holding(a))'
  BY <1>1 DEF DebtsArePaid
<1>5. \A r \in Row \ {a} : IsFiniteSet(Holding(r))' /\ Debt(r)' = Debt(r) /\ Debt(r) \in Nat
  BY <1>1, <1>2, <1>3, RowOwesTheSame DEF DebtsArePaid
<1>6. lapses \in Nat /\ repeats \in Nat /\ lapses' \in Nat /\ repeats' \in Nat
  BY <1>2 DEF QueueTyped
<1>7. Ready(a)' => Holding(a)' = {}
  BY <1>3 DEF Ready
<1>8. /\ Cardinality(Holding(a)) \in Nat /\ Cardinality(Holding(a)') \in Nat
      /\ (Cardinality(Holding(a)') = 0 <=> Holding(a)' = {})
      /\ Debt(a)' \in Nat
      /\ Turns(a) = Cardinality(Holding(a)) + (IF Ready(a) THEN 1 ELSE 0)
      /\ Turns(a)' = Cardinality(Holding(a)') + (IF Ready(a)' THEN 1 ELSE 0)
  BY <1>1, <1>4, TurnsAreNumbers, TurnsThen
<1>9. Turns(a)' <= Turns(a)
  BY <1>1, <1>7, <1>8
<1>10. a \in mailed' <=> a \in mailed
  BY <1>2
<1>11. Debt(a)' <= Debt(a)
  BY <1>1, <1>4, <1>9, <1>10, TurnsMakeDebts
<1>12. \A r \in Row : IsFiniteSet(Holding(r))' /\ Debt(r)' \in Nat
  BY <1>4, <1>5, <1>8
<1>13. /\ \A r \in Row : Debt(r)' <= Debt(r)
       /\ (repeats' = repeats /\ lapses <= lapses') \/ (repeats' = repeats + 1 /\ lapses' = lapses + 1)
  BY <1>2, <1>5, <1>6, <1>11
<1> QED BY <1>6, <1>12, <1>13, DebtsFollow

(* A dispatcher that dies gives its turns to whoever comes after. *)
LEMMA CrashesAreFree ==
  ASSUME QueueTyped, DebtsArePaid, NEW w \in Worker, Crash(w)
  PROVE  DebtsArePaid'
<1>1. /\ queue' = queue /\ mailed' = mailed /\ repeats' = repeats /\ lapses' = lapses + 1
      /\ hand' = [hand EXCEPT ![w] = {}]
  BY DEF Crash, mails
<1>2. hand'[w] = {} /\ \A v \in Worker \ {w} : hand'[v] = hand[v]
  BY <1>1 DEF QueueTyped
<1>3. lapses \in Nat /\ repeats \in Nat /\ lapses' \in Nat /\ repeats' \in Nat
  BY <1>1 DEF QueueTyped
<1>4. ASSUME NEW r \in Row
      PROVE  IsFiniteSet(Holding(r))' /\ Debt(r)' \in Nat /\ Debt(r)' <= Debt(r)
  <2>1. Holding(r)' = Holding(r) \ {w}
    <3>1. \A v \in Worker : (\E j \in hand'[v] : j.row = r) <=> v # w /\ (\E j \in hand[v] : j.row = r)
      BY <1>2
    <3> QED BY <3>1 DEF Holding
  <2>2. IsFiniteSet(Holding(r))
    BY DEF DebtsArePaid
  <2>3. /\ IsFiniteSet(Holding(r))'
        /\ Cardinality(Holding(r)') = IF w \in Holding(r) THEN Cardinality(Holding(r)) - 1 ELSE Cardinality(Holding(r))
    BY <2>1, <2>2, FS_RemoveElement
  <2>4. /\ Cardinality(Holding(r)) \in Nat /\ Cardinality(Holding(r)') \in Nat
        /\ (Cardinality(Holding(r)) = 0 <=> Holding(r) = {}) /\ (Cardinality(Holding(r)') = 0 <=> Holding(r)' = {})
        /\ Debt(r)' \in Nat
        /\ Turns(r) = Cardinality(Holding(r)) + (IF Ready(r) THEN 1 ELSE 0)
        /\ Turns(r)' = Cardinality(Holding(r)') + (IF Ready(r)' THEN 1 ELSE 0)
    BY <2>2, <2>3, TurnsAreNumbers, TurnsThen
  <2>5. Ready(r)' => Ready(r) \/ (w \in Holding(r) /\ Holding(r)' = {})
    BY <1>1, <2>1 DEF Ready, Present
  <2>6. Turns(r)' <= Turns(r)
    BY <2>3, <2>4, <2>5
  <2>7. r \in mailed' <=> r \in mailed
    BY <1>1
  <2>8. Debt(r)' <= Debt(r)
    BY <2>2, <2>3, <2>6, <2>7, TurnsMakeDebts
  <2> QED BY <2>3, <2>4, <2>8
<1>5. \A r \in Row : IsFiniteSet(Holding(r))' /\ Debt(r)' \in Nat
  BY <1>4
<1>6. /\ \A r \in Row : Debt(r)' <= Debt(r)
      /\ (repeats' = repeats /\ lapses <= lapses') \/ (repeats' = repeats + 1 /\ lapses' = lapses + 1)
  BY <1>1, <1>3, <1>4
<1> QED BY <1>3, <1>5, <1>6, DebtsFollow

(* A lease that ends under its dispatcher is a turn more, and is paid for. *)
LEMMA LeasesArePaid ==
  ASSUME QueueTyped, RowsAreSound, DebtsArePaid, NEW a \in Row, ComesDue(a)
  PROVE  DebtsArePaid'
<1>1. /\ queue' = [queue EXCEPT ![a].due = TRUE] /\ hand' = hand /\ mailed' = mailed /\ repeats' = repeats
      /\ queue[a].state = "pending" /\ ~queue[a].due
      /\ lapses' = IF Held(a) THEN lapses + 1 ELSE lapses
  BY DEF ComesDue, mails
<1>2. Present(a)
  BY <1>1 DEF Absent, Present
<1>3. \A r \in Row : Holding(r)' = Holding(r)
  BY <1>1 DEF Holding
<1>4. \A r \in Row \ {a} : queue'[r] = queue[r]
  BY <1>1 DEF QueueTyped
<1>5. \A r \in Row \ {a} : IsFiniteSet(Holding(r))' /\ Debt(r)' = Debt(r) /\ Debt(r) \in Nat
  BY <1>1, <1>3, <1>4, RowOwesTheSame DEF DebtsArePaid
<1>6. IsFiniteSet(Holding(a)) /\ IsFiniteSet(Holding(a))'
  BY <1>3 DEF DebtsArePaid
<1>7. lapses \in Nat /\ repeats \in Nat /\ lapses' \in Nat /\ repeats' \in Nat
  BY <1>1 DEF QueueTyped
<1>8. Held(a) <=> Holding(a) # {}
  BY DEF Held, Holding
<1>9. Ready(a) <=> Holding(a) = {}
  BY <1>1, <1>2 DEF Ready
<1>10. /\ Cardinality(Holding(a)) \in Nat /\ Cardinality(Holding(a)') = Cardinality(Holding(a))
       /\ (Cardinality(Holding(a)) = 0 <=> Holding(a) = {})
       /\ Debt(a)' \in Nat /\ Turns(a)' \in Nat
       /\ Turns(a) = Cardinality(Holding(a)) + (IF Ready(a) THEN 1 ELSE 0)
       /\ Turns(a)' = Cardinality(Holding(a)') + (IF Ready(a)' THEN 1 ELSE 0)
  BY <1>3, <1>6, TurnsAreNumbers, TurnsThen
<1>11. a \in mailed' <=> a \in mailed
  BY <1>1
<1>12. /\ Turns(a)' <= Turns(a) => Debt(a)' <= Debt(a)
       /\ Turns(a)' <= Turns(a) + 1 => Debt(a)' <= Debt(a) + 1
  BY <1>6, <1>11, TurnsMakeDebts
<1>13. \A r \in Row : IsFiniteSet(Holding(r))' /\ Debt(r)' \in Nat
  BY <1>5, <1>6, <1>10
<1>14. CASE Held(a)
  <2>1. Turns(a)' <= Turns(a) + 1
    BY <1>8, <1>9, <1>10, <1>14
  <2>2. \A r \in Row \ {a} : Debt(r)' <= Debt(r)
    BY <1>5
  <2>3. \E b \in Row : /\ Debt(b)' <= Debt(b) + 1 /\ \A r \in Row \ {b} : Debt(r)' <= Debt(r)
                       /\ repeats' = repeats /\ lapses' = lapses + 1
    BY <1>1, <1>12, <1>14, <2>1, <2>2
  <2> QED BY <1>7, <1>13, <2>3, DebtsFollow
<1>15. CASE ~Held(a)
  <2>1. Turns(a)' <= Turns(a)
    BY <1>8, <1>9, <1>10, <1>15
  <2>2. \A r \in Row : Debt(r)' <= Debt(r)
    BY <1>5, <1>12, <2>1
  <2>3. /\ \A r \in Row : Debt(r)' <= Debt(r)
        /\ (repeats' = repeats /\ lapses <= lapses') \/ (repeats' = repeats + 1 /\ lapses' = lapses + 1)
    BY <1>1, <1>7, <1>15, <2>2
  <2> QED BY <1>7, <1>13, <2>3, DebtsFollow
<1> QED BY <1>14, <1>15

(***************************************************************************)
(* What each kind of step does to the story                                *)
(***************************************************************************)
CountsMove == mailbox' \in Address /\ lapses' \in Nat /\ repeats' \in Nat

JobsMove ==
  /\ hand' \in [Worker -> SUBSET [row : Row, renderable : BOOLEAN]]
  /\ \A w \in Worker : \A j, k \in hand'[w] : Present(j.row) /\ (j.row = k.row => j = k)
  /\ mailed' \subseteq Row /\ \A r \in mailed' : Present(r)

(* The mails in E are queued by this step. *)
TracesMove(E) ==
  /\ inbox \subseteq inbox' /\ \A e \in inbox' : e \in inbox \/ e = Key \/ IsQueued(e) \/ e \in E
  /\ request' \in [Request -> Relayed]
  /\ \A q \in Request : request'[q].step = "answering" => IsQueued(request'[q].entry) \/ request'[q].entry \in E

LEMMA StoryFollows ==
  ASSUME StoryInv, CountsMove, JobsMove, NEW E, TracesMove(E),
         queue' \in [Row -> {Absent} \union Job], RowsAreSound', EmitsAreIdempotent',
         \A r \in Row : Present(r) => Present(r)',
         \A e : IsQueued(e) => IsQueued(e)', \A e \in E : IsQueued(e)'
  PROVE  StoryInv'
<1>1. QueueTyped'
  BY DEF QueueTyped, CountsMove, JobsMove, TracesMove
<1>2. TracesAreOfMails'
  <2>1. \A e \in inbox' : e # Key => IsQueued(e)'
    <3> SUFFICES ASSUME NEW e \in inbox', e # Key PROVE IsQueued(e)'
      OBVIOUS
    <3>1. CASE e \in inbox
      BY <3>1 DEF StoryInv, TracesAreOfMails
    <3> QED BY <3>1 DEF TracesMove
  <2>2. \A q \in Request : request'[q].step = "answering" =>
          \E r \in Row : Present(r)' /\ queue'[r].mail = request'[q].entry
    <3> SUFFICES ASSUME NEW q \in Request, request'[q].step = "answering"
                 PROVE  \E r \in Row : Present(r)' /\ queue'[r].mail = request'[q].entry
      OBVIOUS
    <3>1. PICK e : e = request'[q].entry
      OBVIOUS
    <3>2. IsQueued(e) \/ e \in E
      BY <3>1 DEF TracesMove
    <3>3. IsQueued(e)'
      BY <3>2
    <3> QED BY <3>1, <3>3 DEF IsQueued
  <2> QED BY <2>1, <2>2 DEF TracesAreOfMails, IsQueued
<1>3. JobsAreOfRows'
  <2>1. \A w \in Worker : \A j, k \in hand'[w] : Present(j.row)' /\ (j.row = k.row => j = k)
    <3> SUFFICES ASSUME NEW w \in Worker, NEW j \in hand'[w], NEW k \in hand'[w]
                 PROVE  Present(j.row)' /\ (j.row = k.row => j = k)
      OBVIOUS
    <3>1. PICK r \in Row : r = j.row
      BY DEF JobsMove
    <3>2. Present(r) /\ (j.row = k.row => j = k)
      BY <3>1 DEF JobsMove
    <3> QED BY <3>1, <3>2
  <2>2. \A r \in mailed' : Present(r)'
    BY DEF JobsMove
  <2> QED BY <2>1, <2>2 DEF JobsAreOfRows
<1> QED BY <1>1, <1>2, <1>3 DEF StoryInv

LEMMA StoryMoves ==
  ASSUME StoryInv, CountsMove, JobsMove, TracesMove({}), QueueMoves
  PROVE  StoryInv'
<1>1. QueueTyped /\ RowsAreSound /\ EmitsAreIdempotent /\ inbox \subseteq inbox'
  BY DEF StoryInv, TracesMove
<1>2. /\ RowsAreSound' /\ EmitsAreIdempotent'
      /\ \A r \in Row : Present(r)' = Present(r)
      /\ \A e : IsQueued(e) => IsQueued(e)'
  BY <1>1, MovingTellsTheSame
<1>3. queue' \in [Row -> {Absent} \union Job]
  BY DEF QueueMoves
<1>4. \A r \in Row : Present(r) => Present(r)'
  BY <1>2
<1>5. \A e \in {} : IsQueued(e)'
  OBVIOUS
<1> QED BY <1>2, <1>3, <1>4, <1>5, StoryFollows

LEMMA StoryGrows ==
  ASSUME StoryInv, CountsMove, JobsMove,
         NEW kind \in Kind, NEW payload \in Payload \ {"unrenderable"}, NEW mail \in Tag,
         QueueGrows(kind, payload, mail), TracesMove({mail}),
         kind = "notification" => Key \notin inbox /\ Key \in inbox'
  PROVE  StoryInv'
<1>1. QueueTyped /\ RowsAreSound /\ EmitsAreIdempotent /\ inbox \subseteq inbox'
  BY DEF StoryInv, TracesMove
<1>2. /\ queue' \in [Row -> {Absent} \union Job]
      /\ RowsAreSound' /\ EmitsAreIdempotent'
      /\ \A r \in Row : Present(r) => Present(r)' /\ queue'[r] = queue[r]
      /\ \A e : IsQueued(e) => IsQueued(e)'
      /\ IsQueued(mail)'
  BY <1>1, GrowingTellsMore
<1>3. \A r \in Row : Present(r) => Present(r)'
  BY <1>2
<1>4. \A e \in {mail} : IsQueued(e)'
  BY <1>2
<1> QED BY <1>2, <1>3, <1>4, StoryFollows

(* What is left alone moves nothing. *)
LEMMA LeftAlone ==
  ASSUME StoryInv
  PROVE  /\ UNCHANGED queue => QueueMoves
         /\ UNCHANGED <<hand, mails>> => JobsMove
         /\ \A E : UNCHANGED <<inbox, request>> => TracesMove(E)
         /\ UNCHANGED <<mailbox, lapses, mails>> => CountsMove
<1>1. UNCHANGED queue => QueueMoves
  BY DEF StoryInv, QueueTyped, QueueMoves, RowMoves
<1>2. UNCHANGED <<hand, mails>> => JobsMove
  BY DEF StoryInv, QueueTyped, JobsAreOfRows, JobsMove, mails
<1>3. \A E : UNCHANGED <<inbox, request>> => TracesMove(E)
  BY DEF StoryInv, QueueTyped, TracesAreOfMails, TracesMove
<1>4. UNCHANGED <<mailbox, lapses, mails>> => CountsMove
  BY DEF StoryInv, QueueTyped, CountsMove, mails
<1> QED BY <1>1, <1>2, <1>3, <1>4

LEMMA QuietSteps ==
  ASSUME RelayInv, CountsMove, UNCHANGED <<queue, hand, mails>>, lapses <= lapses', TracesMove({})
  PROVE  RelayInv'
<1>1. StoryInv /\ DebtsArePaid /\ QueueTyped /\ lapses' \in Nat
  BY DEF RelayInv, StoryInv, CountsMove
<1>2. JobsMove /\ QueueMoves
  BY <1>1, LeftAlone
<1>3. StoryInv'
  BY <1>1, <1>2, StoryMoves
<1>4. DebtsArePaid'
  BY <1>1, QuietDebts
<1> QED BY <1>3, <1>4 DEF RelayInv

LEMMA QueueingSteps ==
  ASSUME RelayInv, CountsMove, UNCHANGED <<hand, mails>>, lapses' = lapses,
         NEW kind \in Kind, NEW payload \in Payload \ {"unrenderable"}, NEW mail \in Tag,
         Enqueue(kind, payload, mail), TracesMove({mail}),
         kind = "notification" => Key \notin inbox /\ Key \in inbox'
  PROVE  RelayInv'
<1>1. StoryInv /\ DebtsArePaid /\ QueueTyped /\ JobsAreOfRows
  BY DEF RelayInv, StoryInv
<1>2. JobsMove /\ QueueGrows(kind, payload, mail)
  BY <1>1, LeftAlone, EnqueueGrows
<1>3. StoryInv'
  BY <1>1, <1>2, StoryGrows
<1>4. DebtsArePaid'
  BY <1>1, <1>2, GrowingOwesNothing
<1> QED BY <1>3, <1>4 DEF RelayInv

(* Steps of the subscribers' side. *)
LEMMA PeopleKeep ==
  ASSUME RelayInv, UNCHANGED relayVars, Preferences \/ Emit \/ Mailbox
  PROVE  RelayInv'
<1>1. StoryInv /\ QueueTyped /\ lapses \in Nat /\ repeats \in Nat /\ mailbox \in Address
  BY DEF RelayInv, StoryInv, QueueTyped
<1>2. request' = request
  BY DEF relayVars
<1>3. CASE UNCHANGED <<mailbox, inbox, queue, hand, lapses, mails>>
  <2>1. CountsMove /\ TracesMove({}) /\ lapses <= lapses'
    BY <1>1, <1>2, <1>3, LeftAlone
  <2>2. UNCHANGED <<queue, hand, mails>>
    BY <1>3
  <2> QED BY <2>1, <2>2, QuietSteps
<1>4. ASSUME NEW m \in Emission, EmitFails(m) PROVE RelayInv'
  <2>1. UNCHANGED <<mailbox, inbox, queue, hand, mails>> /\ lapses' = lapses + 1
    BY <1>4 DEF EmitFails
  <2>2. CountsMove /\ TracesMove({}) /\ lapses <= lapses'
    BY <1>1, <1>2, <2>1, LeftAlone DEF CountsMove, mails
  <2>3. UNCHANGED <<queue, hand, mails>>
    BY <2>1
  <2> QED BY <2>2, <2>3, QuietSteps
<1>5. ASSUME NEW m \in Emission, EmitWrites(m) PROVE RelayInv'
  <2>1. UNCHANGED <<mailbox, hand, lapses, mails>> /\ inbox' = inbox \union {Key}
    BY <1>5 DEF EmitWrites
  <2>2. \A E : TracesMove(E)
    BY <1>1, <1>2, <2>1 DEF TracesMove, StoryInv, QueueTyped, TracesAreOfMails
  <2>3. CountsMove /\ lapses <= lapses' /\ lapses' = lapses
    BY <1>1, <2>1, LeftAlone
  <2>4. CASE Key \notin inbox /\ emission[m].mail
    <3>1. Enqueue("notification", "none", Unkeyed) /\ Key \in inbox' /\ Key \notin inbox
      BY <1>5, <2>1, <2>4 DEF EmitWrites
    <3>2. "notification" \in Kind /\ "none" \in Payload \ {"unrenderable"} /\ Unkeyed \in Tag
      BY DEF Kind, Payload, Tag
    <3>3. TracesMove({Unkeyed}) /\ UNCHANGED <<hand, mails>>
      BY <2>1, <2>2
    <3> QED BY <2>3, <3>1, <3>2, <3>3, QueueingSteps
  <2>5. CASE ~(Key \notin inbox /\ emission[m].mail)
    <3>1. UNCHANGED <<queue, hand, mails>> /\ TracesMove({})
      BY <1>5, <2>1, <2>2, <2>5 DEF EmitWrites
    <3> QED BY <2>3, <3>1, QuietSteps
  <2> QED BY <2>4, <2>5
<1>6. ASSUME Confirm \/ ThrottlePasses PROVE RelayInv'
  <2>1. UNCHANGED <<inbox, queue, hand, lapses, mails>> /\ mailbox' \in Address
    <3>1. CASE Confirm
      BY <1>1, <3>1 DEF Confirm, Address
    <3>2. CASE ThrottlePasses
      BY <1>1, <3>2 DEF ThrottlePasses, Address
    <3> QED BY <1>6, <3>1, <3>2
  <2>2. CountsMove /\ TracesMove({}) /\ lapses <= lapses'
    BY <1>1, <1>2, <2>1, LeftAlone DEF CountsMove, mails
  <2>3. UNCHANGED <<queue, hand, mails>>
    BY <2>1
  <2> QED BY <2>2, <2>3, QuietSteps
<1>7. ASSUME SubscribeAnonymous PROVE RelayInv'
  <2>1. UNCHANGED <<inbox, hand, lapses, mails>>
    BY <1>7 DEF SubscribeAnonymous
  <2>2. mailbox' \in Address
    BY <1>1, <1>7 DEF SubscribeAnonymous, Address
  <2>3. CountsMove /\ lapses <= lapses' /\ lapses' = lapses /\ \A E : TracesMove(E)
    BY <1>1, <1>2, <2>1, <2>2, LeftAlone DEF CountsMove, mails
  <2>4. Enqueue("confirm", "none", Unkeyed) \/ UNCHANGED queue
    BY <1>7 DEF SubscribeAnonymous
  <2>5. CASE Enqueue("confirm", "none", Unkeyed)
    <3>1. "confirm" \in Kind /\ "none" \in Payload \ {"unrenderable"} /\ Unkeyed \in Tag /\ "confirm" # "notification"
      BY DEF Kind, Payload, Tag
    <3>2. TracesMove({Unkeyed}) /\ UNCHANGED <<hand, mails>>
      BY <2>1, <2>3
    <3> QED BY <2>3, <2>5, <3>1, <3>2, QueueingSteps
  <2>6. CASE UNCHANGED queue
    <3>1. UNCHANGED <<queue, hand, mails>> /\ TracesMove({})
      BY <2>1, <2>3, <2>6
    <3> QED BY <2>3, <3>1, QuietSteps
  <2> QED BY <2>4, <2>5, <2>6
<1>8. CASE Preferences
  BY <1>3, <1>8 DEF Preferences, Touch, SetChannelEnabled, SetTopicSubscription, Unsubscribe
<1>9. CASE Emit
  <2>1. PICK m \in Emission : EmitReadsSubscriber(m) \/ EmitReadsTopic(m) \/ EmitWrites(m) \/ EmitFails(m)
    BY <1>9 DEF Emit
  <2>2. CASE EmitReadsSubscriber(m)
    BY <1>3, <2>2 DEF EmitReadsSubscriber
  <2>3. CASE EmitReadsTopic(m)
    BY <1>3, <2>3 DEF EmitReadsTopic
  <2> QED BY <1>4, <1>5, <2>1, <2>2, <2>3
<1>10. CASE Mailbox
  BY <1>6, <1>7, <1>10 DEF Mailbox
<1> QED BY <1>8, <1>9, <1>10

LEMMA OwnMailsKeep ==
  ASSUME RelayInv, UNCHANGED relayVars, EnqueueGovernanceMail \/ EnqueueCode
  PROVE  RelayInv'
<1>1. StoryInv /\ request' = request
  BY DEF RelayInv, relayVars
<1>2. UNCHANGED <<mailbox, inbox, hand, lapses, mails>>
  BY DEF EnqueueGovernanceMail, EnqueueCode
<1>3. CountsMove /\ lapses' = lapses /\ (\A E : TracesMove(E)) /\ UNCHANGED <<hand, mails>>
  BY <1>1, <1>2, LeftAlone
<1>4. "armed" \in Payload \ {"unrenderable"}
  BY DEF Payload
<1>5. CASE EnqueueGovernanceMail
  <2>1. Enqueue("governance", "armed", [key |-> "own"]) /\ TracesMove({[key |-> "own"]})
    BY <1>3, <1>5 DEF EnqueueGovernanceMail
  <2>2. "governance" \in Kind /\ [key |-> "own"] \in Tag /\ "governance" # "notification"
    BY DEF Kind, Tag
  <2> QED BY <1>3, <1>4, <2>1, <2>2, QueueingSteps
<1>6. CASE EnqueueCode
  <2>1. Enqueue("email_code", "armed", Unkeyed) /\ TracesMove({Unkeyed})
    BY <1>3, <1>6 DEF EnqueueCode
  <2>2. "email_code" \in Kind /\ Unkeyed \in Tag /\ "email_code" # "notification"
    BY DEF Kind, Tag
  <2> QED BY <1>3, <1>4, <2>1, <2>2, QueueingSteps
<1> QED BY <1>5, <1>6

(* Steps of the dispatchers. *)
LEMMA ClaimsKeep ==
  ASSUME RelayInv, UNCHANGED relayVars, NEW w \in Worker, Claim(w)
  PROVE  RelayInv'
<1>1. StoryInv /\ DebtsArePaid /\ QueueTyped /\ RowsAreSound /\ JobsAreOfRows /\ request' = request
  BY DEF RelayInv, StoryInv, relayVars
<1>2. PICK S \in SUBSET DueRows : queue' = Claimed(S, FALSE) /\ hand' = [hand EXCEPT ![w] = Jobs(S)]
  BY DEF Claim
<1>3. UNCHANGED <<mailbox, inbox, mails>> /\ lapses' \in Nat
  BY <1>1 DEF Claim, people, QueueTyped, MaySend
<1>4. CountsMove /\ TracesMove({})
  BY <1>1, <1>3, LeftAlone DEF CountsMove, mails, QueueTyped
<1>5. \A r \in S : r \in Row /\ Present(r) /\ queue[r] \in Job
  BY <1>1 DEF DueRows, Absent, Present, QueueTyped
<1>6. JobsMove
  <2>1. \A r \in S : Renderable(r) \in BOOLEAN
    <3> SUFFICES ASSUME NEW r \in S PROVE Renderable(r) \in BOOLEAN
      OBVIOUS
    <3>1. queue[r].kind \in Kind
      BY <1>5, JobRecords
    <3>2. mailbox.token \in BOOLEAN
      BY <1>1 DEF QueueTyped, Address
    <3> QED BY <3>1, <3>2 DEF Renderable, Kind
  <2>2. Jobs(S) \in SUBSET [row : Row, renderable : BOOLEAN]
    BY <1>5, <2>1 DEF Jobs
  <2>3. \A j, k \in Jobs(S) : Present(j.row) /\ (j.row = k.row => j = k)
    BY <1>5 DEF Jobs
  <2>4. hand'[w] = Jobs(S) /\ \A v \in Worker \ {w} : hand'[v] = hand[v]
    BY <1>1, <1>2 DEF QueueTyped
  <2>5. hand' \in [Worker -> SUBSET [row : Row, renderable : BOOLEAN]]
    BY <1>1, <1>2, <2>2 DEF QueueTyped
  <2>6. \A v \in Worker : \A j, k \in hand'[v] : Present(j.row) /\ (j.row = k.row => j = k)
    BY <1>1, <2>3, <2>4 DEF JobsAreOfRows
  <2>7. mailed' \subseteq Row /\ \A r \in mailed' : Present(r)
    BY <1>1, <1>3 DEF mails, QueueTyped, JobsAreOfRows
  <2> QED BY <2>5, <2>6, <2>7 DEF JobsMove
<1>7. QueueMoves
  <2>1. ASSUME NEW r \in Row
        PROVE  queue'[r] \in {Absent} \union Job /\ RowMoves(r)
    <3>1. CASE r \in S
      <4>1. PICK j \in Job : queue[r] = j /\ Present(r)
        BY <1>5, <3>1
      <4>2. j.payload # "unrenderable" /\ (j.state \in {"sent", "failed"} => j.payload # "armed")
        BY <1>1, <4>1 DEF RowsAreSound
      <4> DEFINE n == [j EXCEPT !.attempts = j.attempts + 1, !.due = FALSE]
      <4>3. n \in Job /\ n.kind = j.kind /\ n.mail = j.mail /\ n.payload = j.payload /\ n.state = j.state
        <5>1. j.attempts + 1 \in Nat
          BY JobRecords
        <5> QED BY <5>1 DEF Job
      <4>4. queue'[r] = n
        BY <1>2, <3>1, <4>1 DEF Claimed
      <4> HIDE DEF n
      <4> QED BY <4>1, <4>2, <4>3, <4>4 DEF RowMoves
    <3>2. CASE r \notin S
      BY <1>1, <1>2, <3>2 DEF Claimed, RowMoves, QueueTyped
    <3> QED BY <3>1, <3>2
  <2>2. queue' = [r \in Row |-> queue'[r]]
    BY <1>2 DEF Claimed
  <2> QED BY <2>1, <2>2 DEF QueueMoves
<1>8. StoryInv'
  BY <1>1, <1>4, <1>6, <1>7, StoryMoves
<1>9. DebtsArePaid'
  BY <1>1, <1>3, ClaimsTakeTurns
<1> QED BY <1>8, <1>9 DEF RelayInv

(* Hands only lose jobs, and only rows in a hand are mailed. *)
LEMMA HandsLose ==
  ASSUME StoryInv, hand' \in [Worker -> SUBSET [row : Row, renderable : BOOLEAN]],
         \A v \in Worker : hand'[v] \subseteq hand[v],
         \A r \in mailed' : r \in mailed \/ (r \in Row /\ Present(r))
  PROVE  JobsMove
BY DEF StoryInv, QueueTyped, JobsAreOfRows, JobsMove

LEMMA WorkKeeps ==
  ASSUME RelayInv, UNCHANGED relayVars, NEW w \in Worker, Work(w)
  PROVE  RelayInv'
<1>1. StoryInv /\ DebtsArePaid /\ QueueTyped /\ RowsAreSound /\ JobsAreOfRows /\ request' = request
      /\ lapses \in Nat /\ repeats \in Nat
  BY DEF RelayInv, StoryInv, relayVars, QueueTyped
<1>2. PICK j \in hand[w] : Sent(w, j) \/ SentUnrecorded(w, j) \/ SendFails(w, j) \/ Park(w, j)
  BY DEF Work
<1>3. Drop(w, j) /\ UNCHANGED <<mailbox, inbox>>
  BY <1>2 DEF Sent, SentUnrecorded, SendFails, Park, people
<1>4. /\ j.row \in Row /\ Present(j.row)
      /\ hand' \in [Worker -> SUBSET [row : Row, renderable : BOOLEAN]]
      /\ \A v \in Worker : hand'[v] \subseteq hand[v]
  BY <1>1, <1>3, DropReleases
<1>5. /\ \A r \in mailed' : r \in mailed \/ (r \in Row /\ Present(r))
      /\ repeats' \in Nat /\ lapses' \in Nat
  BY <1>1, <1>2, <1>4 DEF Sent, SentUnrecorded, SendFails, Park, Mailed, mails
<1>6. JobsMove
  BY <1>1, <1>4, <1>5, HandsLose
<1>7. CountsMove /\ TracesMove({})
  <2>1. TracesMove({})
    BY <1>1, <1>3, LeftAlone
  <2>2. CountsMove
    BY <1>1, <1>3, <1>5 DEF CountsMove, QueueTyped
  <2> QED BY <2>1, <2>2
<1>8. QueueMoves
  <2>1. CASE Sent(w, j)
    BY <1>1, <1>4, <2>1, 0 \in Nat, MarkingMoves DEF Sent
  <2>2. CASE SentUnrecorded(w, j)
    BY <1>1, <2>2, LeftAlone DEF SentUnrecorded
  <2>3. CASE SendFails(w, j)
    BY <1>1, <1>4, <2>3, LimitsAssumption, MarkingMoves DEF SendFails
  <2>4. CASE Park(w, j)
    BY <1>1, <1>4, <2>4, 0 \in Nat, MarkingMoves DEF Park
  <2> QED BY <1>2, <2>1, <2>2, <2>3, <2>4
<1>9. StoryInv'
  BY <1>1, <1>6, <1>7, <1>8, StoryMoves
<1>10. DebtsArePaid'
  <2>1. CASE Sent(w, j)
    BY <1>1, <2>1, SentPays
  <2>2. CASE SentUnrecorded(w, j)
    BY <1>1, <2>2, UnrecordedIsPaid
  <2>3. CASE SendFails(w, j)
    <3>1. queue' = MarkedFailed(j.row, MaxAttempts) /\ UNCHANGED <<lapses, mails>> /\ MaxAttempts \in Nat
      BY <2>3, LimitsAssumption DEF SendFails
    <3> QED BY <1>1, <1>3, <3>1, FailingIsFree
  <2>4. CASE Park(w, j)
    <3>1. queue' = MarkedFailed(j.row, 0) /\ UNCHANGED <<lapses, mails>> /\ 0 \in Nat
      BY <2>4 DEF Park
    <3> QED BY <1>1, <1>3, <3>1, FailingIsFree
  <2> QED BY <1>2, <2>1, <2>2, <2>3, <2>4
<1> QED BY <1>9, <1>10 DEF RelayInv

LEMMA TimeKeeps ==
  ASSUME RelayInv, UNCHANGED relayVars,
         (\E w \in Worker : Crash(w)) \/ (\E r \in Row : ComesDue(r)) \/ WindowRolls
  PROVE  RelayInv'
<1>1. StoryInv /\ DebtsArePaid /\ QueueTyped /\ RowsAreSound /\ JobsAreOfRows /\ request' = request
      /\ lapses \in Nat /\ repeats \in Nat
  BY DEF RelayInv, StoryInv, relayVars, QueueTyped
<1>2. UNCHANGED <<mailbox, inbox, mails>> /\ lapses' \in Nat
  BY <1>1 DEF Crash, ComesDue, WindowRolls, people
<1>3. CountsMove /\ TracesMove({})
  <2>1. TracesMove({})
    BY <1>1, <1>2, LeftAlone
  <2>2. CountsMove
    BY <1>1, <1>2 DEF CountsMove, QueueTyped, mails
  <2> QED BY <2>1, <2>2
<1>4. ASSUME NEW w \in Worker, Crash(w) PROVE RelayInv'
  <2>1. hand' = [hand EXCEPT ![w] = {}] /\ mailed' = mailed /\ queue' = queue
    BY <1>4 DEF Crash, mails
  <2>2. /\ hand' \in [Worker -> SUBSET [row : Row, renderable : BOOLEAN]]
        /\ \A v \in Worker : hand'[v] \subseteq hand[v]
    BY <1>1, <2>1 DEF QueueTyped
  <2>3. \A r \in mailed' : r \in mailed \/ (r \in Row /\ Present(r))
    BY <2>1
  <2>4. JobsMove /\ QueueMoves
    BY <1>1, <2>1, <2>2, <2>3, HandsLose, LeftAlone
  <2>5. StoryInv'
    BY <1>1, <1>3, <2>4, StoryMoves
  <2>6. DebtsArePaid'
    BY <1>1, <1>4, CrashesAreFree
  <2> QED BY <2>5, <2>6 DEF RelayInv
<1>5. ASSUME NEW r \in Row, ComesDue(r) PROVE RelayInv'
  <2>1. UNCHANGED <<hand, mails>> /\ queue' = [queue EXCEPT ![r].due = TRUE] /\ queue[r].state = "pending"
    BY <1>5 DEF ComesDue
  <2>2. Present(r)
    BY <2>1 DEF Present, Absent
  <2>3. JobsMove /\ QueueMoves
    BY <1>1, <2>1, <2>2, 0 \in Nat, LeftAlone, MarkingMoves
  <2>4. StoryInv'
    BY <1>1, <1>3, <2>3, StoryMoves
  <2>5. DebtsArePaid'
    BY <1>1, <1>5, LeasesArePaid
  <2> QED BY <2>4, <2>5 DEF RelayInv
<1>6. ASSUME WindowRolls PROVE RelayInv'
  <2>1. UNCHANGED <<queue, hand, mails>> /\ lapses <= lapses'
    BY <1>1, <1>6 DEF WindowRolls
  <2> QED BY <1>3, <2>1, QuietSteps
<1> QED BY <1>4, <1>5, <1>6

(* Steps of the relay. *)
LEMMA RelayKeeps ==
  ASSUME RelayInv, NEW q \in Request, Relay(q)
  PROVE  RelayInv'
<1>1. StoryInv /\ QueueTyped /\ lapses \in Nat /\ repeats \in Nat /\ mailbox \in Address
      /\ request \in [Request -> Relayed]
  BY DEF RelayInv, StoryInv, QueueTyped
<1>2. UNCHANGED <<mailbox, hand, mails>>
  BY DEF Relay, Receive, ReadRecipient, EnqueueMail, Record, RelayFails, people, deliveryVars
<1>3. [step |-> "idle"] \in Relayed
  BY DEF Relayed
(* A request that goes on to what it may go on to. *)
<1>4. ASSUME NEW to \in Relayed, Goes(q, to), NEW E,
             to.step = "answering" => IsQueued(to.entry) \/ to.entry \in E,
             inbox \subseteq inbox', \A e \in inbox' : e \in inbox \/ e = Key \/ IsQueued(e) \/ e \in E
      PROVE  TracesMove(E)
  <2>1. request' = [request EXCEPT ![q] = to]
    BY <1>4 DEF Goes
  <2>2. request' \in [Request -> Relayed] /\ request'[q] = to /\ \A p \in Request \ {q} : request'[p] = request[p]
    BY <1>1, <2>1
  <2>3. \A p \in Request : request'[p].step = "answering" => IsQueued(request'[p].entry) \/ request'[p].entry \in E
    BY <1>1, <1>4, <2>2 DEF StoryInv, TracesAreOfMails
  <2> QED BY <1>4, <2>2, <2>3 DEF TracesMove
<1>5. CASE Receive(q)
  <2>1. PICK u \in Recipient, subject \in Recipient, k \in DedupeKey, m \in Mail :
          Goes(q, [step |-> "asked", to |-> u, subject |-> subject, key |-> k, mail |-> m])
    BY <1>5 DEF Receive
  <2> DEFINE to == [step |-> "asked", to |-> u, subject |-> subject, key |-> k, mail |-> m]
  <2>2. to \in Relayed /\ to.step = "asked" /\ Goes(q, to)
    BY <2>1 DEF Relayed
  <2> HIDE DEF to
  <2>3. UNCHANGED <<queue, hand, mails>> /\ lapses' = lapses /\ inbox' = inbox
    BY <1>5 DEF Receive
  <2>4. TracesMove({})
    BY <1>4, <2>2, <2>3
  <2>5. CountsMove /\ lapses <= lapses'
    BY <1>1, <1>2, <2>3, LeftAlone
  <2>6. UNCHANGED <<queue, hand, mails>>
    BY <2>3
  <2> QED BY <2>4, <2>5, <2>6, QuietSteps
<1>6. CASE ReadRecipient(q)
  <2>1. UNCHANGED <<queue, hand, mails>> /\ lapses' = lapses /\ inbox' = inbox
    BY <1>6 DEF ReadRecipient, deliveryVars
  <2>2. PICK d \in Relayed : request[q] = d /\ d.step = "asked"
    BY <1>1, <1>6 DEF ReadRecipient
  <2>3. d.to \in Recipient /\ d.key \in DedupeKey /\ d.mail \in Mail
    BY <2>2, StepsOfRelay
  <2>4. MailKind[d.mail.kind].traced \in BOOLEAN
    <3>1. d.mail.kind \in DOMAIN MailKind
      BY <2>3, MailsRender
    <3>2. \A k \in DOMAIN MailKind : MailKind[k].traced \in BOOLEAN
      <4>1. /\ PayoutApproval.traced \in BOOLEAN /\ PaymentApproval.traced \in BOOLEAN
            /\ FeePolicyApproval.traced \in BOOLEAN /\ PayoutOutcome.traced \in BOOLEAN
            /\ PaymentConsent.traced \in BOOLEAN /\ FeePolicyNotice.traced \in BOOLEAN
            /\ PaymentOutcome.traced \in BOOLEAN
        BY DEF PayoutApproval, PaymentApproval, FeePolicyApproval, PayoutOutcome, PaymentConsent, FeePolicyNotice,
               PaymentOutcome
      <4> QED BY <4>1 DEF MailKind
    <3> QED BY <3>1, <3>2
  <2> DEFINE on == [step |-> "admitted", to |-> d.to, key |-> d.key, mail |-> d.mail,
                    traced |-> MailKind[d.mail.kind].traced /\ d.to = d.subject]
  <2>5. Goes(q, on) \/ Goes(q, [step |-> "idle"])
    BY <1>6, <2>2 DEF ReadRecipient, Ends
  <2>6. on \in Relayed /\ on.step = "admitted"
    <3>1. (MailKind[d.mail.kind].traced /\ d.to = d.subject) \in BOOLEAN
      BY <2>4
    <3> QED BY <2>3, <3>1 DEF Relayed
  <2> HIDE DEF on
  <2>7. TracesMove({})
    <3>1. CASE Goes(q, on)
      BY <1>4, <2>1, <2>6, <3>1
    <3>2. CASE Goes(q, [step |-> "idle"])
      BY <1>3, <1>4, <2>1, <3>2
    <3> QED BY <2>5, <3>1, <3>2
  <2>8. CountsMove /\ lapses <= lapses'
    BY <1>1, <1>2, <2>1, LeftAlone
  <2>9. UNCHANGED <<queue, hand, mails>>
    BY <2>1
  <2> QED BY <2>7, <2>8, <2>9, QuietSteps
<1>7. CASE EnqueueMail(q)
  <2>1. UNCHANGED <<hand, mails>> /\ lapses' = lapses /\ inbox' = inbox
    BY <1>7 DEF EnqueueMail
  <2>2. PICK d \in Relayed : request[q] = d /\ d.step = "admitted"
    BY <1>1, <1>7 DEF EnqueueMail
  <2>3. d.to \in Recipient /\ d.key \in DedupeKey /\ d.mail \in Mail /\ d.traced \in BOOLEAN
    BY <2>2, StepsOfRelay
  <2>4. d.mail.payload \in {"armed", "plain"} /\ d.mail.kind \in DOMAIN MailKind
    BY <2>3, MailsRender
  <2>5. Entry(q) = [key |-> d.key, to |-> d.to, kind |-> d.mail.kind] /\ Entry(q) \in Note
    BY <2>2, <2>3, <2>4 DEF Entry, Note
  <2>6. PICK entry \in Note : entry = Entry(q)
    BY <2>5
  <2>7. ASSUME NEW new \in BOOLEAN, Answering(q, new)
        PROVE  \E to \in Relayed : to.step = "answering" /\ to.entry = entry /\ Goes(q, to)
    <3> DEFINE to == [step |-> "answering", to |-> d.to, traced |-> d.traced, entry |-> entry, new |-> new]
    <3>1. to \in Relayed /\ to.step = "answering" /\ to.entry = entry
      BY <2>3 DEF Relayed
    <3>2. Goes(q, to)
      BY <2>2, <2>6, <2>7 DEF Answering
    <3> QED BY <3>1, <3>2
  <2>8. CountsMove /\ lapses <= lapses'
    BY <1>1, <1>2, <2>1, LeftAlone
  <2>9. CASE Answering(q, TRUE) /\ Enqueue("governance", request[q].mail.payload, Entry(q))
    <3>1. Enqueue("governance", d.mail.payload, entry)
      BY <2>2, <2>6, <2>9
    <3>2. "governance" \in Kind /\ d.mail.payload \in Payload \ {"unrenderable"} /\ entry \in Tag
          /\ "governance" # "notification"
      BY <2>4, <2>6 DEF Kind, Payload, Tag
    <3>3. TracesMove({entry})
      <4>1. PICK to \in Relayed : to.step = "answering" /\ to.entry = entry /\ Goes(q, to)
        BY <2>7, <2>9
      <4>2. to.step = "answering" => IsQueued(to.entry) \/ to.entry \in {entry}
        BY <4>1
      <4> QED BY <1>4, <2>1, <4>1, <4>2
    <3> QED BY <2>1, <2>8, <3>1, <3>2, <3>3, QueueingSteps
  <2>10. CASE (\E r \in Taken(q) : queue[r].mail = Entry(q)) /\ UNCHANGED queue /\ Answering(q, FALSE)
    <3>1. IsQueued(entry)
      BY <2>6, <2>10 DEF IsQueued, Taken, Present
    <3>2. TracesMove({})
      <4>1. PICK to \in Relayed : to.step = "answering" /\ to.entry = entry /\ Goes(q, to)
        BY <2>7, <2>10
      <4>2. to.step = "answering" => IsQueued(to.entry) \/ to.entry \in {}
        BY <3>1, <4>1
      <4> QED BY <1>4, <2>1, <4>1, <4>2
    <3>3. UNCHANGED <<queue, hand, mails>>
      BY <2>1, <2>10
    <3> QED BY <2>8, <3>2, <3>3, QuietSteps
  <2>11. CASE UNCHANGED queue /\ Ends(q)
    <3>1. TracesMove({})
      BY <1>3, <1>4, <2>1, <2>11 DEF Ends
    <3>2. UNCHANGED <<queue, hand, mails>>
      BY <2>1, <2>11
    <3> QED BY <2>8, <3>1, <3>2, QuietSteps
  <2> QED BY <1>7, <2>9, <2>10, <2>11 DEF EnqueueMail
<1>8. CASE Record(q)
  <2>1. UNCHANGED <<queue, hand, mails>> /\ Goes(q, [step |-> "idle"])
    BY <1>8 DEF Record, Ends
  <2>2. request[q].step = "answering" /\ IsQueued(request[q].entry)
    BY <1>1, <1>8 DEF Record, StoryInv, TracesAreOfMails
  <2>3. PICK entry : entry = request[q].entry /\ IsQueued(entry)
    BY <2>2
  <2>4. /\ inbox \subseteq inbox' /\ \A e \in inbox' : e \in inbox \/ e = Key \/ IsQueued(e) \/ e \in {}
        /\ lapses' \in Nat /\ lapses <= lapses'
    BY <1>1, <1>8, <2>3 DEF Record
  <2>5. TracesMove({})
    BY <1>3, <1>4, <2>1, <2>4
  <2>6. CountsMove
    BY <1>1, <1>2, <2>4 DEF CountsMove, mails
  <2>7. UNCHANGED <<queue, hand, mails>> /\ lapses <= lapses'
    BY <2>1, <2>4
  <2> QED BY <2>5, <2>6, <2>7, QuietSteps
<1>9. CASE RelayFails(q)
  <2>1. UNCHANGED <<queue, hand, mails>> /\ inbox' = inbox /\ lapses' = lapses + 1 /\ Goes(q, [step |-> "idle"])
    BY <1>9 DEF RelayFails, Ends, people
  <2>2. TracesMove({})
    BY <1>3, <1>4, <2>1
  <2>3. CountsMove /\ lapses <= lapses'
    BY <1>1, <1>2, <2>1 DEF CountsMove, mails
  <2>4. UNCHANGED <<queue, hand, mails>>
    BY <2>1
  <2> QED BY <2>2, <2>3, <2>4, QuietSteps
<1> QED BY <1>5, <1>6, <1>7, <1>8, <1>9 DEF Relay

LEMMA RelayInvInit == RelayInit => RelayInv
<1> SUFFICES ASSUME RelayInit PROVE RelayInv
  OBVIOUS
<1>1. /\ queue = [r \in Row |-> Absent] /\ hand = [w \in Worker |-> {}] /\ mailed = {} /\ repeats = 0 /\ lapses = 0
      /\ inbox = {} /\ request = [q \in Request |-> [step |-> "idle"]] /\ mailbox \in Address
  BY DEF RelayInit, DeliveryInit, Address
<1>2. \A r \in Row : ~Present(r)
  BY <1>1 DEF Present
<1>3. QueueTyped
  BY <1>1 DEF QueueTyped, Relayed
<1>4. StoryInv
  BY <1>1, <1>2, <1>3 DEF StoryInv, RowsAreSound, EmitsAreIdempotent, IsCopy, Present, TracesAreOfMails, JobsAreOfRows
<1>5. DebtsArePaid
  <2>1. \A r \in Row : Holding(r) = {} /\ ~Ready(r) /\ IsFiniteSet(Holding(r))
    BY <1>1, <1>2, FS_EmptySet DEF Holding, Ready
  <2>2. \A r \in Row : Debt(r) = 0
    BY <2>1, FS_EmptySet DEF Debt, Turns
  <2>3. Units(Debts) = {}
    <3> SUFFICES ASSUME NEW x \in Units(Debts) PROVE FALSE
      OBVIOUS
    <3>1. x[1] \in Row /\ x[2] \in Nat \ {0} /\ x[2] <= Debts[x[1]]
      BY DEF Units
    <3>2. Debts[x[1]] = 0
      BY <2>2, <3>1 DEF Debts
    <3> QED BY <3>1, <3>2
  <2> QED BY <1>1, <2>1, <2>3, FS_EmptySet DEF DebtsArePaid
<1> QED BY <1>4, <1>5 DEF RelayInv

LEMMA RelayInvNext == RelayInv /\ [RelayNext]_<<deliveryVars, relayVars>> => RelayInv'
<1> SUFFICES ASSUME RelayInv, [RelayNext]_<<deliveryVars, relayVars>> PROVE RelayInv'
  OBVIOUS
<1>1. CASE UNCHANGED <<deliveryVars, relayVars>>
  <2>1. StoryInv /\ lapses \in Nat /\ UNCHANGED <<queue, hand, mails, mailbox, lapses, inbox, request>>
    BY <1>1 DEF RelayInv, StoryInv, QueueTyped, deliveryVars, relayVars
  <2>2. CountsMove /\ TracesMove({}) /\ lapses <= lapses' /\ UNCHANGED <<queue, hand, mails>>
    BY <2>1, LeftAlone
  <2> QED BY <2>2, QuietSteps
<1>2. CASE DeliveryNext /\ UNCHANGED relayVars
  BY <1>2, PeopleKeep, OwnMailsKeep, ClaimsKeep, WorkKeeps, TimeKeeps DEF DeliveryNext
<1>3. CASE \E q \in Request : Relay(q)
  BY <1>3, RelayKeeps
<1> QED BY <1>1, <1>2, <1>3 DEF RelayNext

(***************************************************************************)
(* Everything of the queue at once, for any rows, dispatchers, emits,      *)
(* requests and bounds.                                                    *)
(***************************************************************************)
THEOREM RelayInvariance == RelaySpec => []RelayInv
BY RelayInvInit, RelayInvNext, PTL DEF RelaySpec

(***************************************************************************)
(* InboxAndQueueAgree: however often an event is emitted it queues one     *)
(* mail, beside its inbox row, and a trace in an inbox has its mail.       *)
(***************************************************************************)
THEOREM OneStory == RelaySpec => []InboxAndQueueAgree
<1>1. RelayInv => InboxAndQueueAgree
  BY DEF RelayInv, StoryInv, TracesAreOfMails, IsQueued, Present, InboxAndQueueAgree
<1> QED BY <1>1, RelayInvariance, PTL

(***************************************************************************)
(* AcceptedMailsRender: for every kind, every choice of the fields that    *)
(* came filled, and whatever became of the row since.                      *)
(***************************************************************************)
THEOREM AcceptedRenders == RelaySpec => []AcceptedMailsRender
<1>1. RelayInv => AcceptedMailsRender
  BY DEF RelayInv, StoryInv, RowsAreSound, Present, AcceptedMailsRender
<1> QED BY <1>1, RelayInvariance, PTL

(***************************************************************************)
(* RepeatsArePaidFor, for any number of dispatchers on any rows: no mail   *)
(* is sent again but for a lease that ended, a death, or a lost outcome.   *)
(***************************************************************************)
THEOREM RepeatsArePaid == RelaySpec => []RepeatsArePaidFor
<1>1. RelayInv => RepeatsArePaidFor
  <2> SUFFICES ASSUME RelayInv PROVE RepeatsArePaidFor
    OBVIOUS
  <2>1. Cardinality(Units(Debts)) \in Nat /\ repeats + Cardinality(Units(Debts)) <= lapses
    BY FS_CardinalityType DEF RelayInv, DebtsArePaid
  <2>2. repeats \in Nat /\ lapses \in Nat
    BY DEF RelayInv, StoryInv, QueueTyped
  <2> QED BY <2>1, <2>2 DEF RepeatsArePaidFor
<1> QED BY <1>1, RelayInvariance, PTL

(***************************************************************************)
(* SecretsEndWithTheirMail, whoever records the outcomes and in whatever   *)
(* order.                                                                  *)
(***************************************************************************)
THEOREM SecretsEnd == RelaySpec => []SecretsEndWithTheirMail
<1>1. RelayInv => SecretsEndWithTheirMail
  BY DEF RelayInv, StoryInv, RowsAreSound, Present, SecretsEndWithTheirMail
<1> QED BY <1>1, RelayInvariance, PTL

(***************************************************************************)
(* How often a mail is tried                                               *)
(***************************************************************************)

(* A row that may be claimed has a turn left, and each turn past the last one is a lapse's. *)
Tries(r) ==
  Present(r) =>
    /\ queue[r].attempts <= MaxAttempts + lapses
    /\ Ready(r) => queue[r].attempts < MaxAttempts + lapses
TriesArePaidFor == \A r \in Row : Tries(r)

(* Only the dispatchers and the end of a pause touch a row that is queued. *)
LEMMA WhoMovesTheQueue ==
  ASSUME lapses \in Nat, [RelayNext]_<<deliveryVars, relayVars>>
  PROVE  \/ UNCHANGED <<queue, hand>> /\ lapses <= lapses'
         \/ (\E kind, payload, mail : Enqueue(kind, payload, mail)) /\ UNCHANGED <<hand, lapses>>
         \/ \E w \in Worker : Claim(w) \/ Work(w) \/ Crash(w)
         \/ \E r \in Row : ComesDue(r)
<1>1. CASE Preferences
  BY <1>1 DEF Preferences, Touch, SetChannelEnabled, SetTopicSubscription, Unsubscribe
<1>2. CASE Emit
  <2>1. PICK m \in Emission : EmitReadsSubscriber(m) \/ EmitReadsTopic(m) \/ EmitWrites(m) \/ EmitFails(m)
    BY <1>2 DEF Emit
  <2>2. CASE EmitWrites(m)
    BY <2>2 DEF EmitWrites
  <2>3. CASE EmitReadsSubscriber(m) \/ EmitReadsTopic(m) \/ EmitFails(m)
    BY <2>3 DEF EmitReadsSubscriber, EmitReadsTopic, EmitFails
  <2> QED BY <2>1, <2>2, <2>3
<1>3. CASE EnqueueGovernanceMail \/ EnqueueCode
  BY <1>3 DEF EnqueueGovernanceMail, EnqueueCode
<1>4. CASE Mailbox
  BY <1>4 DEF Mailbox, SubscribeAnonymous, Confirm, ThrottlePasses
<1>5. CASE WindowRolls
  BY <1>5 DEF WindowRolls
<1>6. ASSUME NEW q \in Request, Relay(q)
      PROVE  \/ UNCHANGED <<queue, hand>> /\ lapses <= lapses'
             \/ (\E kind, payload, mail : Enqueue(kind, payload, mail)) /\ UNCHANGED <<hand, lapses>>
  <2>1. CASE Receive(q)
    BY <2>1 DEF Receive
  <2>2. CASE ReadRecipient(q)
    BY <2>2 DEF ReadRecipient, deliveryVars
  <2>3. CASE EnqueueMail(q)
    <3>1. UNCHANGED <<hand, lapses>>
      BY <2>3 DEF EnqueueMail
    <3>2. CASE Enqueue("governance", request[q].mail.payload, Entry(q))
      BY <3>1, <3>2
    <3>3. CASE UNCHANGED queue
      BY <3>1, <3>3
    <3> QED BY <2>3, <3>2, <3>3 DEF EnqueueMail
  <2>4. CASE Record(q)
    BY <2>4 DEF Record
  <2>5. CASE RelayFails(q)
    BY <2>5 DEF RelayFails
  <2> QED BY <1>6, <2>1, <2>2, <2>3, <2>4, <2>5 DEF Relay
<1>7. CASE UNCHANGED <<deliveryVars, relayVars>>
  BY <1>7 DEF deliveryVars
<1> QED BY <1>1, <1>2, <1>3, <1>4, <1>5, <1>6, <1>7 DEF RelayNext, DeliveryNext

LEMMA TriesFollow ==
  ASSUME QueueTyped, QueueTyped', NEW r \in Row, Tries(r), lapses <= lapses',
         \/ queue'[r] = Absent
         \/ ~Present(r) /\ queue'[r].attempts = 0
         \/ Ready(r) /\ queue'[r].attempts = queue[r].attempts + 1 /\ ~Ready(r)'
         \/ /\ Present(r) /\ queue'[r].attempts = queue[r].attempts
            /\ Ready(r)' => Ready(r) \/ queue[r].attempts < MaxAttempts \/ lapses < lapses'
  PROVE  Tries(r)'
<1> SUFFICES ASSUME Present(r)'
             PROVE  /\ queue'[r].attempts <= MaxAttempts + lapses'
                    /\ Ready(r)' => queue'[r].attempts < MaxAttempts + lapses'
  BY DEF Tries
<1>1. MaxAttempts \in Nat \ {0} /\ lapses \in Nat /\ lapses' \in Nat
  BY LimitsAssumption DEF QueueTyped
<1>2. queue'[r].attempts \in Nat
  BY JobRecords DEF QueueTyped, Present
<1>3. Present(r) => queue[r].attempts \in Nat
  BY JobRecords DEF QueueTyped, Present
<1>4. Ready(r) => Present(r)
  BY DEF Ready
<1>5. queue'[r] # Absent
  BY DEF Present
<1> QED BY <1>1, <1>2, <1>3, <1>4, <1>5 DEF Tries

LEMMA TriesKeep ==
  ASSUME RelayInv, RelayInv', TriesArePaidFor, [RelayNext]_<<deliveryVars, relayVars>>
  PROVE  TriesArePaidFor'
<1>1. QueueTyped /\ QueueTyped' /\ JobsAreOfRows /\ DebtsArePaid /\ lapses \in Nat /\ lapses' \in Nat
  BY DEF RelayInv, StoryInv, QueueTyped
<1>2. ASSUME NEW r \in Row, lapses <= lapses', queue'[r] = queue[r],
             Ready(r)' => Ready(r) \/ lapses < lapses'
      PROVE  Tries(r)'
  <2>1. queue'[r] = Absent \/ Present(r)
    BY <1>2 DEF Present
  <2> QED BY <1>1, <1>2, <2>1, TriesFollow DEF TriesArePaidFor
<1>3. CASE UNCHANGED <<queue, hand>> /\ lapses <= lapses'
  <2>1. \A r \in Row : Ready(r)' = Ready(r)
    BY <1>3 DEF Ready, Present, Holding
  <2> QED BY <1>2, <1>3, <2>1 DEF TriesArePaidFor
<1>4. ASSUME NEW kind, NEW payload, NEW mail, Enqueue(kind, payload, mail), UNCHANGED <<hand, lapses>>
      PROVE  TriesArePaidFor'
  <2>1. PICK b \in Row : queue[b] = Absent /\ queue' = [queue EXCEPT ![b] = Queued(kind, payload, mail)]
    BY <1>4 DEF Enqueue
  <2>2. Queued(kind, payload, mail).attempts = 0
    BY DEF Queued
  <2>3. queue'[b].attempts = 0 /\ ~Present(b) /\ \A r \in Row \ {b} : queue'[r] = queue[r]
    BY <1>1, <2>1, <2>2 DEF QueueTyped, Present
  <2>4. \A r \in Row \ {b} : Ready(r)' = Ready(r)
    BY <1>4, <2>3 DEF Ready, Present, Holding
  <2>5. lapses <= lapses'
    BY <1>1, <1>4
  <2>6. Tries(b)'
    BY <1>1, <2>3, <2>5, TriesFollow DEF TriesArePaidFor
  <2>7. \A r \in Row \ {b} : Tries(r)'
    BY <1>2, <2>3, <2>4, <2>5
  <2> QED BY <2>6, <2>7 DEF TriesArePaidFor
<1>5. ASSUME NEW w \in Worker, Claim(w) PROVE TriesArePaidFor'
  <2>1. PICK S \in SUBSET DueRows : queue' = Claimed(S, FALSE) /\ hand' = [hand EXCEPT ![w] = Jobs(S)]
    BY <1>5 DEF Claim
  <2>2. lapses <= lapses' /\ hand[w] = {}
    BY <1>1, <1>5 DEF Claim, MaySend
  <2>3. hand'[w] = Jobs(S) /\ \A v \in Worker \ {w} : hand'[v] = hand[v]
    BY <1>1, <2>1 DEF QueueTyped
  <2>4. ASSUME NEW r \in S PROVE r \in Row /\ Tries(r)'
    <3>1. r \in Row /\ Ready(r)
      BY DEF DueRows, Ready, Present, Absent
    <3>2. PICK j \in Job : queue[r] = j
      BY <1>1, <3>1 DEF QueueTyped, Ready, Present
    <3>3. queue'[r] = [j EXCEPT !.attempts = j.attempts + 1, !.due = FALSE]
      BY <2>1, <3>1, <3>2 DEF Claimed
    <3>4. queue'[r].attempts = queue[r].attempts + 1 /\ queue'[r].due = FALSE
      BY <3>2, <3>3 DEF Job
    <3>5. w \in Holding(r)'
      <4>1. [row |-> r, renderable |-> Renderable(r)] \in hand'[w]
        BY <2>3 DEF Jobs
      <4> QED BY <4>1 DEF Holding
    <3>6. ~Ready(r)'
      BY <3>4, <3>5 DEF Ready
    <3> QED BY <1>1, <2>2, <3>1, <3>4, <3>6, TriesFollow DEF TriesArePaidFor
  <2>5. ASSUME NEW r \in Row \ S PROVE Tries(r)'
    <3>1. queue'[r] = queue[r]
      BY <2>1 DEF Claimed
    <3>2. Holding(r)' = Holding(r)
      <4>1. \A j \in hand'[w] : j.row # r
        BY <2>3 DEF Jobs
      <4>2. \A v \in Worker : (\E j \in hand'[v] : j.row = r) <=> (\E j \in hand[v] : j.row = r)
        BY <2>2, <2>3, <4>1
      <4> QED BY <4>2 DEF Holding
    <3> QED BY <1>2, <2>2, <3>1, <3>2 DEF Ready, Present
  <2> QED BY <2>4, <2>5 DEF TriesArePaidFor
<1>6. ASSUME NEW w \in Worker, Work(w) PROVE TriesArePaidFor'
  <2>1. PICK j \in hand[w] : Sent(w, j) \/ SentUnrecorded(w, j) \/ SendFails(w, j) \/ Park(w, j)
    BY <1>6 DEF Work
  <2>2. Drop(w, j)
    BY <2>1 DEF Sent, SentUnrecorded, SendFails, Park
  <2>3. j.row \in Row /\ Present(j.row) /\ \A r \in Row \ {j.row} : Holding(r)' = Holding(r)
    BY <1>1, <2>2, DropReleases
  <2>4. PICK a \in Row : a = j.row /\ Present(a)
    BY <2>3
  <2>5. lapses <= lapses'
    BY <1>1, <2>1 DEF Sent, SentUnrecorded, SendFails, Park
  <2>6. PICK job \in Job : queue[a] = job /\ queue \in [Row -> {Absent} \union Job]
    BY <1>1, <2>4 DEF QueueTyped, Present
  <2>7. \A r \in Row \ {a} : queue'[r] = queue[r]
    BY <2>1, <2>4, <2>6 DEF Sent, SentUnrecorded, SendFails, Park, MarkedSent, MarkedFailed
  <2>8. \A r \in Row \ {a} : Tries(r)'
    <3>1. \A r \in Row \ {a} : Ready(r)' = Ready(r)
      BY <2>3, <2>4, <2>7 DEF Ready, Present
    <3> QED BY <1>2, <2>5, <2>7, <3>1
  <2>9. CASE Sent(w, j)
    <3>1. queue' = [queue EXCEPT ![a] = [job EXCEPT !.state = "sent", !.payload = "none"]]
      BY <2>4, <2>6, <2>9 DEF Sent, MarkedSent
    <3>2. queue'[a].attempts = queue[a].attempts /\ queue'[a].state = "sent"
      BY <2>6, <3>1 DEF Job
    <3> QED BY <1>1, <2>4, <2>5, <2>8, <3>2, TriesFollow DEF TriesArePaidFor, Ready
  <2>10. CASE SentUnrecorded(w, j)
    <3>1. queue' = queue /\ lapses' = lapses + 1
      BY <2>10 DEF SentUnrecorded
    <3>2. Tries(a)'
      BY <1>1, <1>2, <2>5, <3>1
    <3> QED BY <2>8, <3>2 DEF TriesArePaidFor
  <2>11. ASSUME NEW max \in {0, MaxAttempts}, queue' = MarkedFailed(a, max) PROVE TriesArePaidFor'
    <3>1. queue'[a].attempts = queue[a].attempts /\ queue'[a].state = IF job.attempts >= max THEN "failed" ELSE "pending"
      BY <2>6, <2>11 DEF MarkedFailed, Job
    <3>2. job.attempts \in Nat /\ max \in Nat /\ MaxAttempts \in Nat
      BY LimitsAssumption, JobRecords
    <3>3. queue'[a].state = "pending" => queue[a].attempts < MaxAttempts
      BY <2>6, <3>1, <3>2
    <3>4. Ready(a)' => queue[a].attempts < MaxAttempts
      BY <3>3 DEF Ready
    <3>5. Tries(a)'
      BY <1>1, <2>4, <2>5, <3>1, <3>4, TriesFollow DEF TriesArePaidFor
    <3> QED BY <2>8, <3>5 DEF TriesArePaidFor
  <2>12. CASE SendFails(w, j) \/ Park(w, j)
    BY <2>4, <2>11, <2>12 DEF SendFails, Park
  <2> QED BY <2>1, <2>9, <2>10, <2>12
<1>7. ASSUME NEW w \in Worker, Crash(w) PROVE TriesArePaidFor'
  <2>1. queue' = queue /\ lapses' = lapses + 1
    BY <1>7 DEF Crash
  <2>2. lapses < lapses'
    BY <1>1, <2>1
  <2> QED BY <1>1, <1>2, <2>1, <2>2 DEF TriesArePaidFor
<1>8. ASSUME NEW a \in Row, ComesDue(a) PROVE TriesArePaidFor'
  <2>1. /\ queue' = [queue EXCEPT ![a].due = TRUE] /\ hand' = hand
        /\ queue[a].state = "pending" /\ lapses' = IF Held(a) THEN lapses + 1 ELSE lapses
    BY <1>8 DEF ComesDue
  <2>2. Present(a)
    BY <2>1 DEF Present, Absent
  <2>3. PICK job \in Job : queue[a] = job /\ queue \in [Row -> {Absent} \union Job]
    BY <1>1, <2>2 DEF QueueTyped, Present
  <2>4. queue'[a] = [job EXCEPT !.due = TRUE] /\ \A r \in Row \ {a} : queue'[r] = queue[r]
    BY <2>1, <2>3
  <2>5. queue'[a].attempts = queue[a].attempts
    BY <2>3, <2>4 DEF Job
  <2>6. lapses <= lapses'
    BY <1>1, <2>1
  <2>7. Ready(a) \/ lapses < lapses'
    BY <1>1, <2>1, <2>2 DEF Ready, Held, Holding
  <2>8. Tries(a)'
    BY <1>1, <2>2, <2>5, <2>6, <2>7, TriesFollow DEF TriesArePaidFor
  <2>9. \A r \in Row \ {a} : Ready(r)' = Ready(r)
    BY <2>1, <2>4 DEF Ready, Present, Holding
  <2>10. \A r \in Row \ {a} : Tries(r)'
    BY <1>2, <2>4, <2>6, <2>9
  <2> QED BY <2>8, <2>10 DEF TriesArePaidFor
<1> QED BY <1>1, <1>3, <1>4, <1>5, <1>6, <1>7, <1>8, WhoMovesTheQueue

(***************************************************************************)
(* A mail gets MaxAttempts turns, and one more only for each lease that    *)
(* ended under a dispatcher, death or outcome that was lost, however many  *)
(* dispatchers share the queue (notifications.rs, claim_due and the marks  *)
(* of its outcomes): none is tried for ever.  With it, a mail that is      *)
(* never settled would need lapses that never end.                         *)
(***************************************************************************)
THEOREM TriesAreCapped == RelaySpec => [](\A r \in Row : queue[r] # Absent => queue[r].attempts <= MaxAttempts + lapses)
<1>1. RelayInit => TriesArePaidFor
  <2> SUFFICES ASSUME RelayInit PROVE TriesArePaidFor
    OBVIOUS
  <2>1. \A r \in Row : ~Present(r)
    BY DEF RelayInit, DeliveryInit, Present
  <2> QED BY <2>1 DEF TriesArePaidFor, Tries
<1>2. TriesArePaidFor => \A r \in Row : queue[r] # Absent => queue[r].attempts <= MaxAttempts + lapses
  BY DEF TriesArePaidFor, Tries, Present
<1>3. RelayInv /\ RelayInv' /\ TriesArePaidFor /\ [RelayNext]_<<deliveryVars, relayVars>> => TriesArePaidFor'
  BY TriesKeep
<1> QED BY <1>1, <1>2, <1>3, RelayInvariance, PTL DEF RelaySpec

=============================================================================
