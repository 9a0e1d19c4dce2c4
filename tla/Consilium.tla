----------------------------- MODULE Consilium -----------------------------
(***************************************************************************)
(* The owners' consilia: removal and admission of owners, and the          *)
(* proposals about a user (suspension, reinstatement, admin admission),    *)
(* as runner/src/infrastructure/governance.rs carries them out over the    *)
(* aggregates of domain/src/governance.rs.                                 *)
(*                                                                         *)
(* Every governance write first updates the single governance_revision     *)
(* row, so those transactions run one after another and each is one action *)
(* here; a refusal rolls everything back.  What is not covered by that     *)
(* lock is an action of its own: the caller's right to act is established  *)
(* by a gate that runs BEFORE the transaction (PassGate), and roles and    *)
(* suspensions also move by paths that never take it.  Time is one flag    *)
(* per proposal: its deadline has passed.                                  *)
(***************************************************************************)
EXTENDS Ballots

CONSTANTS
  User,         \* accounts
  Id,           \* proposal ids; an id is used once
  MinOwners,    \* owners that must remain after a removal (MIN_OWNERS)
  Kinds,        \* the kinds of proposal this instance opens
  Elevated,     \* accounts the OWNER_SUBJECTS list names by id
  Subjects,     \* bound: the accounts this instance opens proposals about
  Holdable,     \* bound: the accounts this instance lets operators hold
  MaxInFlight   \* bound: requests between the gate and their transaction

SeatKinds == {"removal", "admission"}
UserKinds == {"suspension", "reinstatement", "admin_admission"}

ASSUME KindsAssumption == Kinds \subseteq (SeatKinds \union UserKinds)
ASSUME FloorAssumption == MinOwners \in Nat \ {0}
ASSUME UsersFinite == IsFiniteSet(User)

VARIABLES
  role,       \* users.role; "investor" stands for every role below admin
  standing,   \* users.status with users.suspended_by
  proposal,   \* the proposal rows of the three tables, by id
  gate,       \* callers past require_permission whose write has not run yet
  sealed      \* this process's BreakGlass latch

vars == <<role, standing, proposal, gate, sealed>>

Role     == {"investor", "admin", "owner"}
Standing == {"active", "held", "suspended"}
Closed   == {"executed", "rejected", "expired", "cancelled", "void"}
Unused   == [state |-> "unused"]

Proposal ==
  [kind : SeatKinds \union UserKinds, subject : User, initiator : User,
   peers : SUBSET User, vote : [User -> Ballot], decision : Ballot,
   state : {"open"} \union Closed, due : BOOLEAN]

Owners == {u \in User : role[u] = "owner"}

(***************************************************************************)
(* Deciding                                                                *)
(***************************************************************************)

(* The ballot of proposal x counted over the voters S. *)
Tally(x, S) ==
  CASE x.kind = "removal"     -> RemovalOutcome(x.decision, S, x.vote)
    [] x.kind = "admission"   -> Unanimity(S, x.vote)
    [] OTHER                  -> Majority(S, x.vote)

(* Who is asked, fixed when the proposal opens. *)
PeersOf(kind, i, s) == IF kind = "removal" THEN Owners \ {i, s} ELSE Owners \ {i}

(* The floor, as one test so that opening, executing and resigning agree on it. *)
SeatCanBeSpared == Cardinality(Owners) - 1 >= MinOwners

(* The aggregates' own guards on opening a proposal about s. *)
MayOpenRemoval(i, s)   == i \in Owners /\ s # i /\ s \in Owners /\ SeatCanBeSpared
MayOpenAdmission(i, s) == i \in Owners /\ s # i /\ s \notin Owners /\ PeersOf("admission", i, s) # {}
MayOpenUserProposal(kind, i, s) == i \in Owners /\ s # i /\ PeersOf(kind, i, s) # {}

MayOpen(kind, i, s) ==
  CASE kind = "removal"   -> MayOpenRemoval(i, s)
    [] kind = "admission" -> MayOpenAdmission(i, s)
    [] OTHER              -> MayOpenUserProposal(kind, i, s)

(* What the tables' own CHECKs demand of a new row; owner_count is the roster's size. *)
RemovalRow(x)   == x.subject # x.initiator /\ Cardinality(Owners) > MinOwners
AdmissionRow(x) == x.subject # x.initiator /\ Cardinality(Owners) >= 2
UserProposalRow(x) ==
  /\ x.subject # x.initiator
  /\ NeededVotes(Cardinality(x.peers)) \in 1 .. Cardinality(Owners) - 1

(* Each table's unique index lets one proposal of a kind be open about one account. *)
OpenAbout(kind, s) ==
  {p \in Id : /\ proposal[p].state = "open"
              /\ proposal[p].kind = kind
              /\ proposal[p].subject = s}

(* Its deadline has passed and no write has found it yet. *)
Lapsed(p) == proposal[p].state = "open" /\ proposal[p].due

(* The state every reader is shown, which nothing has to have written. *)
Shown(p) == IF Lapsed(p) THEN "expired" ELSE proposal[p].state

NewProposal(kind, i, s) ==
  [kind |-> kind, subject |-> s, initiator |-> i, peers |-> PeersOf(kind, i, s),
   vote |-> [u \in User |-> "pending"], decision |-> "pending",
   state |-> "open", due |-> FALSE]

(* Mutant: only a sitting admin blocks an admin admission. *)
Inapplicable_OwnerOverlooked(x) ==
  \/ x.kind = "reinstatement"   /\ standing[x.subject] # "suspended"
  \/ x.kind = "admin_admission" /\ role[x.subject] = "admin"

(* A user verdict that no longer applies to the subject as they stand now. *)
Inapplicable(x) ==
  \/ x.kind = "reinstatement"   /\ standing[x.subject] # "suspended"
  \/ x.kind = "admin_admission" /\ role[x.subject] # "investor"

(* What each aggregate reads again before it executes. *)
RemovalMoot(x)   == x.kind = "removal"   /\ ~SeatCanBeSpared
AdmissionMoot(x) == x.kind = "admission" /\ x.subject \in Owners

(* Why a proposal that passed among its peers becomes void all the same. *)
CannotBeCarried(x) ==
  \/ x.initiator \notin Owners
  \/ RemovalMoot(x)
  \/ AdmissionMoot(x)
  \/ Inapplicable(x)

PassesNow(x) == Tally(x, x.peers \intersect Owners) = "passes"

(* Mutant: the bar follows today's roster. *)
StateAfterAnswer_MovingBar(x) ==
  LET byPeers == Tally(x, x.peers \intersect Owners)
  IN  IF byPeers = "fails"           THEN "rejected"
      ELSE IF byPeers = "pending"    THEN "open"
      ELSE IF CannotBeCarried(x)     THEN "void"
      ELSE "executed"

(* The state an open proposal is left in by the answer just recorded in x. *)
StateAfterAnswer(x) ==
  LET byPeers == Tally(x, x.peers)
  IN  IF byPeers = "fails"                            THEN "rejected"
      ELSE IF byPeers = "pending"                     THEN "open"
      ELSE IF ~PassesNow(x) \/ CannotBeCarried(x)     THEN "void"
      ELSE "executed"

(***************************************************************************)
(* A removal that passed among its peers but not among those of them still *)
(* seated is an error of the handler, which takes the answer back with it. *)
(***************************************************************************)
AnswerRollsBack(x) ==
  x.kind = "removal" /\ Tally(x, x.peers) = "passes" /\ ~PassesNow(x)

RoleAfter(x) ==
  CASE x.kind = "removal"         -> "investor"
    [] x.kind = "admission"       -> "owner"
    [] x.kind = "admin_admission" -> "admin"
    [] OTHER                      -> role[x.subject]

StandingAfter(x) ==
  CASE x.kind = "suspension"    -> "suspended"
    [] x.kind = "reinstatement" -> "active"
    [] OTHER                    -> standing[x.subject]

(* Persist an answered proposal, its verdict and the verdict's effect at once. *)
Settle(p, x) ==
  LET after == StateAfterAnswer(x)
  IN  /\ ~AnswerRollsBack(x)
      /\ proposal' = [proposal EXCEPT ![p] = [x EXCEPT !.state = after]]
      /\ role' = IF after = "executed"
                 THEN [role EXCEPT ![x.subject] = RoleAfter(x)] ELSE role
      /\ standing' = IF after = "executed"
                     THEN [standing EXCEPT ![x.subject] = StandingAfter(x)] ELSE standing

(***************************************************************************)
(* The register's seed and the callers' gate                               *)
(***************************************************************************)

Init ==
  /\ role = [u \in User |-> "investor"]
  /\ standing = [u \in User |-> "active"]
  /\ proposal = [p \in Id |-> Unused]
  /\ gate = {}
  /\ sealed = FALSE

(* Boot-time seed: only an empty register, only as a whole, only seatable people. *)
SeedOwners(S) ==
  /\ Owners = {}
  /\ Cardinality(S) >= MinOwners
  /\ \A u \in S : standing[u] = "active"
  /\ role' = [u \in User |-> IF u \in S THEN "owner" ELSE role[u]]
  /\ UNCHANGED <<standing, proposal, gate, sealed>>

(* Emergency access: only while no seat is held and none was ever seen held. *)
Elevates(u) == u \in Elevated /\ ~sealed /\ Owners = {}

(* The owner gate: the live record's status, then the effective role. *)
PassGate(u) ==
  /\ Cardinality(gate) < MaxInFlight
  /\ u \notin gate
  /\ standing[u] = "active"
  /\ role[u] = "owner" \/ Elevates(u)
  /\ gate' = gate \union {u}
  /\ sealed' = (sealed \/ (Elevated # {} /\ Owners # {}))
  /\ UNCHANGED <<role, standing, proposal>>

(* A request that is refused, fails or loses its connection leaves nothing. *)
RequestFails(u) ==
  /\ u \in gate
  /\ gate' = gate \ {u}
  /\ UNCHANGED <<role, standing, proposal, sealed>>

(***************************************************************************)
(* The owners' requests                                                    *)
(***************************************************************************)

(***************************************************************************)
(* The three tables have the same handlers, each over its own aggregate.   *)
(* Opening: a lapsed proposal of the kind about the same account is        *)
(* stamped first, so that it does not hold the one-open slot.              *)
(***************************************************************************)
OpenProposal(p, kind, i, s) ==
  /\ i \in gate
  /\ s \in Subjects
  /\ proposal[p] = Unused
  /\ \A q \in OpenAbout(kind, s) : proposal[q].due
  /\ MayOpen(kind, i, s)
  /\ proposal' = [q \in Id |->
       IF q = p THEN NewProposal(kind, i, s)
       ELSE IF q \in OpenAbout(kind, s) THEN [proposal[q] EXCEPT !.state = "expired"]
       ELSE proposal[q]]
  /\ gate' = gate \ {i}
  /\ UNCHANGED <<role, standing, sealed>>

OpenRemoval(p, i, s) ==
  /\ "removal" \in Kinds
  /\ OpenProposal(p, "removal", i, s)
  /\ RemovalRow(proposal'[p])
OpenAdmission(p, i, s) ==
  /\ "admission" \in Kinds
  /\ OpenProposal(p, "admission", i, s)
  /\ AdmissionRow(proposal'[p])
OpenUserProposal(p, i, s) ==
  \E kind \in Kinds \ SeatKinds :
    OpenProposal(p, kind, i, s) /\ UserProposalRow(proposal'[p])

(* Mutant: a voter may change their mind. *)
Vote_Again(p, i, b) ==
  /\ i \in gate
  /\ proposal[p].state = "open" /\ ~Lapsed(p)
  /\ i \in proposal[p].peers
  /\ Settle(p, [proposal[p] EXCEPT !.vote[i] = b])
  /\ gate' = gate \ {i}
  /\ UNCHANGED sealed

(* A peer answers.  The seat is NOT read again: being in the snapshot is enough. *)
Vote(p, i, b) ==
  /\ i \in gate
  /\ proposal[p].state = "open" /\ ~Lapsed(p)
  /\ i \in proposal[p].peers
  /\ proposal[p].vote[i] \in {"pending", b}
  /\ Settle(p, [proposal[p] EXCEPT !.vote[i] = b])
  /\ gate' = gate \ {i}
  /\ UNCHANGED sealed

PeerVote(p, i, b)         == Vote(p, i, b) /\ proposal[p].kind = "removal"
AdmissionVote(p, i, b)    == Vote(p, i, b) /\ proposal[p].kind = "admission"
UserProposalVote(p, i, b) == Vote(p, i, b) /\ proposal[p].kind \in UserKinds

(* The target answers from the mailbox, without a session and so without the gate. *)
TargetDecides(p, b) ==
  /\ proposal[p].state = "open" /\ ~Lapsed(p)
  /\ proposal[p].kind = "removal"
  /\ proposal[p].decision = "pending"
  /\ Settle(p, [proposal[p] EXCEPT !.decision = b])
  /\ UNCHANGED <<gate, sealed>>

Cancel(p, i) ==
  /\ i \in gate
  /\ proposal[p].state = "open" /\ ~Lapsed(p)
  /\ i = proposal[p].initiator
  /\ proposal' = [proposal EXCEPT ![p].state = "cancelled"]
  /\ gate' = gate \ {i}
  /\ UNCHANGED <<role, standing, sealed>>

CancelRemoval(p, i)      == Cancel(p, i) /\ proposal[p].kind = "removal"
CancelAdmission(p, i)    == Cancel(p, i) /\ proposal[p].kind = "admission"
CancelUserProposal(p, i) == Cancel(p, i) /\ proposal[p].kind \in UserKinds

(* Any vote or withdrawal that finds the deadline passed stamps it and fails. *)
ExpireOnWrite(p, i) ==
  /\ i \in gate
  /\ Lapsed(p)
  /\ proposal' = [proposal EXCEPT ![p].state = "expired"]
  /\ gate' = gate \ {i}
  /\ UNCHANGED <<role, standing, sealed>>

(* Mutants: a resignation without the floor, or without closing the removal. *)
Resign_NoFloor(i) ==
  /\ i \in gate
  /\ i \in Owners
  /\ role' = [role EXCEPT ![i] = "investor"]
  /\ proposal' = [p \in Id |->
       IF p \in OpenAbout("removal", i)
       THEN [proposal[p] EXCEPT !.state = "void"] ELSE proposal[p]]
  /\ gate' = gate \ {i}
  /\ UNCHANGED <<standing, sealed>>
Resign_RemovalStaysOpen(i) ==
  /\ i \in gate
  /\ i \in Owners
  /\ SeatCanBeSpared
  /\ role' = [role EXCEPT ![i] = "investor"]
  /\ gate' = gate \ {i}
  /\ UNCHANGED <<standing, proposal, sealed>>

(* Leaving is subject to the same floor, and makes a removal of the leaver moot. *)
Resign(i) ==
  /\ i \in gate
  /\ i \in Owners
  /\ SeatCanBeSpared
  /\ role' = [role EXCEPT ![i] = "investor"]
  /\ proposal' = [p \in Id |->
       IF p \in OpenAbout("removal", i)
       THEN [proposal[p] EXCEPT !.state = "void"] ELSE proposal[p]]
  /\ gate' = gate \ {i}
  /\ UNCHANGED <<standing, sealed>>

(* SetRole: one act for everything but granting admin and touching a seat. *)
SetRole(i, t, r) ==
  /\ i \in gate
  /\ (role[t] = "owner") = (r = "owner")
  /\ r = "admin" => role[t] = "admin"
  /\ role' = [role EXCEPT ![t] = r]
  /\ gate' = gate \ {i}
  /\ UNCHANGED <<standing, proposal, sealed>>

(***************************************************************************)
(* Around the consilium: the brake, the clock, the process                 *)
(***************************************************************************)

(***************************************************************************)
(* One operator's brake.  The actor's row is read inside the transaction;  *)
(* the permission was read before it.  Renewing a hold moves only its      *)
(* clock, which is in module Holds.                                        *)
(***************************************************************************)
HoldUser(a, t) ==
  /\ a # t
  /\ t \in Holdable
  /\ standing[a] = "active"
  /\ standing[t] = "active"
  /\ role[t] \in {"admin", "owner"} => role[a] = "owner"
  /\ standing' = [standing EXCEPT ![t] = "held"]
  /\ UNCHANGED <<role, proposal, gate, sealed>>

(* A hold ends: one admin lifts it, or the sweep finds it due. *)
HoldEnds(t) ==
  /\ standing[t] = "held"
  /\ standing' = [standing EXCEPT ![t] = "active"]
  /\ UNCHANGED <<role, proposal, gate, sealed>>

DeadlinePasses(p) ==
  /\ proposal[p].state = "open"
  /\ ~proposal[p].due
  /\ proposal' = [proposal EXCEPT ![p].due = TRUE]
  /\ UNCHANGED <<role, standing, gate, sealed>>

(* The process dies: requests and the latch are lost, the tables are not. *)
Restart ==
  /\ gate' = {}
  /\ sealed' = FALSE
  /\ UNCHANGED <<role, standing, proposal>>

Next ==
  \/ \E S \in SUBSET User : SeedOwners(S)
  \/ \E u \in User : PassGate(u) \/ RequestFails(u) \/ Resign(u) \/ HoldEnds(u)
  \/ \E p \in Id, i, s \in User :
       OpenRemoval(p, i, s) \/ OpenAdmission(p, i, s) \/ OpenUserProposal(p, i, s)
  \/ \E p \in Id, i \in User, b \in Cast :
       PeerVote(p, i, b) \/ AdmissionVote(p, i, b) \/ UserProposalVote(p, i, b)
  \/ \E p \in Id, b \in Cast : TargetDecides(p, b)
  \/ \E p \in Id, i \in User :
       \/ CancelRemoval(p, i) \/ CancelAdmission(p, i) \/ CancelUserProposal(p, i)
       \/ ExpireOnWrite(p, i)
  \/ \E i, t \in User, r \in Role : SetRole(i, t, r)
  \/ \E a, t \in User : HoldUser(a, t)
  \/ \E p \in Id : DeadlinePasses(p)
  \/ Restart

Spec == Init /\ [][Next]_vars

(***************************************************************************)
(* Correctness                                                             *)
(***************************************************************************)

(* Every variable stays within its type. *)
TypeOK ==
  /\ role \in [User -> Role]
  /\ standing \in [User -> Standing]
  /\ proposal \in [Id -> Proposal \union {Unused}]
  /\ gate \subseteq User
  /\ sealed \in BOOLEAN

(***************************************************************************)
(* The register is empty or holds the floor: removals that were each legal *)
(* when opened, and resignations between them, never add up to a breach    *)
(* (check_floor at open, again at execute, and in resign).                 *)
(***************************************************************************)
RosterFloor == Owners = {} \/ Cardinality(Owners) >= MinOwners

(***************************************************************************)
(* No open proposal is already decided by the ballots it holds.  Answers   *)
(* are one-shot and a verdict is only ever drawn when one arrives, so such *)
(* a proposal could never be carried by anybody again.                     *)
(***************************************************************************)
OpenIsUndecided ==
  \A p \in Id : proposal[p].state = "open" => Tally(proposal[p], proposal[p].peers) = "pending"

(***************************************************************************)
(* An open seat proposal is still about something: a removal's target sits *)
(* and an admission's candidate does not, although seats move by other     *)
(* proposals and by resignation.  At most one of a kind is open about one  *)
(* account, so the two cannot both be carried.                             *)
(***************************************************************************)
OpenConsiliumIsLive ==
  \A p \in Id : proposal[p].state = "open" =>
    LET x == proposal[p]
    IN  /\ x.kind = "removal"   => x.subject \in Owners
        /\ x.kind = "admission" => x.subject \notin Owners
        /\ OpenAbout(x.kind, x.subject) = {p}

(***************************************************************************)
(* Emergency access is a one-way door: a process that has once seen an     *)
(* owner never faces an empty register again, which is what makes caching  *)
(* that observation sound (BreakGlass::sealed).                            *)
(***************************************************************************)
SealedOnlyWithOwners == sealed => Owners # {}

Supporters(x)  == Answered(x.peers, x.vote, "for")
Executes(p)    == proposal[p].state = "open" /\ proposal'[p].state = "executed"
ExecutesAbout(kind, s) ==
  \E p \in Id : Executes(p) /\ proposal'[p].kind = kind /\ proposal'[p].subject = s

(***************************************************************************)
(* No single actor ever acts alone, however the register moved while the   *)
(* proposal was open: it executes before its deadline, its initiator still *)
(* sits, and so does another owner who voted for it, unless the target of  *)
(* a removal agreed to go; nobody who was asked to be unanimous refused.   *)
(***************************************************************************)
NobodyActsAlone ==
  \A p \in Id : Executes(p) =>
    LET x == proposal'[p]
    IN  /\ ~proposal[p].due
        /\ x.initiator \in Owners
        /\ \/ Supporters(x) \intersect (Owners \ {x.initiator}) # {}
           \/ x.kind = "removal" /\ x.decision = "for"
        /\ x.kind \in SeatKinds => Answered(x.peers, x.vote, "against") = {}

(***************************************************************************)
(* Once the register is seeded a seat is born only of an admission that    *)
(* every owner but the initiator, of those seated when it opened, agreed   *)
(* to: a minority can never grow itself into a majority.                   *)
(***************************************************************************)
SeatGrantedByPeers ==
  \A u \in User :
    (Owners # {} /\ role[u] # "owner" /\ role'[u] = "owner") =>
      \E p \in Id : /\ Executes(p)
                    /\ proposal'[p].kind = "admission"
                    /\ proposal'[p].subject = u
                    /\ Supporters(proposal'[p]) = proposal'[p].peers

(***************************************************************************)
(* A seat is lost only by the holder's own resignation, by the target's    *)
(* consent, or by every peer: SetRole and the user verdicts never reach it.*)
(***************************************************************************)
SeatTakenLawfully ==
  \A u \in User :
    (role[u] = "owner" /\ role'[u] # "owner") =>
      \/ u \in gate /\ u \notin gate' /\ \A p \in Id : ~Executes(p)
      \/ \E p \in Id :
           /\ Executes(p)
           /\ proposal'[p].kind = "removal"
           /\ proposal'[p].subject = u
           /\ \/ proposal'[p].decision = "for"
              \/ Supporters(proposal'[p]) = proposal'[p].peers

(***************************************************************************)
(* The register has two doors, and SetRole, the user verdicts and the      *)
(* emergency access are neither: in by the agreement of all the peers, out *)
(* by the holder's own act or theirs.                                      *)
(***************************************************************************)
SeatsMoveLawfully == [][SeatGrantedByPeers /\ SeatTakenLawfully]_vars

(***************************************************************************)
(* What the majority decides about a user, nobody decides alone: admin is  *)
(* granted, and the owners' suspension imposed or lifted, only by a        *)
(* proposal that reached the bar frozen on it at open (needed_votes).      *)
(***************************************************************************)
UserVerdictsNeedTheBar ==
  /\ \A u \in User :
       /\ (role[u] # "admin" /\ role'[u] = "admin") => ExecutesAbout("admin_admission", u)
       /\ (standing[u] # "suspended" /\ standing'[u] = "suspended") => ExecutesAbout("suspension", u)
       /\ (standing[u] = "suspended" /\ standing'[u] # "suspended") => ExecutesAbout("reinstatement", u)
  /\ \A p \in Id :
       (Executes(p) /\ proposal'[p].kind \in UserKinds) =>
          Cardinality(Supporters(proposal'[p])) >= NeededVotes(Cardinality(proposal'[p].peers))

(***************************************************************************)
(* Whatever is carried has those behind it who must be: two people of this *)
(* moment, and the bar of the moment it was opened.                        *)
(***************************************************************************)
ExecutionsAreBacked == [][NobodyActsAlone /\ UserVerdictsNeedTheBar]_vars

(***************************************************************************)
(* Only Open accepts further transitions, and a cast ballot is final: no   *)
(* stale request, resignation or expiry rewrites what was decided.  What   *)
(* its readers are shown as expired takes no further answer and is never   *)
(* carried, although nothing may have written that down yet: it is stamped *)
(* so, or void with the seat it was about.                                 *)
(***************************************************************************)
DecisionsAreFinal ==
  [][\A p \in Id :
       /\ proposal[p].state \in Closed => proposal'[p] = proposal[p]
       /\ proposal[p].state = "open" =>
            /\ \A u \in User : proposal[p].vote[u] \in Cast => proposal'[p].vote[u] = proposal[p].vote[u]
            /\ proposal[p].decision \in Cast => proposal'[p].decision = proposal[p].decision
       /\ Shown(p) = "expired" =>
            \E st \in {"open", "expired", "void"} : proposal'[p] = [proposal[p] EXCEPT !.state = st]]_vars

(* The register as the rest of the fund sees it follows the abstract roster. *)
Register == INSTANCE Roster WITH owners <- Owners
RegisterSpec == Register!Spec
=============================================================================
