----------------------------- MODULE GrantsProofs -----------------------------
(***************************************************************************)
(* Theorems about Grants and about Iam, for any people, requests, names,   *)
(* catalogs and bounds.                                                    *)
(*                                                                         *)
(* No property of Grants is inductive: what keeps a decision true until    *)
(* the row is written is that the transactions under way hold rows of      *)
(* different people (Exclusive), so that nothing a decision was taken from *)
(* moves.  Iam needs what a catalog was checked for carried from its       *)
(* publication to whoever reads it, and what one pattern contains of       *)
(* another follows from the patterns alone.                                *)
(***************************************************************************)
EXTENDS Grants, Iam, SequenceTheorems, TLAPS

Holds(p) == LockUsers(p, worker[p].subject)

(* No two transactions hold the row of one person. *)
Exclusive ==
  \A p, q \in Worker : p # q /\ InTransaction(p) /\ InTransaction(q) => Holds(p) \intersect Holds(q) = {}

(* What was decided is still true while the row waits to be written. *)
Decided(p) ==
  /\ HasAuthority(p)
  /\ worker[p].subject \in User
  /\ worker[p].verb = "grant" => worker[p].subject \in active /\ Row(p) \notin grant

DecisionsStand == \A p \in Worker : At(p, "writing") => Decided(p)

IInv == TypeOK /\ Exclusive /\ DecisionsStand

(***************************************************************************)
(* What a request that holds locks looks like                              *)
(***************************************************************************)

LEMMA HeldShape ==
  ASSUME TypeOK, NEW p \in Worker, InTransaction(p)
  PROVE  /\ worker[p] \in Request
         /\ worker[p].actor \in User /\ worker[p].actor \in Holds(p)
         /\ worker[p].subject \in User => worker[p].subject \in Holds(p)
         /\ worker[p].target \in Alias
<1>1. worker[p] \in Request
  BY DEF TypeOK, InTransaction, Idle
<1> QED BY <1>1 DEF Holds, LockUsers, Request, InTransaction

LEMMA DecisionKept ==
  ASSUME NEW q \in Worker, worker'[q] = worker[q], UNCHANGED <<seat, active, grant, catalog>>, Decided(q)
  PROVE  Decided(q)'
<1>1. HasAuthority(q)'
  BY DEF Decided, HasAuthority, Delegable, Targets
<1>2. Row(q)' = Row(q)
  BY DEF Row
<1> QED BY <1>1, <1>2 DEF Decided

(***************************************************************************)
(* A step of one request that touches no table                             *)
(***************************************************************************)

LEMMA LocalStep ==
  ASSUME IInv, NEW p \in Worker, NEW next \in {Idle} \union Request,
         worker' = [worker EXCEPT ![p] = next],
         UNCHANGED <<seat, active, grant, catalog, moves>>,
         next.step \in {"locked", "writing"} =>
           \A q \in Worker \ {p} : InTransaction(q) => Holds(p)' \intersect Holds(q) = {},
         next.step = "writing" => Decided(p)'
  PROVE  IInv'
<1> USE DEF IInv
<1>1. TypeOK'
  BY DEF TypeOK
<1>2. worker'[p] = next /\ \A q \in Worker \ {p} : worker'[q] = worker[q]
  BY DEF TypeOK
<1>3. \A q \in Worker \ {p} : Holds(q)' = Holds(q) /\ (InTransaction(q)' <=> InTransaction(q))
  BY <1>2 DEF Holds, LockUsers, InTransaction
<1>4. Exclusive'
  BY <1>2, <1>3 DEF Exclusive, InTransaction
<1>5. DecisionsStand'
  <2> SUFFICES ASSUME NEW q \in Worker, At(q, "writing")' PROVE Decided(q)'
    BY DEF DecisionsStand
  <2>1. CASE q = p
    BY <2>1, <1>2 DEF At
  <2>2. CASE q # p
    <3>1. worker'[q] = worker[q]
      BY <2>2, <1>2
    <3>2. Decided(q)
      BY <3>1 DEF DecisionsStand, At
    <3> QED BY <3>1, <3>2, DecisionKept
  <2> QED BY <2>1, <2>2
<1> QED BY <1>1, <1>4, <1>5

LEMMA GrantActorStep ==
  ASSUME IInv, NEW p \in Worker, NEW u \in User, NEW t \in Alias, GrantActor(p, u, t)
  PROVE  IInv'
<1>1. PICK e \in BOOLEAN :
        worker' = [worker EXCEPT ![p] = [step |-> "admitted", actor |-> u, elevated |-> e, target |-> t]]
  BY DEF GrantActor, Goes
<1> DEFINE next == [step |-> "admitted", actor |-> u, elevated |-> e, target |-> t]
<1>2. next \in Request /\ next.step = "admitted"
  BY DEF Request
<1> QED BY <1>1, <1>2, LocalStep DEF GrantActor

LEMMA BeginStep ==
  ASSUME IInv, NEW p \in Worker, NEW s \in Subject, NEW v \in {"grant", "revoke"}, Begin(p, s, v)
  PROVE  IInv'
<1> DEFINE next == [step |-> "locked", actor |-> worker[p].actor, elevated |-> worker[p].elevated,
                    target |-> worker[p].target, verb |-> v, subject |-> s]
<1>1. worker[p] \in Request /\ worker[p].step = "admitted"
  BY DEF IInv, TypeOK, Begin, At, Idle
<1>2. next \in Request /\ next.step = "locked"
  BY <1>1 DEF Request
<1>3. worker' = [worker EXCEPT ![p] = next] /\ UNCHANGED <<seat, active, grant, catalog, moves>>
  BY DEF Begin, Goes
<1>4. worker'[p] = next
  BY <1>3 DEF IInv, TypeOK
<1>5. Holds(p)' = LockUsers(p, s)
  BY <1>4 DEF Holds, LockUsers
<1>6. \A q \in Worker \ {p} : InTransaction(q) => Holds(q) \subseteq Locked
  BY DEF Locked, Holds
<1>7. LockUsers(p, s) \intersect Locked = {}
  BY DEF Begin
<1> QED BY <1>2, <1>3, <1>5, <1>6, <1>7, LocalStep

(* What the two answers that write something need. *)
LEMMA AnswersNeedAuthority ==
  ASSUME NEW p, NEW s \in Subject, NEW by
  PROVE  /\ GrantOutcome(p, s, by) = "granted" => AuthorityOver(p) /\ s \in active
         /\ RevokeOutcome(p, s) = "revoked" => AuthorityOver(p) /\ s \in User
<1>1. Reason(s) # "granted"
  BY UnnamedAssumption DEF Reason, Subject, Answers
<1>2. GrantOutcome(p, s, by) = "granted" => AuthorityOver(p) /\ s \in active
  BY <1>1 DEF GrantOutcome
<1>3. RevokeOutcome(p, s) = "revoked" => AuthorityOver(p) /\ s \in User
  BY DEF RevokeOutcome
<1> QED BY <1>2, <1>3

LEMMA DecideStep ==
  ASSUME IInv, NEW p \in Worker, NEW by, Decide(p, by)
  PROVE  IInv'
<1> DEFINE next == [worker[p] EXCEPT !.step = "writing"]
<1>1. InTransaction(p) /\ worker[p].step = "locked"
  BY DEF Decide, At, InTransaction
<1>2. worker[p] \in Request
  BY <1>1, HeldShape DEF IInv
<1>3. /\ next \in Request /\ next.step = "writing" /\ next.actor = worker[p].actor
      /\ next.elevated = worker[p].elevated /\ next.target = worker[p].target
      /\ next.verb = worker[p].verb /\ next.subject = worker[p].subject
  BY <1>1, <1>2 DEF Request
<1>4. worker' = [worker EXCEPT ![p] = next] /\ UNCHANGED <<seat, active, grant, catalog, moves>>
  BY DEF Decide, Goes
<1>5. worker'[p] = next
  BY <1>4 DEF IInv, TypeOK
<1>6. \A q \in Worker \ {p} : InTransaction(q) => Holds(p)' \intersect Holds(q) = {}
  BY <1>1, <1>3, <1>5 DEF IInv, Exclusive, Holds, LockUsers
<1>0. worker[p].subject \in Subject
  BY <1>1, <1>2 DEF Request
<1>7. HasAuthority(p)
  <2>1. catalog \in 1 .. catalog
    BY DEF IInv, TypeOK
  <2>2. AuthorityOver(p)
    BY <1>0, AnswersNeedAuthority DEF Decide, Admitted, MayReceive, MayLose
  <2> QED BY <2>1, <2>2 DEF AuthorityOver, ActsFromSeat, ActsAsDelegate, HasAuthority
<1>8. Decided(p)
  <2>1. CASE worker[p].verb = "grant"
    <3>1. /\ worker[p].subject \in User /\ worker[p].subject \in active
          /\ worker[p].target \notin Targets(worker[p].subject)
      <4>1. GrantOutcome(p, worker[p].subject, by) = "granted" /\ worker[p].target \notin Targets(worker[p].subject)
        BY <2>1 DEF Decide, Admitted, MayReceive
      <4> QED BY <1>0, <4>1, AnswersNeedAuthority DEF IInv, TypeOK
    <3>2. Row(p) \notin grant
      BY <3>1, <1>1, HeldShape DEF Row, Targets, IInv
    <3> QED BY <3>1, <3>2, <1>7 DEF Decided
  <2>2. CASE worker[p].verb # "grant"
    <3>1. RevokeOutcome(p, worker[p].subject) = "revoked"
      BY <2>2 DEF Decide, Admitted, MayLose
    <3> QED BY <1>0, <2>2, <3>1, <1>7, AnswersNeedAuthority DEF Decided
  <2> QED BY <2>1, <2>2
<1>9. Decided(p)'
  BY <1>3, <1>4, <1>5, <1>8 DEF Decided, HasAuthority, Row, Delegable, Targets
<1> QED BY <1>3, <1>4, <1>6, <1>9, LocalStep

LEMMA EndStep ==
  ASSUME IInv, NEW p \in Worker, NEW by, Refuse(p, by) \/ Crash(p)
  PROVE  IInv'
<1>1. worker' = [worker EXCEPT ![p] = Idle] /\ UNCHANGED <<seat, active, grant, catalog, moves>>
  BY DEF Refuse, Crash, Ends, Goes
<1> QED BY <1>1, LocalStep DEF Idle

(***************************************************************************)
(* A step that writes a grant                                              *)
(***************************************************************************)

LEMMA WriteStep ==
  ASSUME IInv, NEW p \in Worker, Writes(p)
  PROVE  IInv'
<1> USE DEF IInv
<1>1. /\ At(p, "writing") /\ InTransaction(p) /\ Decided(p)
      /\ worker' = [worker EXCEPT ![p] = Idle]
      /\ UNCHANGED <<seat, active, catalog, moves>>
      /\ grant' = grant \union {Row(p)} \/ grant' = grant \ {Row(p)}
  BY DEF Writes, Grant, Revoke, Ends, Goes, DecisionsStand, At, InTransaction
<1>2. worker[p].subject \in User /\ worker[p].target \in Alias
  BY <1>1, HeldShape DEF Decided
<1>3. TypeOK'
  BY <1>1, <1>2 DEF TypeOK, Row
<1>4. worker'[p] = Idle /\ \A q \in Worker \ {p} : worker'[q] = worker[q]
  BY <1>1 DEF TypeOK
<1>5. Exclusive'
  BY <1>4 DEF Exclusive, InTransaction, Holds, LockUsers, Idle
<1>6. DecisionsStand'
  <2> SUFFICES ASSUME NEW q \in Worker, At(q, "writing")' PROVE Decided(q)'
    BY DEF DecisionsStand
  <2>1. q # p /\ worker'[q] = worker[q] /\ At(q, "writing") /\ InTransaction(q) /\ Decided(q)
    BY <1>4 DEF At, Idle, InTransaction, DecisionsStand
  <2>2. Holds(p) \intersect Holds(q) = {}
    BY <1>1, <2>1 DEF Exclusive
  <2>3. worker[p].subject # worker[q].actor /\ worker[p].subject # worker[q].subject
    BY <1>1, <1>2, <2>1, <2>2, HeldShape DEF Decided
  <2>4. Targets(worker[q].actor)' = Targets(worker[q].actor)
    BY <1>1, <2>1, <2>3 DEF Targets, Row
  <2>5. HasAuthority(q)'
    BY <1>1, <2>1, <2>4 DEF Decided, HasAuthority, Delegable
  <2>6. Row(q)' = Row(q) /\ Row(q) # Row(p)
    BY <2>1, <2>3 DEF Row
  <2> QED BY <1>1, <2>1, <2>5, <2>6 DEF Decided
<1> QED BY <1>3, <1>5, <1>6

(***************************************************************************)
(* A step beside the requests                                              *)
(***************************************************************************)

LEMMA PublishStep ==
  ASSUME IInv, NEW version \in 1 .. Versions, Publish(version)
  PROVE  IInv'
<1> USE DEF IInv
<1>1. TypeOK'
  BY DEF TypeOK, Publish
<1>2. Exclusive'
  BY DEF Publish, Exclusive, InTransaction, Holds, LockUsers
<1>3. 1 .. catalog \subseteq 1 .. catalog'
  BY CatalogAssumption DEF Publish, TypeOK
<1>4. DecisionsStand'
  BY <1>3 DEF Publish, DecisionsStand, Decided, HasAuthority, At, Row, Delegable, Targets
<1> QED BY <1>1, <1>2, <1>4

LEMMA MoveStep ==
  ASSUME IInv, NEW u \in User, SetRole(u) \/ SetStatus(u)
  PROVE  IInv'
<1> USE DEF IInv
<1>1. /\ u \notin Locked /\ moves < MaxMoves /\ moves' = moves + 1 /\ UNCHANGED <<grant, catalog, worker>>
      /\ seat' \ {u} = seat \ {u} /\ active' \ {u} = active \ {u}
  BY DEF SetRole, SetStatus, Moves
<1>2. TypeOK'
  <2>1. moves' \in 0 .. MaxMoves
    BY <1>1, BoundAssumption DEF TypeOK
  <2>2. seat' \subseteq User /\ active' \subseteq User
    BY <1>1 DEF TypeOK
  <2> QED BY <1>1, <2>1, <2>2 DEF TypeOK
<1>3. Exclusive'
  BY <1>1 DEF Exclusive, InTransaction, Holds, LockUsers
<1>4. DecisionsStand'
  <2> SUFFICES ASSUME NEW q \in Worker, At(q, "writing")' PROVE Decided(q)'
    BY DEF DecisionsStand
  <2>1. At(q, "writing") /\ InTransaction(q) /\ Decided(q)
    BY <1>1 DEF At, InTransaction, DecisionsStand
  <2>2. Holds(q) \subseteq Locked
    BY <2>1 DEF Locked, Holds
  <2>3. worker[q].actor # u /\ worker[q].subject # u
    BY <1>1, <2>1, <2>2, HeldShape DEF Decided
  <2>4. HasAuthority(q)'
    BY <1>1, <2>1, <2>3 DEF Decided, HasAuthority, Delegable, Targets
  <2> QED BY <1>1, <2>1, <2>3, <2>4 DEF Decided, Row
<1> QED BY <1>2, <1>3, <1>4

(***************************************************************************)
(* The invariant                                                           *)
(***************************************************************************)

LEMMA InitIInv == Init => IInv
<1> SUFFICES ASSUME Init PROVE IInv
  OBVIOUS
<1>1. catalog \in 1 .. Versions
  BY CatalogAssumption DEF Init
<1>2. moves \in 0 .. MaxMoves
  BY BoundAssumption DEF Init
<1>3. TypeOK
  BY <1>1, <1>2 DEF Init, TypeOK
<1>4. \A p \in Worker : ~InTransaction(p) /\ ~At(p, "writing")
  BY DEF Init, InTransaction, At, Idle
<1> QED BY <1>3, <1>4 DEF IInv, Exclusive, DecisionsStand

LEMMA NextIInv == IInv /\ [Next]_vars => IInv'
<1> SUFFICES ASSUME IInv, [Next]_vars PROVE IInv'
  OBVIOUS
<1>1. ASSUME NEW p \in Worker, NEW u \in User, NEW t \in Alias, GrantActor(p, u, t) PROVE IInv'
  BY <1>1, GrantActorStep
<1>2. ASSUME NEW p \in Worker, NEW s \in Subject, NEW v \in {"grant", "revoke"}, Begin(p, s, v)
      PROVE IInv'
  BY <1>2, BeginStep
<1>3. ASSUME NEW p \in Worker, NEW by \in {"id", "handle"}, Decide(p, by) \/ Refuse(p, by) PROVE IInv'
  BY <1>3, DecideStep, EndStep
<1>7. ASSUME NEW p \in Worker, Writes(p) \/ Crash(p) PROVE IInv'
  BY <1>7, EndStep, WriteStep
<1>4. ASSUME NEW version \in 1 .. Versions, Publish(version) PROVE IInv'
  BY <1>4, PublishStep
<1>5. ASSUME NEW u \in User, SetRole(u) \/ SetStatus(u) PROVE IInv'
  BY <1>5, MoveStep
<1>6. ASSUME UNCHANGED vars PROVE IInv'
  <2>1. TypeOK'
    BY <1>6 DEF vars, IInv, TypeOK
  <2>2. Exclusive'
    BY <1>6 DEF vars, IInv, Exclusive, InTransaction, Holds, LockUsers
  <2>3. DecisionsStand'
    BY <1>6, DecisionKept DEF vars, IInv, DecisionsStand, At
  <2> QED BY <2>1, <2>2, <2>3 DEF IInv
<1> QED BY <1>1, <1>2, <1>3, <1>4, <1>5, <1>6, <1>7 DEF Next

THEOREM Invariance == Spec => []IInv
<1> QED BY InitIInv, NextIInv, PTL DEF Spec

(* Every variable of Grants stays within its type, for any constants. *)
THEOREM TypeCorrect == Spec => []TypeOK
<1>1. IInv => TypeOK
  BY DEF IInv
<1> QED BY <1>1, Invariance, PTL

(***************************************************************************)
(* Two grants to one person never meet at the unique index, whatever runs  *)
(* beside them (lock_users in grants.rs).                                  *)
(***************************************************************************)
THEOREM GrantsSerialise == Spec => []GrantsNeverClash
<1>1. IInv => GrantsNeverClash
  BY DEF IInv, DecisionsStand, Decided, GrantsNeverClash
<1> QED BY <1>1, Invariance, PTL

(***************************************************************************)
(* Whoever writes a grant has the authority for it at that step, however   *)
(* old the gate's answer is (authority_over in grants.rs).                 *)
(***************************************************************************)
THEOREM AuthorityIsPresent == Spec => GrantsNeedPresentAuthority
<1>1. IInv /\ [Next]_vars =>
        [\A p \in Worker : Writes(p) =>
           HasAuthority(p) /\ (worker[p].verb = "grant" => worker[p].subject \in active)]_vars
  BY DEF IInv, DecisionsStand, Decided, Writes, Grant, Revoke
<1> QED BY <1>1, Invariance, PTL DEF Spec, GrantsNeedPresentAuthority

(***************************************************************************)
(* What a delegate hears of an address it may not be told about does not   *)
(* depend on the address (grant and told_why in grants.rs).                *)
(***************************************************************************)
THEOREM NoOracle == Spec => []GrantsAreNoOracle
<1>1. IInv => GrantsAreNoOracle
  <2> SUFFICES ASSUME IInv, NEW p \in Worker, At(p, "locked"), ~ActsFromSeat(p),
                      NEW s \in Subject, NEW t \in Subject, NEW by \in {"id", "handle"}
               PROVE  /\ GrantOutcome(p, s, by) = "denied" <=> GrantOutcome(p, t, by) = "denied"
                      /\ s \notin active /\ t \notin active => GrantOutcome(p, s, by) = GrantOutcome(p, t, by)
    BY DEF GrantsAreNoOracle
  <2>1. CASE ~AuthorityOver(p) \/ by = "id"
    BY <2>1 DEF GrantOutcome
  <2>2. CASE AuthorityOver(p) /\ by # "id"
    BY <2>2 DEF GrantOutcome
  <2> QED BY <2>1, <2>2
<1> QED BY <1>1, Invariance, PTL

(***************************************************************************)
(* Iam: what the tenants publish reaches nobody else's namespace.  The     *)
(* invariant carries through every catalog, the stored one and the copy a  *)
(* reader took, what was checked when it was published.                    *)
(***************************************************************************)

Published(n, c) == c = None \/ Check(n, c)

CatalogsChecked ==
  /\ catalogs = [n \in Namespace |-> catalogs[n]]
  /\ \A n \in Namespace : Published(n, catalogs[n])

Heard(audience) == IF audience = FirstParty THEN Namespace ELSE {audience}

ReaderChecked ==
  /\ reader.step \in {"gated", "read"} => reader.audience \in Audience
  /\ reader.step = "read" =>
       /\ DOMAIN reader.catalogs = Heard(reader.audience)
       /\ \A n \in Heard(reader.audience) : Published(n, reader.catalogs[n])

IamInv == CatalogsChecked /\ ReaderChecked /\ TenantsStayApart

(* Whatever a checked catalog grants lies in the namespace it was published for. *)
LEMMA GrantedStaysInside ==
  ASSUME NEW n, NEW c, Published(n, c), NEW granting, NEW trusting, NEW targets,
         NEW p \in Resolve(granting, trusting, targets, c)
  PROVE  p[1] = n
<1>1. p \in c.permissions
  <2>1. CASE p \in c.permissions
    BY <2>1
  <2>2. CASE ~(granting /\ trusting)
    <3>1. PICK t \in targets : p \in Granted(t, c)
      BY <2>2 DEF Resolve
    <3>2. CASE IsAlias(t)
      <4>1. PICK a \in c.aliases : p \in a.members
        BY <3>1, <3>2 DEF Granted, Members
      <4> QED BY <4>1 DEF Published, None, Check
    <3>3. CASE ~IsAlias(t)
      BY <3>1, <3>3 DEF Granted
    <3> QED BY <3>2, <3>3
  <2> QED BY <2>1, <2>2 DEF Resolve
<1> QED BY <1>1 DEF Published, None, Check

LEMMA ShownStaysInside ==
  ASSUME NEW r, NEW targets, r.audience \in Audience, DOMAIN r.catalogs = Heard(r.audience),
         \A n \in Heard(r.audience) : Published(n, r.catalogs[n]),
         NEW p \in PermissionsOf(r, targets)
  PROVE  CASE p[1] \in Reserved -> r.audience = FirstParty /\ p \in SeatPermissions
           [] p[1] \notin Reserved -> r.audience \in {FirstParty, p[1]}
<1>1. CASE p \in SeatPermissions /\ r.audience = FirstParty
  BY <1>1, SeatAssumption
<1>2. CASE ~(p \in SeatPermissions /\ r.audience = FirstParty)
  <2>1. PICK n \in Heard(r.audience) :
          p \in Resolve(r.granting, n \in Trusting, Ours(targets, n), r.catalogs[n])
    BY <1>2 DEF PermissionsOf
  <2>2. p[1] = n
    BY <2>1, GrantedStaysInside
  <2>3. r.audience \in {FirstParty, n}
    BY DEF Heard
  <2>4. r.audience # FirstParty => n \in Namespace
    BY DEF Heard, Audience
  <2>5. r.audience = FirstParty => n \in Namespace
    BY DEF Heard
  <2>6. n \notin Reserved
    BY <2>4, <2>5, NamespaceAssumption
  <2> QED BY <2>2, <2>3, <2>6
<1> QED BY <1>1, <1>2

LEMMA InitIamInv == IamInit => IamInv
BY DEF IamInit, IamInv, CatalogsChecked, ReaderChecked, TenantsStayApart, Published, NoReader

LEMMA PublishCatalogStep ==
  ASSUME IamInv, NEW n \in Namespace, NEW c, PublishCatalog(n, c)
  PROVE  IamInv'
<1>1. CatalogsChecked'
  BY DEF IamInv, CatalogsChecked, PublishCatalog, Accepts, Published
<1> QED BY <1>1 DEF IamInv, ReaderChecked, TenantsStayApart, PublishCatalog

LEMMA ReadCatalogsStep ==
  ASSUME IamInv, ReadCatalogs
  PROVE  IamInv'
<1> DEFINE a == reader.audience
<1>1. a \in Audience
  BY DEF IamInv, ReaderChecked, ReadCatalogs
<1>2. reader'.step = "read" /\ reader'.audience = a /\ reader'.catalogs = Catalogs(a)
  BY DEF ReadCatalogs
<1>3. Heard(a) \subseteq Namespace
  BY <1>1 DEF Heard, Audience
<1>4. Catalogs(a) = [n \in Heard(a) |-> catalogs[n]]
  BY DEF Catalogs, Heard
<1>5. ReaderChecked'
  BY <1>1, <1>2, <1>3, <1>4 DEF IamInv, CatalogsChecked, ReaderChecked
<1> QED BY <1>2, <1>5 DEF IamInv, CatalogsChecked, TenantsStayApart, ReadCatalogs

LEMMA ShowStep ==
  ASSUME IamInv, Show
  PROVE  IamInv'
<1>1. /\ reader'.step = "shown" /\ reader'.audience = reader.audience
      /\ reader'.permissions = PermissionsOf(reader, TargetsOf(reader.user))
  BY DEF Show
<1>2. /\ reader.audience \in Audience /\ DOMAIN reader.catalogs = Heard(reader.audience)
      /\ \A n \in Heard(reader.audience) : Published(n, reader.catalogs[n])
  BY DEF IamInv, ReaderChecked, Show
<1>3. ASSUME NEW p \in reader'.permissions
      PROVE  CASE p[1] \in Reserved -> reader'.audience = FirstParty /\ p \in SeatPermissions
               [] p[1] \notin Reserved -> reader'.audience \in {FirstParty, p[1]}
  <2>1. p \in PermissionsOf(reader, TargetsOf(reader.user))
    BY <1>1, <1>3
  <2> QED BY <1>1, <1>2, <2>1, ShownStaysInside
<1>4. TenantsStayApart'
  BY <1>3 DEF TenantsStayApart
<1> QED BY <1>1, <1>4 DEF IamInv, CatalogsChecked, ReaderChecked, Show

(* A step that leaves the catalogs alone, and gives the reader nothing to show. *)
LEMMA ElsewhereStep ==
  ASSUME IamInv, UNCHANGED catalogs,
         reader' = reader \/ reader'.step \in {"listing", "held", "listed"}
           \/ (reader'.step = "gated" /\ reader'.audience \in Audience)
  PROVE  IamInv'
BY DEF IamInv, CatalogsChecked, ReaderChecked, TenantsStayApart

LEMMA NextIamInv == IamInv /\ [IamNext]_iamVars => IamInv'
<1> SUFFICES ASSUME IamInv, [IamNext]_iamVars PROVE IamInv'
  OBVIOUS
<1>1. ASSUME NEW n \in Namespace, NEW c \in Publications, PublishCatalog(n, c) PROVE IamInv'
  BY <1>1, PublishCatalogStep
<1>2. ASSUME NEW u \in Person, NEW target \in Names, GrantTarget(u, target) PROVE IamInv'
  BY <1>2, ElsewhereStep DEF GrantTarget
<1>3. ASSUME NEW u \in Person, NEW audience \in Audience, GetMe(u, audience) PROVE IamInv'
  BY <1>3, ElsewhereStep DEF GetMe
<1>4. ASSUME NEW u \in Person, NEW n \in Namespace, ListGrants(u, n) PROVE IamInv'
  BY <1>4, ElsewhereStep DEF ListGrants
<1>5. ASSUME NEW u \in Person, SetSeat(u) PROVE IamInv'
  BY <1>5, ElsewhereStep DEF SetSeat
<1>6. ASSUME NEW g \in grants, RevokeTarget(g) PROVE IamInv'
  BY <1>6, ElsewhereStep DEF RevokeTarget
<1>7. CASE ReadCatalogs
  BY <1>7, ReadCatalogsStep
<1>8. CASE Show
  BY <1>8, ShowStep
<1>9. ASSUME NEW n \in Namespace, Holders(n) PROVE IamInv'
  BY <1>9, ElsewhereStep DEF Holders
<1>10. CASE Answer
  BY <1>10, ElsewhereStep DEF Answer
<1>11. CASE Tick
  BY <1>11, ElsewhereStep DEF Tick
<1>12. CASE UNCHANGED iamVars
  BY <1>12, ElsewhereStep DEF iamVars
<1> QED BY <1>1, <1>2, <1>3, <1>4, <1>5, <1>6, <1>7, <1>8, <1>9, <1>10, <1>11, <1>12 DEF IamNext

THEOREM IamInvariance == IamSpec => []IamInv
<1> QED BY InitIamInv, NextIamInv, PTL DEF IamSpec

(***************************************************************************)
(* What anybody is shown lies in a namespace their audience may hear of,   *)
(* and what a seat may do on this plane comes from no tenant's catalog     *)
(* (Catalog::check in domain/iam.rs, resolve in directory.rs).             *)
(***************************************************************************)
THEOREM ApartForever == IamSpec => []TenantsStayApart
<1>1. IamInv => TenantsStayApart
  BY DEF IamInv
<1> QED BY <1>1, IamInvariance, PTL

(***************************************************************************)
(* No chain of delegations is longer than one, under any catalog that was  *)
(* accepted (Catalog::check in domain/iam.rs).                             *)
(***************************************************************************)
THEOREM NoPeers == IamSpec => []NobodyMintsAPeer
<1>1. IamInv => NobodyMintsAPeer
  <2> SUFFICES ASSUME IamInv, NEW n \in Namespace, NEW targets
               PROVE  MayPassOn(MayPassOn(targets, catalogs[n]), catalogs[n]) = {}
    BY DEF NobodyMintsAPeer
  <2>1. Published(n, catalogs[n])
    BY DEF IamInv, CatalogsChecked
  <2>2. ASSUME NEW d \in MayPassOn(targets, catalogs[n]) PROVE Delegates(catalogs[n], d) = {}
    <3>1. PICK a \in catalogs[n].aliases : d \in a.delegates
      BY <2>2 DEF MayPassOn, Delegates
    <3> QED BY <2>1, <3>1 DEF Published, None, Check
  <2> QED BY <2>2 DEF MayPassOn
<1> QED BY <1>1, IamInvariance, PTL

(***************************************************************************)
(* What inclusion means.  Fits says in one look what Fills says by writing *)
(* the star at the end as often as need be; a name that tells two patterns *)
(* apart is spelt out with one segment that neither of them mentions.      *)
(***************************************************************************)

Text == Segment \union {Star}
WellWritten(p) == p \in Seq(Text) /\ IsPattern(p)
Fixed(p) == IF Trailing(p) THEN Len(p) - 1 ELSE Len(p)

Fits(p, name) ==
  /\ IF Trailing(p) THEN Len(name) > Fixed(p) ELSE Len(name) = Fixed(p)
  /\ \A i \in 1 .. Fixed(p) : p[i] \in {Star, name[i]}

LEMMA FunctionIsSeq ==
  ASSUME NEW n \in Nat, NEW S, NEW f \in [1 .. n -> S]
  PROVE  f \in Seq(S) /\ Len(f) = n
<1>1. f \in Seq(S)
  BY SeqDef
<1>2. Len(f) \in Nat /\ 1 .. Len(f) = 1 .. n
  BY <1>1, LenProperties
<1> QED BY <1>1, <1>2

LEMMA MaxOfTwo ==
  ASSUME NEW a \in Nat, NEW b \in Nat
  PROVE  Max({a, b}) \in Nat /\ Max({a, b}) >= a /\ Max({a, b}) >= b
<1>1. \E x \in {a, b} : \A y \in {a, b} : x >= y
  <2>1. CASE a >= b
    BY <2>1
  <2>2. CASE b >= a
    BY <2>2
  <2> QED BY <2>1, <2>2
<1> QED BY <1>1 DEF Max

LEMMA FixedPart ==
  ASSUME NEW p, WellWritten(p)
  PROVE  /\ Len(p) \in Nat /\ Len(p) >= 2 /\ Fixed(p) \in 1 .. Len(p)
         /\ p[1] \in Segment /\ p[1] # Star
         /\ \A i \in 1 .. Len(p) : p[i] \in Text
<1>1. Len(p) \in Nat /\ DOMAIN p = 1 .. Len(p) /\ \A i \in 1 .. Len(p) : p[i] \in Text
  BY LenProperties, ElementOfSeq DEF WellWritten
<1>2. Len(p) >= 2 /\ p[1] \in Segment
  BY DEF WellWritten, IsPattern, IsSegment
<1> QED BY <1>1, <1>2, StarAssumption DEF Fixed

LEMMA StretchedPattern ==
  ASSUME NEW p, WellWritten(p), Trailing(p), NEW k \in Nat
  PROVE  /\ Len(Stretched(p, k)) = Fixed(p) + k
         /\ \A i \in 1 .. Fixed(p) + k : Stretched(p, k)[i] = IF i <= Fixed(p) THEN p[i] ELSE Star
<1> DEFINE front == SubSeq(p, 1, Len(p) - 1)
           stars == [i \in 1 .. k |-> Star]
<1>1. Len(p) \in Nat /\ Len(p) >= 2 /\ Fixed(p) = Len(p) - 1 /\ p \in Seq(Text)
  BY FixedPart DEF Fixed, WellWritten
<1>2. front \in Seq(Text) /\ Len(front) = Fixed(p) /\ \A i \in 1 .. Fixed(p) : front[i] = p[i]
  BY <1>1, SubSeqProperties
<1>3. stars \in Seq(Text) /\ Len(stars) = k /\ \A i \in 1 .. k : stars[i] = Star
  <2>1. stars \in [1 .. k -> Text]
    BY DEF Text
  <2> QED BY <2>1, FunctionIsSeq
<1>4. Stretched(p, k) = front \o stars
  BY DEF Stretched, Front
<1> HIDE DEF front, stars
<1>5a. /\ Len(front \o stars) = Len(front) + Len(stars)
       /\ \A i \in 1 .. Len(front) + Len(stars) :
            (front \o stars)[i] = IF i <= Len(front) THEN front[i] ELSE stars[i - Len(front)]
  BY ONLY <1>2, <1>3, ConcatProperties
<1>5. /\ Len(front \o stars) = Fixed(p) + k
      /\ \A i \in 1 .. Fixed(p) + k : (front \o stars)[i] = IF i <= Fixed(p) THEN front[i] ELSE stars[i - Fixed(p)]
  BY <1>2, <1>3, <1>5a
<1>6. \A i \in 1 .. Fixed(p) + k : (front \o stars)[i] = IF i <= Fixed(p) THEN p[i] ELSE Star
  BY <1>1, <1>2, <1>3, <1>5
<1> QED BY <1>4, <1>5, <1>6

LEMMA FillsIsFits ==
  ASSUME NEW p, WellWritten(p), NEW name, Len(name) \in Nat
  PROVE  Fills(p, name) <=> Fits(p, name)
<1>0. Len(p) \in Nat /\ Len(p) >= 2 /\ Fixed(p) \in 1 .. Len(p)
  BY FixedPart
<1>1. CASE ~Trailing(p)
  <2>1. Fixed(p) = Len(p) /\ \A k : Stretched(p, k) = p
    BY <1>1 DEF Fixed, Stretched
  <2>2. Fills(p, name) => Fits(p, name)
    BY <1>0, <1>1, <2>1 DEF Fills, Fits
  <2>3. Fits(p, name) => Fills(p, name)
    <3> SUFFICES ASSUME Fits(p, name) PROVE Fills(p, name)
      OBVIOUS
    <3>1. Len(name) = Len(p) /\ \A i \in 1 .. Len(p) : p[i] \in {Star, name[i]}
      BY <1>1, <2>1 DEF Fits
    <3>2. 1 \in 1 .. Len(name)
      BY <3>1, <1>0
    <3> QED BY <3>1, <3>2, <2>1 DEF Fills
  <2> QED BY <2>2, <2>3
<1>2. CASE Trailing(p)
  <2>1. \A k \in Nat :
          /\ Len(Stretched(p, k)) = Fixed(p) + k
          /\ \A i \in 1 .. Fixed(p) + k : Stretched(p, k)[i] = IF i <= Fixed(p) THEN p[i] ELSE Star
    BY <1>2, StretchedPattern
  <2>2. ASSUME Fills(p, name) PROVE Fits(p, name)
    <3>1. PICK k \in 1 .. Len(name) :
            /\ Len(Stretched(p, k)) = Len(name)
            /\ \A i \in 1 .. Len(name) : Stretched(p, k)[i] \in {Star, name[i]}
      BY <2>2 DEF Fills
    <3>2. Len(name) = Fixed(p) + k
      BY <2>1, <3>1
    <3>3. \A i \in 1 .. Fixed(p) : p[i] \in {Star, name[i]}
      <4> TAKE i \in 1 .. Fixed(p)
      <4>1. i \in 1 .. Len(name) /\ i \in 1 .. Fixed(p) + k /\ i <= Fixed(p)
        BY <3>2, <1>0
      <4>2. Stretched(p, k)[i] = p[i]
        BY <4>1, <2>1
      <4> QED BY <3>1, <4>1, <4>2
    <3> QED BY <1>0, <1>2, <3>2, <3>3 DEF Fits
  <2>3. ASSUME Fits(p, name) PROVE Fills(p, name)
    <3> DEFINE k == Len(name) - Fixed(p)
    <3>1. Len(name) > Fixed(p) /\ \A i \in 1 .. Fixed(p) : p[i] \in {Star, name[i]}
      BY <2>3, <1>2 DEF Fits
    <3>2. k \in 1 .. Len(name) /\ Fixed(p) + k = Len(name) /\ k \in Nat
      BY <1>0, <3>1
    <3> HIDE DEF k
    <3>3. /\ Len(Stretched(p, k)) = Len(name)
          /\ \A i \in 1 .. Len(name) : Stretched(p, k)[i] = IF i <= Fixed(p) THEN p[i] ELSE Star
      BY <2>1, <3>2
    <3>4. \A i \in 1 .. Len(name) : Stretched(p, k)[i] \in {Star, name[i]}
      BY <3>1, <3>3, <1>0
    <3> QED BY <3>2, <3>3, <3>4 DEF Fills
  <2> QED BY <2>2, <2>3
<1> QED BY <1>1, <1>2

LEMMA IncludesBySegments ==
  ASSUME NEW t, NEW s
  PROVE  Includes(t, s) <=>
           /\ IF Trailing(t) THEN Len(s) > Fixed(t) ELSE Len(s) = Fixed(t)
           /\ \A i \in 1 .. Fixed(t) : t[i] = Star \/ t[i] = s[i]
           /\ Trailing(s) => Len(s) > Fixed(t)
BY DEF Includes, Fixed

LEMMA InclusionIsSound ==
  ASSUME NEW t, NEW s, WellWritten(t), WellWritten(s), Includes(t, s), NEW name, Len(name) \in Nat, Fits(s, name)
  PROVE  Fits(t, name)
<1>1. Len(t) \in Nat /\ Len(s) \in Nat /\ Fixed(t) \in 1 .. Len(t) /\ Fixed(s) \in 1 .. Len(s)
  BY FixedPart
<1>2. /\ IF Trailing(t) THEN Len(s) > Fixed(t) ELSE Len(s) = Fixed(t)
      /\ \A i \in 1 .. Fixed(t) : t[i] = Star \/ t[i] = s[i]
      /\ Trailing(s) => Len(s) > Fixed(t)
  BY IncludesBySegments
<1>3. Fixed(s) = IF Trailing(s) THEN Len(s) - 1 ELSE Len(s)
  BY DEF Fixed
<1>4. Fixed(t) <= Fixed(s)
  BY <1>1, <1>2, <1>3
<1>5. IF Trailing(t) THEN Len(name) > Fixed(t) ELSE Len(name) = Fixed(t)
  BY <1>1, <1>2, <1>3 DEF Fits
<1>6. \A i \in 1 .. Fixed(t) : t[i] \in {Star, name[i]}
  BY <1>1, <1>2, <1>4 DEF Fits
<1> QED BY <1>5, <1>6 DEF Fits

(* A segment that occurs in neither, and the name of length m it makes of s. *)
Fresh(t, s) == CHOOSE x \in Segment : x \notin ToSet(t) \union ToSet(s)
Spelt(t, s, m) == [i \in 1 .. m |-> IF i <= Fixed(s) /\ s[i] # Star THEN s[i] ELSE Fresh(t, s)]

LEMMA FreshSegment ==
  ASSUME NEW t \in Names, NEW s \in Names
  PROVE  Fresh(t, s) \in Segment /\ Fresh(t, s) # Star /\ Fresh(t, s) \notin ToSet(t) \union ToSet(s)
<1>1. \E x \in Segment : x \notin ToSet(t) \union ToSet(s)
  BY NamesAssumption
<1> QED BY <1>1, StarAssumption DEF Fresh

(* What Written puts together, with its parts named. *)
Letters(t, s) == (ToSet(t) \union ToSet(s) \union {Fresh(t, s)}) \ {Star}
Rests(t, s) == UNION {[1 .. k -> Letters(t, s)] : k \in 1 .. (1 + Max({Len(t), Len(s)})) - 1}

LEMMA WrittenNames ==
  ASSUME NEW t, NEW s, NEW n \in {t[1], s[1]}, NEW rest \in Rests(t, s)
  PROVE  <<n>> \o rest \in Written(t, s)
<1> DEFINE From(namespace) == {<<namespace>> \o r : r \in Rests(t, s)}
<1>1. Written(t, s) = UNION {From(namespace) : namespace \in {t[1], s[1]}}
  BY DEF Written, Rests, Letters, Fresh
<1>2. <<n>> \o rest \in From(n)
  OBVIOUS
<1> QED BY <1>1, <1>2

(* A written name is a namespace and the rest. *)
HasParts(t, s, name) == \E n \in {t[1], s[1]} : \E rest \in Rests(t, s) : name = <<n>> \o rest

LEMMA WrittenParts ==
  ASSUME NEW t, NEW s, NEW name \in Written(t, s)
  PROVE  HasParts(t, s, name)
<1> DEFINE From(namespace) == {<<namespace>> \o r : r \in Rests(t, s)}
<1>1. Written(t, s) = UNION {From(namespace) : namespace \in {t[1], s[1]}}
  BY DEF Written, Rests, Letters, Fresh
<1>2. PICK n \in {t[1], s[1]} : name \in From(n)
  BY <1>1
<1> QED BY <1>2 DEF HasParts

LEMMA SpeltIsWritten ==
  ASSUME NEW t \in Names, NEW s \in Names, WellWritten(t), WellWritten(s), NEW m \in Nat,
         Len(s) <= m, m <= Max({Len(t), Len(s)}) + 1
  PROVE  /\ Spelt(t, s, m) \in Written(t, s) /\ Len(Spelt(t, s, m)) = m
         /\ m = Len(s) \/ Trailing(s) => Fits(s, Spelt(t, s, m))
         /\ \A i \in 1 .. Fixed(s) : Spelt(t, s, m)[i] = IF s[i] # Star THEN s[i] ELSE Fresh(t, s)
<1> DEFINE letters == Letters(t, s)
           name == Spelt(t, s, m)
           rest == [i \in 1 .. m - 1 |-> name[i + 1]]
<1>1. /\ Len(s) \in Nat /\ Len(s) >= 2 /\ Fixed(s) \in 1 .. Len(s) /\ s[1] # Star
      /\ s \in Seq(Text)
  BY FixedPart DEF WellWritten
<1>2. \A i \in 1 .. Len(s) : s[i] \in ToSet(s)
  BY <1>1, LenProperties DEF ToSet
<1>3. \A i \in 1 .. m : name[i] = IF i <= Fixed(s) /\ s[i] # Star THEN s[i] ELSE Fresh(t, s)
  BY DEF Spelt
<1>4. \A i \in 1 .. m : name[i] \in letters
  BY <1>1, <1>2, <1>3, FreshSegment DEF Letters
<1>5. name \in Seq(letters) /\ Len(name) = m
  <2>1. name \in [1 .. m -> letters]
    BY <1>4 DEF Spelt
  <2> QED BY <2>1, FunctionIsSeq
<1>6. s[1] \in letters /\ name[1] = s[1]
  BY <1>1, <1>2, <1>3, FreshSegment DEF Letters
<1> HIDE DEF name, letters
<1>7. rest \in [1 .. m - 1 -> letters] /\ m - 1 \in Nat
  BY <1>1, <1>4
<1>8. rest \in Seq(letters) /\ Len(rest) = m - 1 /\ \A i \in 1 .. m - 1 : rest[i] = name[i + 1]
  BY <1>7, FunctionIsSeq
<1> HIDE DEF rest
<1>9. /\ <<s[1]>> \in Seq(letters) /\ Len(<<s[1]>>) = 1 /\ <<s[1]>>[1] = s[1]
  BY <1>6
<1>10. /\ <<s[1]>> \o rest \in Seq(letters) /\ Len(<<s[1]>> \o rest) = m
       /\ \A i \in 1 .. m : (<<s[1]>> \o rest)[i] = IF i <= 1 THEN <<s[1]>>[i] ELSE rest[i - 1]
  BY <1>8, <1>9, <1>1, ConcatProperties
<1>11. \A i \in 1 .. m : (<<s[1]>> \o rest)[i] = name[i]
  BY <1>1, <1>6, <1>8, <1>9, <1>10
<1>12. name = <<s[1]>> \o rest
  BY <1>5, <1>10, <1>11, SeqEqual
<1>13. name \in Written(t, s)
  <2>1. m - 1 \in 1 .. (1 + Max({Len(t), Len(s)})) - 1
    BY <1>1, FixedPart, MaxOfTwo
  <2>2. rest \in Rests(t, s)
    BY <2>1, <1>7 DEF Rests, letters
  <2> QED BY <2>2, <1>12, WrittenNames
<1>14. m = Len(s) \/ Trailing(s) => Fits(s, name)
  <2>1. \A i \in 1 .. Fixed(s) : s[i] \in {Star, name[i]}
    BY <1>1, <1>3
  <2> QED BY <2>1, <1>1, <1>5 DEF Fits, Fixed
<1> QED BY <1>1, <1>3, <1>5, <1>13, <1>14 DEF name

LEMMA InclusionIsComplete ==
  ASSUME NEW t \in Names, NEW s \in Names, WellWritten(t), WellWritten(s),
         \A name \in Written(t, s) : Len(name) \in Nat /\ Fits(s, name) => Fits(t, name)
  PROVE  Includes(t, s)
<1> DEFINE short == Spelt(t, s, Len(s))
           long == Spelt(t, s, Max({Len(t), Len(s)}) + 1)
<1>1. /\ Len(t) \in Nat /\ Len(s) \in Nat /\ Fixed(t) \in 1 .. Len(t) /\ Fixed(s) \in 1 .. Len(s)
      /\ t \in Seq(Text)
  BY FixedPart DEF WellWritten
<1>2. Max({Len(t), Len(s)}) \in Nat /\ Max({Len(t), Len(s)}) >= Len(t) /\ Max({Len(t), Len(s)}) >= Len(s)
  BY <1>1, MaxOfTwo
<1>3. /\ Len(short) = Len(s) /\ Fits(t, short)
      /\ \A i \in 1 .. Fixed(s) : short[i] = IF s[i] # Star THEN s[i] ELSE Fresh(t, s)
  BY <1>1, <1>2, SpeltIsWritten
<1>4. Trailing(s) => Len(long) > Len(t) /\ Fits(t, long)
  BY <1>1, <1>2, SpeltIsWritten
<1> HIDE DEF short, long
<1>5. Trailing(s) => Trailing(t)
  BY <1>1, <1>4 DEF Fits, Fixed
<1>6. IF Trailing(t) THEN Len(s) > Fixed(t) ELSE Len(s) = Fixed(t)
  BY <1>3 DEF Fits
<1>7. Fixed(t) <= Fixed(s)
  BY <1>1, <1>5, <1>6 DEF Fixed
<1>8. ASSUME NEW i \in 1 .. Fixed(t) PROVE t[i] = Star \/ t[i] = s[i]
  <2>1. i \in 1 .. Fixed(s) /\ i \in DOMAIN t
    BY <1>1, <1>7, LenProperties
  <2>2. t[i] \in {Star, short[i]} /\ t[i] \in ToSet(t)
    BY <1>3, <2>1 DEF Fits, ToSet
  <2> QED BY <1>3, <2>1, <2>2, FreshSegment
<1> QED BY <1>5, <1>6, <1>8, IncludesBySegments

LEMMA InclusionOfPatterns ==
  ASSUME NEW t \in Names, NEW s \in Names, WellWritten(t), WellWritten(s)
  PROVE  Includes(t, s) <=> \A name \in Written(t, s) : Fills(s, name) => Fills(t, name)
<1>1. ASSUME NEW name \in Written(t, s) PROVE Len(name) \in Nat
  <2>0. HasParts(t, s, name)
    BY <1>1, WrittenParts
  <2>1. PICK n \in {t[1], s[1]}, rest \in Rests(t, s) : name = <<n>> \o rest
    BY <2>0 DEF HasParts
  <2>2. Max({Len(t), Len(s)}) \in Nat
    <3>1. Len(t) \in Nat
      BY FixedPart
    <3>2. Len(s) \in Nat
      BY FixedPart
    <3> QED BY <3>1, <3>2, MaxOfTwo
  <2>3. PICK k \in 1 .. (1 + Max({Len(t), Len(s)})) - 1 : rest \in [1 .. k -> Letters(t, s)]
    BY <2>1 DEF Rests
  <2>4. k \in Nat
    BY <2>2
  <2> DEFINE all == Letters(t, s) \union {n}
  <2>5. rest \in [1 .. k -> all]
    BY <2>3
  <2>6. rest \in Seq(all) /\ <<n>> \in Seq(all)
    BY <2>4, <2>5, FunctionIsSeq
  <2> HIDE DEF all
  <2> QED BY <2>1, <2>6, ConcatProperties, LenProperties
<1>2. \A name \in Written(t, s) : (Fills(s, name) <=> Fits(s, name)) /\ (Fills(t, name) <=> Fits(t, name))
  BY <1>1, FillsIsFits
<1>3. ASSUME Includes(t, s), NEW name \in Written(t, s), Fits(s, name) PROVE Fits(t, name)
  BY <1>1, <1>3, InclusionIsSound
<1> QED BY <1>1, <1>2, <1>3, InclusionIsComplete

NamesInForce == \A g \in grants : g.target \in Names /\ IsTarget(g.target)

LEMMA TargetsInForce == IamSpec => []NamesInForce
<1>1. IamInit => NamesInForce
  BY DEF IamInit, NamesInForce
<1>2. NamesInForce /\ [IamNext]_iamVars => NamesInForce'
  <2> SUFFICES ASSUME NamesInForce, [IamNext]_iamVars PROVE NamesInForce'
    OBVIOUS
  <2>1. ASSUME NEW u \in Person, NEW target \in Names, GrantTarget(u, target) PROVE NamesInForce'
    BY <2>1 DEF NamesInForce, GrantTarget
  <2>2. ASSUME NEW g \in grants, RevokeTarget(g) PROVE NamesInForce'
    BY <2>2 DEF NamesInForce, RevokeTarget
  <2>3. ASSUME UNCHANGED grants PROVE NamesInForce'
    BY <2>3 DEF NamesInForce
  <2> QED BY <2>1, <2>2, <2>3 DEF IamNext, iamVars, PublishCatalog, GetMe, ListGrants, SetSeat,
             ReadCatalogs, Show, Holders, Answer, Tick
<1> QED BY <1>1, <1>2, PTL DEF IamSpec

(***************************************************************************)
(* One target contains another exactly when every name of the other is one *)
(* of its own, for patterns of any length over any segments                *)
(* (Permission::includes in iam/lib.rs).                                   *)
(***************************************************************************)
THEOREM InclusionExact == IamSpec => []InclusionIsExact
<1>1. NamesInForce => InclusionIsExact
  <2> SUFFICES ASSUME NamesInForce, NEW t \in InForce, NEW s \in InForce
               PROVE  Includes(t, s) <=> \A name \in Written(t, s) : Fills(s, name) => Fills(t, name)
    BY DEF InclusionIsExact
  <2>1. /\ t \in Names /\ s \in Names /\ IsPattern(t) /\ IsPattern(s)
    BY DEF InForce, NamesInForce, IsTarget
  <2>2. WellWritten(t) /\ WellWritten(s)
    BY <2>1, NamesAssumption DEF WellWritten, Text
  <2> QED BY <2>1, <2>2, InclusionOfPatterns
<1> QED BY <1>1, TargetsInForce, PTL
=============================================================================
