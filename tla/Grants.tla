-------------------------------- MODULE Grants --------------------------------
(***************************************************************************)
(* Grants inside one tenant's namespace: seats and delegates grant and     *)
(* revoke the tenant's aliases (runner/src/infrastructure/grants.rs), the  *)
(* tenant republishes what they mean, and governance moves seats and       *)
(* holds accounts at the same time.                                        *)
(*                                                                         *)
(* A grant decides who may make it inside its transaction, from rows it    *)
(* holds locked; only the precheck before it reads the gate's copy.        *)
(***************************************************************************)
EXTENDS Naturals, FiniteSets

CONSTANTS
  User, Worker,
  Unnamed,      \* what an id or a handle names instead of one account: none, several
  Alias,        \* what a grant may name: an alias, a permission or a pattern
  Versions,     \* bound: catalogs the tenant publishes, 1 .. Versions
  Defined,      \* by version, the aliases that mean something
  Delegations,  \* by version, what the holders of an alias may pass on
  Elevated,     \* accounts with emergency access
  MaxMoves      \* bound: changes of a role or a standing

Answers == {"denied", "undefined", "disabled", "ungrantable", "to self", "granted"}

ASSUME UnnamedAssumption == Unnamed \intersect (User \union Answers) = {}
ASSUME CatalogAssumption ==
  /\ Versions \in Nat \ {0}
  /\ Defined \in [1 .. Versions -> SUBSET Alias]
  /\ Delegations \in [1 .. Versions -> [Alias -> SUBSET Alias]]
ASSUME BoundAssumption == MaxMoves \in Nat

VARIABLES
  seat,     \* the accounts whose role may grant (Role::may(Iam::Grant))
  active,   \* the accounts in good standing
  grant,    \* the grants nobody has revoked: who holds what
  catalog,  \* the highest version published
  worker,   \* what each request is doing
  moves     \* changes of a role or a standing so far

vars == <<seat, active, grant, catalog, worker, moves>>

Idle == [step |-> "idle"]
Subject == User \union Unnamed

Init ==
  /\ seat \in SUBSET User
  /\ active = User
  /\ grant = {}
  /\ catalog = 1
  /\ worker = [p \in Worker |-> Idle]
  /\ moves = 0

At(p, step) == worker[p].step = step
Goes(p, next) == worker' = [worker EXCEPT ![p] = next]
Ends(p) == Goes(p, Idle)

(***************************************************************************)
(* What a catalog makes of the grants                                      *)
(***************************************************************************)
Targets(u) == {t \in Alias : [user |-> u, target |-> t] \in grant}

Delegable(u, version) == UNION {Delegations[version][t] : t \in Targets(u)}

(***************************************************************************)
(* The transaction of a grant or a revocation                              *)
(***************************************************************************)
(* A delegate without a seat passes on the aliases it holds. *)
Precheck(u, target, elevated) == u \in seat \/ elevated \/ target \in Delegable(u, catalog)

(* The caller's gate, and the precheck on its copy of the caller. *)
GrantActor(p, u, target) ==
  /\ At(p, "idle")
  /\ u \in active
  /\ \E elevated \in BOOLEAN :
       /\ elevated => u \in Elevated
       /\ Precheck(u, target, elevated)
       /\ Goes(p, [step |-> "admitted", actor |-> u, elevated |-> elevated, target |-> target])
  /\ UNCHANGED <<seat, active, grant, catalog, moves>>

(* Mutant: the account the grant goes to is not locked. *)
LockUsers_ActorOnly(p, subject) == {worker[p].actor}

LockUsers(p, subject) == {worker[p].actor, subject} \intersect User

InTransaction(p) == worker[p].step \in {"locked", "writing"}
Locked == UNION {LockUsers(p, worker[p].subject) : p \in {q \in Worker : InTransaction(q)}}

(* The id or the handle is resolved, then the rows of both accounts are taken in the order *)
(* of their ids.                                                                           *)
Begin(p, subject, verb) ==
  LET w == worker[p]
  IN  /\ At(p, "admitted")
      /\ LockUsers(p, subject) \intersect Locked = {}
      /\ Goes(p, [step |-> "locked", actor |-> w.actor, elevated |-> w.elevated,
                  target |-> w.target, verb |-> verb, subject |-> subject])
      /\ UNCHANGED <<seat, active, grant, catalog, moves>>

(* A disabled account acts with nothing; emergency access needs no row to say so. *)
ActsFromSeat(p) == worker[p].actor \in active /\ (worker[p].actor \in seat \/ worker[p].elevated)

ActsAsDelegate(p) == worker[p].actor \in active /\ worker[p].target \in Delegable(worker[p].actor, catalog)

(* Mutant: whoever passed the precheck may write. *)
AuthorityOver_Precheck(p) == TRUE

AuthorityOver(p) == ActsFromSeat(p) \/ ActsAsDelegate(p)

(* Only a seat is told why an account cannot be granted. *)
Reason(s) == IF s \in User THEN "disabled" ELSE s

(* Mutant: the account is looked up before the caller is told it may not ask. *)
GrantOutcome_ExistenceFirst(p, s, by) ==
  CASE s \notin active -> Reason(s)
    [] s \in active /\ ~AuthorityOver(p) -> "denied"
    [] OTHER -> "granted"

(* A delegate names whom it grants by a handle. *)
GrantOutcome(p, s, by) ==
  LET w == worker[p]
  IN  CASE ~AuthorityOver(p) \/ (~ActsFromSeat(p) /\ by = "id") -> "denied"
        [] OTHER ->
             CASE w.target \notin Defined[catalog] -> "undefined"
               [] w.target \in Defined[catalog] /\ s \notin active ->
                    IF ActsFromSeat(p) THEN Reason(s) ELSE "ungrantable"
               [] OTHER -> IF s = w.actor THEN "to self" ELSE "granted"

RevokeOutcome(p, s) ==
  CASE ~AuthorityOver(p) -> "denied"
    [] OTHER -> IF s \in User /\ worker[p].target \in Targets(s) THEN "revoked" ELSE "not held"

(* What is held already is not granted again. *)
MayReceive(p, by) ==
  /\ GrantOutcome(p, worker[p].subject, by) = "granted"
  /\ worker[p].target \notin Targets(worker[p].subject)

MayLose(p) == RevokeOutcome(p, worker[p].subject) = "revoked"

Admitted(p, by) == IF worker[p].verb = "grant" THEN MayReceive(p, by) ELSE MayLose(p)

Decide(p, by) ==
  /\ At(p, "locked")
  /\ Admitted(p, by)
  /\ Goes(p, [worker[p] EXCEPT !.step = "writing"])
  /\ UNCHANGED <<seat, active, grant, catalog, moves>>

(* Any other answer writes nothing. *)
Refuse(p, by) ==
  /\ At(p, "locked")
  /\ ~Admitted(p, by)
  /\ Ends(p)
  /\ UNCHANGED <<seat, active, grant, catalog, moves>>

Row(p) == [user |-> worker[p].subject, target |-> worker[p].target]

Grant(p) ==
  /\ At(p, "writing") /\ worker[p].verb = "grant"
  /\ grant' = grant \union {Row(p)}
  /\ Ends(p)
  /\ UNCHANGED <<seat, active, catalog, moves>>

Revoke(p) ==
  /\ At(p, "writing") /\ worker[p].verb = "revoke"
  /\ grant' = grant \ {Row(p)}
  /\ Ends(p)
  /\ UNCHANGED <<seat, active, catalog, moves>>

(* The request dies: its transaction is rolled back. *)
Crash(p) ==
  /\ ~At(p, "idle")
  /\ Ends(p)
  /\ UNCHANGED <<seat, active, grant, catalog, moves>>

(***************************************************************************)
(* What moves beside it                                                    *)
(***************************************************************************)

(* Publishers of one tenant run one after another; an older catalog is stale. *)
Publish(version) ==
  /\ catalog < version
  /\ catalog' = version
  /\ UNCHANGED <<seat, active, grant, worker, moves>>

Moves(u) == u \notin Locked /\ moves < MaxMoves /\ moves' = moves + 1

(* Every write of a role or a standing takes the row of its user. *)
SetRole(u) ==
  /\ Moves(u)
  /\ seat' = IF u \in seat THEN seat \ {u} ELSE seat \union {u}
  /\ UNCHANGED <<active, grant, catalog, worker>>

SetStatus(u) ==
  /\ Moves(u)
  /\ active' = IF u \in active THEN active \ {u} ELSE active \union {u}
  /\ UNCHANGED <<seat, grant, catalog, worker>>

Writes(p) == Grant(p) \/ Revoke(p)

Next ==
  \/ \E p \in Worker :
       \/ \E u \in User, target \in Alias : GrantActor(p, u, target)
       \/ \E subject \in Subject, verb \in {"grant", "revoke"} : Begin(p, subject, verb)
       \/ \E by \in {"id", "handle"} : Decide(p, by) \/ Refuse(p, by)
       \/ Writes(p) \/ Crash(p)
  \/ \E version \in 1 .. Versions : Publish(version)
  \/ \E u \in User : SetRole(u) \/ SetStatus(u)

Spec == Init /\ [][Next]_vars

(***************************************************************************)
(* What is promised                                                        *)
(***************************************************************************)

Request ==
  [step : {"admitted"}, actor : User, elevated : BOOLEAN, target : Alias]
    \union [step : {"locked", "writing"}, actor : User, elevated : BOOLEAN, target : Alias,
            verb : {"grant", "revoke"}, subject : Subject]

(* Every variable stays within its type: a request carries what its step goes by. *)
TypeOK ==
  /\ seat \subseteq User /\ active \subseteq User
  /\ grant \subseteq [user : User, target : Alias]
  /\ catalog \in 1 .. Versions
  /\ worker \in [Worker -> {Idle} \union Request]
  /\ moves \in 0 .. MaxMoves

(* In good standing, and in a seat or a delegate under a catalog the tenant has published. *)
HasAuthority(p) ==
  LET w == worker[p]
  IN  /\ w.actor \in active
      /\ \/ w.actor \in seat \/ w.elevated
         \/ \E version \in 1 .. catalog : w.target \in Delegable(w.actor, version)

(***************************************************************************)
(* "A SetRole/hold on the actor committed after the RPC gate is SEEN"      *)
(* (grants.rs): whoever changes a grant has the authority for it at that   *)
(* very step, and whoever receives one is in good standing.                *)
(***************************************************************************)
GrantsNeedPresentAuthority ==
  [][\A p \in Worker : Writes(p) =>
       HasAuthority(p) /\ (worker[p].verb = "grant" => worker[p].subject \in active)]_vars

(***************************************************************************)
(* "Two grants to one person serialize instead of racing the partial       *)
(* unique index" (grants.rs).                                              *)
(***************************************************************************)
GrantsNeverClash ==
  \A p \in Worker : At(p, "writing") /\ worker[p].verb = "grant" => Row(p) \notin grant

(***************************************************************************)
(* "Authority before existence" (grants.rs): whoever may not grant hears   *)
(* the same whomever he names, and a delegate hears one answer for an      *)
(* address without an account, one that several share and one whose        *)
(* account is disabled, whatever moved since he was admitted.              *)
(***************************************************************************)
GrantsAreNoOracle ==
  \A p \in Worker : At(p, "locked") /\ ~ActsFromSeat(p) =>
    \A s, t \in Subject, by \in {"id", "handle"} :
      /\ GrantOutcome(p, s, by) = "denied" <=> GrantOutcome(p, t, by) = "denied"
      /\ s \notin active /\ t \notin active => GrantOutcome(p, s, by) = GrantOutcome(p, t, by)
=============================================================================
