------------------------------- MODULE Console -------------------------------
(***************************************************************************)
(* An operator's request to the console: the gate on the live record, the  *)
(* emergency access read beside it, the second look at who is acting, and  *)
(* the transaction (runner/src/directory.rs, authz.rs, platform.rs,        *)
(* infrastructure/users.rs), while seats and standings move between them.  *)
(*                                                                         *)
(* Every act is one transaction under the row of its target.  Placing a    *)
(* hold is taken apart: it locks the target, reads the actor without       *)
(* locking it, and meets the actor's row only when the audit row names it. *)
(* How long a hold lasts, and what the owners make of it, is in Holds.     *)
(***************************************************************************)
EXTENDS Naturals, Sequences, FiniteSets

CONSTANTS
  Account, Desk,   \* accounts; requests in flight
  Strangers,       \* accounts without a row yet
  Listed,          \* the ids of OWNER_SUBJECTS
  Unproven,        \* accounts whose mailbox is not verified
  MinOwners,       \* the register never falls below it once it is seeded
  MaxLevel,        \* the highest KYC level
  MaxActs          \* bound: writes of any kind

Vendor == "vendor"
Nobody == "nobody"

ASSUME ConsoleAssumption ==
  /\ IsFiniteSet(Account) /\ {Vendor, Nobody} \intersect Account = {}
  /\ Strangers \subseteq Account /\ Listed \subseteq Account /\ Unproven \subseteq Account
  /\ MinOwners \in Nat \ {0} /\ MaxLevel \in Nat /\ MaxActs \in Nat

VARIABLES
  record,     \* users: role, status, its cause and who placed the hold, token_version, kyc_level
  sealed,     \* the latch that retires emergency access
  desk,       \* what each request is doing
  maintenance,  \* platform_config
  levels,     \* admin_action: the rows about levels, in the order written
  entitled,   \* history: whether the caller has been entitled since the request arrived
  acts        \* writes so far

consoleVars == <<record, sealed, desk, maintenance, levels, entitled, acts>>

Role == {"investor", "operator", "admin", "owner"}
Verb == {"set_role", "set_kyc_level", "revoke_tokens", "hold", "reinstate", "set_maintenance"}
Waiting == [step |-> "waiting"]

Rows == Account \ Strangers
Owners == {u \in Rows : record[u].role = "owner"}

Fresh(role) == [role |-> role, active |-> TRUE, by |-> "none", holder |-> Nobody, version |-> 0, level |-> 0]

ConsoleInit ==
  /\ \E role \in [Rows -> {"investor", "admin", "owner"}] :
       record = [u \in Account |-> Fresh(IF u \in Rows THEN role[u] ELSE "investor")]
  /\ sealed = FALSE
  /\ desk = [d \in Desk |-> Waiting]
  /\ maintenance = FALSE
  /\ levels = <<>>
  /\ entitled = [d \in Desk |-> FALSE]
  /\ acts = 0

Stands(d, step) == desk[d].step = step
Turns(d, next) == desk' = [desk EXCEPT ![d] = next]
Unwritten == UNCHANGED <<record, maintenance, levels, acts>>

(***************************************************************************)
(* What a seat means                                                       *)
(***************************************************************************)
Permissions(role) ==
  CASE role = "owner" -> {"role:grant", "kyc:manage", "user:suspend", "user:revoke", "platform:manage"}
    [] role = "admin" -> {"kyc:manage", "user:suspend", "user:revoke", "platform:manage"}
    [] OTHER -> {}

Needs(verb) ==
  CASE verb = "set_role" -> "role:grant"
    [] verb = "set_kyc_level" -> "kyc:manage"
    [] verb = "revoke_tokens" -> "user:revoke"
    [] verb = "set_maintenance" -> "platform:manage"
    [] OTHER -> "user:suspend"

May(role, verb) == Needs(verb) \in Permissions(role)

(***************************************************************************)
(* The gate                                                                *)
(***************************************************************************)
(* The live record: its standing and its token version; a stranger has none to enforce. *)
CallerGate(u, version) == u \in Rows => record[u].active /\ version >= record[u].version

Receive(d, u, verb, target, version) ==
  /\ Stands(d, "waiting")
  /\ version <= record[u].version
  /\ CallerGate(u, version)
  /\ Turns(d, [step |-> "gated", caller |-> u, verb |-> verb, target |-> target, version |-> version,
               role |-> IF u \in Rows THEN record[u].role ELSE "stranger"])
  /\ Unwritten /\ UNCHANGED sealed

(* Mutant: an unreadable register counts as an empty one. *)
Elevates_OpenOnError(u, readable) == u \in Listed /\ ~sealed /\ (readable => Owners = {})

(* The list counts while nobody holds a seat; a failed read counts as sealed. *)
Elevates(u, readable) == u \in Listed /\ ~sealed /\ readable /\ Owners = {}

(* The register is counted only while the latch is open and somebody is listed. *)
Snapshot(readable) == sealed' = (sealed \/ (Listed # {} /\ readable /\ Owners # {}))

RoleOf(d, readable) == IF Elevates(desk[d].caller, readable) THEN "owner" ELSE desk[d].role

RequirePermission(d, readable) ==
  /\ Stands(d, "gated")
  /\ Snapshot(readable)
  /\ IF May(RoleOf(d, readable), desk[d].verb)
     THEN Turns(d, [desk[d] EXCEPT !.step = "permitted"])
     ELSE Turns(d, Waiting)
  /\ Unwritten

(* The gate once more, for the id the audit row will name. *)
ActingOperator(d) ==
  /\ Stands(d, "permitted") /\ desk[d].verb # "set_maintenance"
  /\ CallerGate(desk[d].caller, desk[d].version)
  /\ Turns(d, [desk[d] EXCEPT !.step = "acting"])
  /\ Unwritten /\ UNCHANGED sealed

(* Refused anywhere, or the process died: nothing was written. *)
Refused(d) ==
  /\ ~Stands(d, "waiting")
  /\ Turns(d, Waiting)
  /\ Unwritten /\ UNCHANGED sealed

(***************************************************************************)
(* The transactions                                                        *)
(***************************************************************************)
Locking(d, u) == desk[d].step \in {"locked", "deciding"} /\ desk[d].target = u
RowFree(d, u) == \A e \in Desk \ {d} : ~Locking(e, u)

Counts == acts < MaxActs /\ acts' = acts + 1

(* The target's row is written, and the audit row's foreign key shares the actor's. *)
Acts(d, verb, row) ==
  LET w == desk[d]
  IN  /\ Stands(d, "acting") /\ w.verb = verb
      /\ w.target \in Rows /\ w.caller \in Rows
      /\ RowFree(d, w.target) /\ RowFree(d, w.caller)
      /\ record' = [record EXCEPT ![w.target] = row]
      /\ Turns(d, Waiting)
      /\ Counts /\ UNCHANGED <<sealed, maintenance>>

Target(d) == record[desk[d].target]

RevokeTokens(d) ==
  /\ Acts(d, "revoke_tokens", [Target(d) EXCEPT !.version = @ + 1])
  /\ UNCHANGED levels

(* Ownership and its grant are no role edit, nor is the grant of admin. *)
EditRole(d, role) ==
  /\ Stands(d, "acting")
  /\ (role = "owner") = (Target(d).role = "owner")
  /\ role = "admin" => Target(d).role = "admin"
  /\ Acts(d, "set_role", [Target(d) EXCEPT !.role = role])
  /\ UNCHANGED levels

(* Nothing but the owners may lift the owners' verdict. *)
Reinstate(d) ==
  /\ Stands(d, "acting")
  /\ Target(d).by # "owners"
  /\ Acts(d, "reinstate", [Target(d) EXCEPT !.active = TRUE, !.by = "none", !.holder = Nobody])
  /\ UNCHANGED levels

(* The level before it is read where the row is locked. *)
LevelRow(u, level, by) == levels' = Append(levels, [user |-> u, from |-> record[u].level, to |-> level, by |-> by])

WritableLevel(u, level) == level > 0 => u \notin Unproven

SetKycLevel(d, level) ==
  /\ Stands(d, "acting")
  /\ desk[d].target # desk[d].caller
  /\ WritableLevel(desk[d].target, level)
  /\ Acts(d, "set_kyc_level", [Target(d) EXCEPT !.level = level])
  /\ LevelRow(desk[d].target, level, desk[d].caller)

(* Mutant: a verdict is compared with a level read before, so that it lowers one. *)
MayRaise_Blind(u, level) == TRUE

MayRaise(u, level) == level > record[u].level

(* The vendor's verdict names no operator. *)
RaiseKycLevelTo(u, level) ==
  /\ u \in Rows /\ \A d \in Desk : ~Locking(d, u)
  /\ MayRaise(u, level) /\ WritableLevel(u, level)
  /\ record' = [record EXCEPT ![u].level = level]
  /\ LevelRow(u, level, Vendor)
  /\ Counts /\ UNCHANGED <<sealed, desk, maintenance>>

(* Maintenance is a row of its own: no second look, no audit row. *)
SetMaintenance(d) ==
  /\ Stands(d, "permitted") /\ desk[d].verb = "set_maintenance"
  /\ maintenance' = ~maintenance
  /\ Turns(d, Waiting)
  /\ Counts /\ UNCHANGED <<record, sealed, levels>>

(* A hold takes the target's row first. *)
HoldLocks(d) ==
  LET w == desk[d]
  IN  /\ Stands(d, "acting") /\ w.verb = "hold"
      /\ w.target # w.caller
      /\ w.target \in Rows
      /\ RowFree(d, w.target)
      /\ Turns(d, [w EXCEPT !.step = "locked"])
      /\ Unwritten /\ UNCHANGED sealed

(* Mutant: only the gate looks whether the actor is suspended. *)
ActorStands_ByTheGate(u) == TRUE

ActorStands(u) == u \in Rows => record[u].active

PersistedRole(u) == IF u \in Rows THEN record[u].role ELSE "investor"

(* The seat an operator may not touch, the verdict a hold may not replace, the brake it may *)
(* not press twice.                                                                         *)
MayHold(role, target) ==
  /\ target.by = "none"
  /\ target.role \in {"admin", "owner"} => role = "owner"

(* The actor's row is read without a lock, when the target's is held. *)
HoldReadsActor(d) ==
  LET w == desk[d]
  IN  /\ Stands(d, "locked")
      /\ ActorStands(w.caller)
      /\ MayHold(PersistedRole(w.caller), Target(d))
      /\ Turns(d, [w EXCEPT !.step = "deciding"])
      /\ Unwritten /\ UNCHANGED sealed

(* The audit row waits for whoever has the actor's row. *)
HoldCommits(d) ==
  LET w == desk[d]
  IN  /\ Stands(d, "deciding")
      /\ w.caller \in Rows /\ RowFree(d, w.caller)
      /\ record' = [record EXCEPT ![w.target].active = FALSE, ![w.target].by = "hold",
                                   ![w.target].holder = w.caller]
      /\ Turns(d, Waiting)
      /\ Counts /\ UNCHANGED <<sealed, maintenance, levels>>

(***************************************************************************)
(* What moves beside the console                                           *)
(***************************************************************************)
Moved(u, row) ==
  /\ u \in Rows /\ \A d \in Desk : ~Locking(d, u)
  /\ record' = [record EXCEPT ![u] = row]
  /\ Counts /\ UNCHANGED <<sealed, desk, maintenance, levels>>

(* "Sign out everywhere" is the user's own. *)
RevokeAll(u) == Moved(u, [record[u] EXCEPT !.version = @ + 1])

(* The seed or the peers seat somebody; a seat is lost while the register can spare it. *)
SeatOwner(u) == Moved(u, [record[u] EXCEPT !.role = "owner"])

Unseat(u) ==
  /\ record[u].role = "owner" /\ Cardinality(Owners) > MinOwners
  /\ Moved(u, [record[u] EXCEPT !.role = "investor"])

Suspend(u) == Moved(u, [record[u] EXCEPT !.active = FALSE, !.by = "owners", !.holder = Nobody])

(* A replica of the process starts with an open latch. *)
Restart ==
  /\ sealed /\ sealed' = FALSE
  /\ desk' = [d \in Desk |-> Waiting]
  /\ Unwritten

Entitled(d) ==
  LET w == desk[d]
  IN  /\ w.step # "waiting"
      /\ CallerGate(w.caller, w.version)
      /\ \/ w.caller \in Rows /\ May(record[w.caller].role, w.verb)
         \/ w.caller \in Listed /\ Owners = {}

(* Kept by the model alone: what was true at any moment since a request arrived. *)
Watches == entitled' = [d \in Desk |-> IF desk'[d] = Waiting THEN FALSE ELSE entitled[d] \/ Entitled(d)']

Writes(d) ==
  \/ RevokeTokens(d) \/ Reinstate(d) \/ HoldCommits(d) \/ SetMaintenance(d)
  \/ \E role \in Role : EditRole(d, role)
  \/ \E level \in 0 .. MaxLevel : SetKycLevel(d, level)

ConsoleNext ==
  /\ \/ \E d \in Desk :
          \/ \E u \in Account, target \in Rows, verb \in Verb : \E version \in 0 .. record[u].version :
               Receive(d, u, verb, target, version)
          \/ \E readable \in BOOLEAN : RequirePermission(d, readable)
          \/ ActingOperator(d) \/ Refused(d) \/ HoldLocks(d) \/ HoldReadsActor(d) \/ Writes(d)
     \/ \E u \in Account :
          \/ RevokeAll(u) \/ SeatOwner(u) \/ Unseat(u) \/ Suspend(u)
          \/ \E level \in 0 .. MaxLevel : RaiseKycLevelTo(u, level)
     \/ Restart
  /\ Watches

ConsoleSpec == ConsoleInit /\ [][ConsoleNext]_consoleVars

(***************************************************************************)
(* What is promised                                                        *)
(***************************************************************************)

(***************************************************************************)
(* Between the gate, the count of the owners and the transaction the       *)
(* caller may lose anything; what is written was at least asked for by     *)
(* somebody who, at one moment since the request arrived, had the seat or  *)
(* the emergency access for it, in good standing and with a live token     *)
(* (authz.rs: "it grants a role, never an exemption").                     *)
(***************************************************************************)
ActsWereAuthorised == [][\A d \in Desk : Writes(d) => entitled[d]]_consoleVars

(***************************************************************************)
(* "Two owners pressing on each other at once": nobody is frozen by        *)
(* somebody whom he froze, though each hold reads its actor's row without  *)
(* locking it and only the audit row's key meets it (users.rs, hold_user). *)
(***************************************************************************)
HoldsAreNotMutual == \A u, v \in Rows : ~(record[u].holder = v /\ record[v].holder = u)

(***************************************************************************)
(* The log of levels reads as one chain for each account: every row starts *)
(* from the level the last one left, the account stands where the last row *)
(* ended, and neither the vendor lowers a level nor anybody writes their   *)
(* own (users.rs, set_kyc_level, raise_kyc_level_to).                      *)
(***************************************************************************)
(* Where the first n rows leave the account. *)
Leaves(rows, u, n, level) ==
  \/ level = 0 /\ \A i \in 1 .. n : rows[i].user # u
  \/ \E i \in 1 .. n :
       rows[i].user = u /\ rows[i].to = level /\ \A j \in i + 1 .. n : rows[j].user # u

LevelsFormAChain ==
  \A u \in Rows :
    /\ Leaves(levels, u, Len(levels), record[u].level)
    /\ \A i \in 1 .. Len(levels) :
         levels[i].user = u =>
           /\ Leaves(levels, u, i - 1, levels[i].from)
           /\ levels[i].by # u
           /\ levels[i].by = Vendor => levels[i].to > levels[i].from
=============================================================================
