----------------------------- MODULE LockOrder -----------------------------
(***************************************************************************)
(* The locks that the transactions of the identity plane take, one at a    *)
(* time and in the order their statements ask for them: the single row of  *)
(* governance_revision, rows of users, and the advisory lock under which   *)
(* user_outbox is appended to.                                             *)
(*                                                                         *)
(* Locks live until the transaction ends.  FOR UPDATE is exclusive; the    *)
(* foreign keys of admin_action, governance_event and the proposal tables  *)
(* take the referenced users row FOR KEY SHARE, which waits for another    *)
(* transaction's FOR UPDATE.  What a transaction reads and writes is in    *)
(* the modules of its component; here only who waits for whom matters.     *)
(***************************************************************************)
EXTENDS Integers, FiniteSets, Sequences

CONSTANTS
  User,      \* accounts, numbered in the order of their ids
  Owner,     \* the accounts that hold a seat
  Tx,        \* connections, each with at most one transaction open
  Traffics   \* bound: which kinds of transaction may run side by side

OpKinds == {"own_write", "set_role", "grant", "open", "ballot", "verdict"}

ASSUME AccountsAssumption == User \subseteq Nat /\ IsFiniteSet(User) /\ Owner \subseteq User
ASSUME TrafficAssumption == Traffics \subseteq SUBSET OpKinds

VARIABLES
  traffic, \* the kinds of transaction of this behaviour, one of Traffics
  op,      \* the operation each connection runs, or Idle
  held     \* the locks its transaction holds, with their modes

vars == <<traffic, op, held>>

Idle == [kind |-> "idle"]

(* subject: the account written about; actor: who asked, voted or opened. *)
Operation ==
  {o \in [kind : OpKinds, subject : User, actor : User] :
     /\ o.kind = "own_write" => o.actor = o.subject
     /\ o.kind \in {"set_role", "grant"} => o.actor # o.subject
     /\ o.kind \in {"set_role", "open", "verdict"} => o.actor \in Owner}

Revision == <<"revision", 0>>
Outbox   == <<"outbox", 0>>
Row(u)   == <<"users", u>>
Lock     == {Revision, Outbox} \union {Row(u) : u \in User}
Mode     == {"exclusive", "key_share"}

(***************************************************************************)
(* The statements of each transaction that lock                            *)
(***************************************************************************)

(* FOR UPDATE on these rows, in the order of their ids. *)
ForUpdate(us)  == [locks |-> {Row(u) : u \in us}, mode |-> "exclusive"]
(* The check of a foreign key that names u. *)
References(u)  == [locks |-> {Row(u)}, mode |-> "key_share"]
Exclusive(l)   == [locks |-> {l}, mode |-> "exclusive"]
LockGovernance == Exclusive(Revision)
DrainOutbox    == Exclusive(Outbox)

(* The account's own edits, the vendor's raise, the hold sweep: no actor is named. *)
OwnWrite(o) == <<ForUpdate({o.subject}), DrainOutbox>>

(* An operator's decision, a hold among them, whose audit row names the operator. *)
Audited(o) == <<ForUpdate({o.subject}), DrainOutbox, References(o.actor)>>

(* A role is not set on whoever holds a seat: refused from the locked row. *)
SetRole(o) == IF o.subject \in Owner THEN <<ForUpdate({o.subject})>> ELSE Audited(o)

(* One statement locks subject and actor; nothing is announced. *)
Grant(o) == <<ForUpdate({o.subject, o.actor})>>

(* Opening: the roster is the initiator and the peers, the subject is referenced. *)
Open(o) == <<LockGovernance, ForUpdate(Owner), References(o.subject)>>

(* An answer that decides nothing yet. *)
CastBallot(o) == <<LockGovernance, References(o.actor)>>

(* Mutant: the consilia no longer order themselves on the revision row. *)
Verdict_Unordered(o) ==
  <<ForUpdate({o.subject}), ForUpdate(Owner), DrainOutbox, References(o.actor)>>
(* An answer that carries the proposal, and a resignation. *)
Verdict(o) ==
  <<LockGovernance, ForUpdate(Owner), ForUpdate({o.subject}), DrainOutbox, References(o.actor)>>

Statements(o) ==
  CASE o.kind = "own_write"            -> OwnWrite(o)
    [] o.kind = "set_role"             -> SetRole(o)
    [] o.kind = "grant"                -> Grant(o)
    [] o.kind = "open"                 -> Open(o)
    [] o.kind = "ballot"               -> CastBallot(o)
    [] o.kind = "verdict"              -> Verdict(o)

(***************************************************************************)
(* Who waits for whom                                                      *)
(***************************************************************************)

Running(t) == op[t] # Idle

(* A lock held exclusively covers a share of it. *)
Holds(t, l, m) == \E h \in held[t] : h.lock = l /\ h.mode \in {"exclusive", m}

(* What the statements of o ask for, each request with its statement's place. *)
Requests(o) ==
  UNION {{[at |-> i, lock |-> l, mode |-> Statements(o)[i].mode] : l \in Statements(o)[i].locks} :
           i \in DOMAIN Statements(o)}

Precedes(q, r) == q.at < r.at \/ (q.at = r.at /\ q.lock[2] < r.lock[2])

Missing(t) == IF Running(t) THEN {r \in Requests(op[t]) : ~Holds(t, r.lock, r.mode)} ELSE {}

(* What t asks for now: the first request it has not been granted, if there is one. *)
Wanted(t) == {r \in Missing(t) : \A q \in Missing(t) : ~Precedes(q, r)}

Conflict(m, n) == m = "exclusive" \/ n = "exclusive"

(* The transactions that keep t from what it wants. *)
WaitsFor(t) ==
  {u \in Tx \ {t} : \E w \in Wanted(t), h \in held[u] : w.lock = h.lock /\ Conflict(w.mode, h.mode)}

Init ==
  /\ traffic \in Traffics
  /\ op = [t \in Tx |-> Idle]
  /\ held = [t \in Tx |-> {}]

Begin(t, o) ==
  /\ ~Running(t)
  /\ o.kind \in traffic
  /\ op' = [op EXCEPT ![t] = o]
  /\ UNCHANGED <<traffic, held>>

(* The next lock is granted as soon as nobody holds it in a conflicting mode. *)
Acquire(t) ==
  /\ Wanted(t) # {}
  /\ WaitsFor(t) = {}
  /\ held' = [held EXCEPT ![t] = @ \union {[lock |-> r.lock, mode |-> r.mode] : r \in Wanted(t)}]
  /\ UNCHANGED <<traffic, op>>

EndOf(t) ==
  /\ op' = [op EXCEPT ![t] = Idle]
  /\ held' = [held EXCEPT ![t] = {}]
  /\ UNCHANGED traffic

Commit(t) == Running(t) /\ Missing(t) = {} /\ EndOf(t)

(* A refusal, an error or a lost connection: everything is rolled back. *)
Rollback(t) == Running(t) /\ EndOf(t)

Next == \E t \in Tx : (\E o \in Operation : Begin(t, o)) \/ Acquire(t) \/ Commit(t) \/ Rollback(t)

Spec == Init /\ [][Next]_vars

(***************************************************************************)
(* Correctness                                                             *)
(***************************************************************************)

TypeOK ==
  /\ traffic \in Traffics
  /\ op \in [Tx -> Operation \union {Idle}]
  /\ held \in [Tx -> SUBSET [lock : Lock, mode : Mode]]
  /\ \A t \in Tx : ~Running(t) => held[t] = {}

(* Locks exclude: two transactions never hold one lock in conflicting modes. *)
LocksExclude ==
  \A t, u \in Tx : t # u =>
    \A h \in held[t], k \in held[u] : h.lock = k.lock => ~Conflict(h.mode, k.mode)

(* The transactions of S wait for each other in a circle. *)
WaitCycle(S) == S # {} /\ \A t \in S : WaitsFor(t) \intersect S # {}

(***************************************************************************)
(* Nobody waits in a circle, whatever locks each transaction has got as    *)
(* far as taking: owners' rows before the subject's row, one users row     *)
(* before the outbox, the rows of one statement in the order of their ids  *)
(* (lock_governance, owner_ids_for_update, load_for_update, drain_outbox,  *)
(* lock_users).                                                            *)
(***************************************************************************)
NoWaitCycle == \A S \in SUBSET Tx : ~WaitCycle(S)

(***************************************************************************)
(* Taking only the target's row "cannot deadlock against the consilium"    *)
(* (runner/src/ports.rs:541, of set_role_outside_ownership).               *)
(***************************************************************************)
SetRoleNeverDeadlocks ==
  \A t, u \in Tx :
    (Running(t) /\ op[t].kind = "set_role" /\ Running(u) /\ op[u].kind = "verdict") => ~WaitCycle({t, u})
=============================================================================
