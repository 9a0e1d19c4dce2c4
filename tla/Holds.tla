------------------------------- MODULE Holds -------------------------------
(***************************************************************************)
(* The emergency brake on an account: one operator's hold that lapses by   *)
(* itself, the owners' suspension that does not, and the sweep that lets   *)
(* due holds go (domain/src/users.rs, infrastructure/users.rs,             *)
(* dispatch.rs).  The votes behind a suspension are in module Consilium;   *)
(* here a proposal is only open until its deadline, and may be carried,    *)
(* refused or withdrawn before.                                            *)
(*                                                                         *)
(* Placing a hold is the one transaction taken apart.  The request reads   *)
(* the clock, then waits for the account's row, then looks for an open     *)
(* proposal WITHOUT locking it, then commits: between those points the     *)
(* clock moves and the proposal may close.  Everything else that writes an *)
(* account does so under its row lock and is one action.                   *)
(***************************************************************************)
EXTENDS Integers, FiniteSets

CONSTANTS
  User,         \* accounts
  Press,        \* requests to place a hold, concurrently in flight
  HoldTTL,      \* how long one operator's brake lasts (HOLD_TTL_SECS)
  ProposalTTL,  \* how long the owners have to answer (REMOVAL_TTL_SECS)
  Cooldown,     \* between two holds the owners were not asked about (HOLD_COOLDOWN_SECS)
  Batch,        \* accounts one pass of the sweep takes (HOLD_SWEEP_BATCH)
  Unlabelled,   \* accounts disabled before suspensions had a cause
  Spoilable,    \* accounts whose row may stop being readable as an account
  Asked,        \* bound: the accounts a suspension is put to the owners about
  Patience,     \* bound: how long a request to hold may wait for the row
  MaxTime       \* bound on the clock

ASSUME ClockAssumption ==
  /\ HoldTTL \in Nat \ {0} /\ ProposalTTL \in Nat /\ Cooldown \in Nat
  /\ HoldTTL < ProposalTTL /\ ProposalTTL < Cooldown
  /\ Patience \in Nat /\ Patience < HoldTTL
  /\ MaxTime \in Nat
ASSUME BatchAssumption == Batch \in Nat \ {0} /\ IsFiniteSet(User)

VARIABLES
  now,        \* the clock
  account,    \* users: status, suspended_by, hold_expires_at, hold_ended_at
  asking,     \* the deadline of the suspension proposal open about an account, or Never
  press,      \* the requests to hold
  sweep,      \* the pass of the sweep under way
  spoiled,    \* accounts whose row no longer loads
  askedUntil, \* history: the last instant the owners were being asked, proposals now closed
  pressedAt   \* history: when the last hold was placed that the owners were not asked about

vars == <<now, account, asking, press, sweep, spoiled, askedUntil, pressedAt>>
history == <<askedUntil, pressedAt>>

Never == -1
Time  == 0..MaxTime

Free    == [phase |-> "free"]
Resting == [left |-> {}, at |-> Never, until |-> [u \in User |-> Never]]

Least(a, b) == IF a <= b THEN a ELSE b
Most(a, b)  == IF a >= b THEN a ELSE b

(***************************************************************************)
(* The aggregate                                                           *)
(***************************************************************************)

Held(a)      == a.by = "hold"
Sentenced(a) == a.by = "owners"

(* Mutant: a renewal adds to the deadline that stood. *)
PlaceHold_Adds(a, at) ==
  [active |-> FALSE, by |-> "hold", until |-> Most(a.until, at) + HoldTTL, ended |-> a.ended]

(* The one writer of a freeze: status, cause and deadline together. *)
PlaceHold(a, at) == [active |-> FALSE, by |-> "hold", until |-> at + HoldTTL, ended |-> a.ended]
Suspend(a)       == [active |-> FALSE, by |-> "owners", until |-> Never, ended |-> a.ended]

(* Mutant: the end of a hold is not remembered. *)
Enable_ForgetsTheHold(a, at) == [active |-> TRUE, by |-> "none", until |-> Never, ended |-> a.ended]

(* A hold ended at its deadline, however late it is lifted. *)
Enable(a, at) ==
  [active |-> TRUE, by |-> "none", until |-> Never,
   ended |-> IF Held(a) THEN Least(at, a.until) ELSE a.ended]

(* Mutant: a hold may replace the owners' verdict. *)
MayHold_OverVerdict(a, at, pending) ==
  pending \/ (~Held(a) /\ (a.ended = Never \/ at >= a.ended + Cooldown))

(* Which holds the aggregate accepts, the actor's seat aside. *)
MayHold(a, at, pending) ==
  /\ ~Sentenced(a)
  /\ pending \/ (~Held(a) /\ (a.ended = Never \/ at >= a.ended + Cooldown))

(* Mutant: the deadline itself is not yet due. *)
MayLapse_Late(a, at)   == Held(a) /\ at > a.until

MayLapse(a, at) == Held(a) /\ at >= a.until

Init ==
  /\ now = 0
  /\ account = [u \in User |-> [active |-> u \notin Unlabelled, by |-> "none", until |-> Never, ended |-> Never]]
  /\ asking = [u \in User |-> Never]
  /\ press = [p \in Press |-> Free]
  /\ sweep = Resting
  /\ spoiled = {}
  /\ askedUntil = [u \in User |-> Never]
  /\ pressedAt = [u \in User |-> Never]

(***************************************************************************)
(* The clock, the owners                                                   *)
(***************************************************************************)

Tick ==
  /\ now < MaxTime
  /\ \A p \in Press : press[p] # Free => now < press[p].at + Patience
  /\ now' = now + 1
  /\ UNCHANGED <<account, asking, press, sweep, spoiled, history>>

Live(u) == asking[u] # Never /\ now < asking[u]

(* The last instant up to which the owners were, or still are, being asked about u. *)
LastAsked(u) == IF asking[u] = Never THEN askedUntil[u] ELSE Least(now, asking[u])

(* Opening stamps a proposal that ran out before, so that it does not hold the slot. *)
AskOwners(u) ==
  /\ ~Live(u)
  /\ asking' = [asking EXCEPT ![u] = now + ProposalTTL]
  /\ askedUntil' = [askedUntil EXCEPT ![u] = LastAsked(u)]
  /\ UNCHANGED <<now, account, press, sweep, spoiled, pressedAt>>

(* Refused, voided or withdrawn: no row of users is touched, so none is waited for. *)
StopAsking(u) ==
  /\ Live(u)
  /\ asking' = [asking EXCEPT ![u] = Never]
  /\ askedUntil' = [askedUntil EXCEPT ![u] = LastAsked(u)]
  /\ UNCHANGED <<now, account, press, sweep, spoiled, pressedAt>>

RowFree(u) == \A p \in Press : press[p].phase = "deciding" => press[p].user # u

(* The owners carry the suspension, over a hold or not. *)
Ratify(u) ==
  /\ Live(u)
  /\ RowFree(u) /\ u \notin spoiled
  /\ account' = [account EXCEPT ![u] = Suspend(@)]
  /\ asking' = [asking EXCEPT ![u] = Never]
  /\ askedUntil' = [askedUntil EXCEPT ![u] = LastAsked(u)]
  /\ UNCHANGED <<now, press, sweep, spoiled, pressedAt>>

(* The owners lift their verdict. *)
Pardon(u) ==
  /\ Sentenced(account[u])
  /\ RowFree(u) /\ u \notin spoiled
  /\ account' = [account EXCEPT ![u] = Enable(@, now)]
  /\ UNCHANGED <<now, asking, press, sweep, spoiled, history>>

(* One operator lifts what one operator may. *)
Reinstate(u) ==
  /\ ~Sentenced(account[u])
  /\ RowFree(u) /\ u \notin spoiled
  /\ account' = [account EXCEPT ![u] = Enable(@, now)]
  /\ UNCHANGED <<now, asking, press, sweep, spoiled, history>>

(***************************************************************************)
(* Placing a hold                                                          *)
(***************************************************************************)

PressHold(p, u) ==
  /\ press[p] = Free
  /\ press' = [press EXCEPT ![p] = [phase |-> "waiting", user |-> u, at |-> now]]
  /\ UNCHANGED <<now, account, asking, sweep, spoiled, history>>

(* The row is locked; then the proposal is read, as of the request's own clock. *)
LockAccount(p) ==
  /\ press[p].phase = "waiting"
  /\ RowFree(press[p].user) /\ press[p].user \notin spoiled
  /\ LET u == press[p].user
     IN  press' = [press EXCEPT ![p] =
           [phase |-> "deciding", user |-> u, at |-> press[p].at,
            pending |-> asking[u] # Never /\ press[p].at < asking[u]]]
  /\ UNCHANGED <<now, account, asking, sweep, spoiled, history>>

HoldCommits(p) ==
  /\ press[p].phase = "deciding"
  /\ LET r == press[p]
     IN  /\ MayHold(account[r.user], r.at, r.pending)
         /\ account' = [account EXCEPT ![r.user] = PlaceHold(@, r.at)]
         /\ pressedAt' = IF r.pending THEN pressedAt ELSE [pressedAt EXCEPT ![r.user] = r.at]
  /\ press' = [press EXCEPT ![p] = Free]
  /\ UNCHANGED <<now, asking, sweep, spoiled, askedUntil>>

(* Refused by the aggregate, or lost with its connection. *)
HoldFails(p) ==
  /\ press[p] # Free
  /\ press' = [press EXCEPT ![p] = Free]
  /\ UNCHANGED <<now, account, asking, sweep, spoiled, history>>

(***************************************************************************)
(* The sweep                                                               *)
(***************************************************************************)

DueFound(at) == {u \in User : account[u].until # Never /\ account[u].until <= at}

(* The scan: the earliest deadlines first, a batch of them, no lock taken. *)
Scan ==
  /\ sweep.left = {}
  /\ DueFound(now) # {}
  /\ \E S \in SUBSET DueFound(now) :
       /\ Cardinality(S) = Least(Batch, Cardinality(DueFound(now)))
       /\ \A u \in S, v \in DueFound(now) \ S : account[u].until <= account[v].until
       /\ sweep' = [left |-> S, at |-> now, until |-> [u \in User |-> account[u].until]]
  /\ UNCHANGED <<now, account, asking, press, spoiled, history>>

(* The account the pass comes to next. *)
NextInPass(u) == u \in sweep.left /\ \A v \in sweep.left : sweep.until[u] <= sweep.until[v]

(* Each in its own transaction, and decided again from the locked row. *)
SweepOne(u) ==
  /\ NextInPass(u)
  /\ RowFree(u) /\ u \notin spoiled
  /\ account' = IF MayLapse(account[u], sweep.at)
                THEN [account EXCEPT ![u] = Enable(@, sweep.at)] ELSE account
  /\ sweep' = IF sweep.left = {u} THEN Resting ELSE [sweep EXCEPT !.left = @ \ {u}]
  /\ UNCHANGED <<now, asking, press, spoiled, history>>

(* A row that does not load is an error of the pass, which ends with it. *)
SweepAborts(u) ==
  /\ NextInPass(u)
  /\ u \in spoiled
  /\ sweep' = Resting
  /\ UNCHANGED <<now, account, asking, press, spoiled, history>>

(* A row is edited into something that is no account (external). *)
RowSpoils(u) ==
  /\ u \in Spoilable \ spoiled
  /\ RowFree(u)
  /\ spoiled' = spoiled \union {u}
  /\ UNCHANGED <<now, account, asking, press, sweep, history>>

(* The process dies with its requests and its pass. *)
Restart ==
  /\ press' = [p \in Press |-> Free]
  /\ sweep' = Resting
  /\ UNCHANGED <<now, account, asking, spoiled, history>>

Next ==
  \/ Tick \/ Scan \/ Restart
  \/ \E u \in User :
       \/ (u \in Asked /\ AskOwners(u)) \/ StopAsking(u) \/ Ratify(u) \/ Pardon(u) \/ Reinstate(u)
       \/ SweepOne(u) \/ SweepAborts(u) \/ RowSpoils(u)
  \/ \E p \in Press : (\E u \in User : PressHold(p, u)) \/ LockAccount(p) \/ HoldCommits(p) \/ HoldFails(p)

Spec == Init /\ [][Next]_vars

(***************************************************************************)
(* run_hold_sweep loops for as long as the process runs, and a transaction *)
(* that holds a row goes on to commit or to fail, after which the database *)
(* hands the row to whoever queues for it.  Restarts come to an end.       *)
(***************************************************************************)
Fairness ==
  /\ WF_vars(Scan)
  /\ SF_vars(\E u \in User : SweepOne(u)) /\ WF_vars(\E u \in User : SweepAborts(u))
  /\ \A p \in Press : WF_vars(HoldCommits(p) \/ HoldFails(p))
StaysUp  == <>[][~Restart]_vars
FairSpec == Spec /\ Fairness /\ StaysUp

(***************************************************************************)
(* Correctness                                                             *)
(***************************************************************************)

Account ==
  [active : BOOLEAN, by : {"none", "hold", "owners"}, until : Int, ended : Int]

PressType ==
  [phase : {"free"}]
    \union [phase : {"waiting"}, user : User, at : Time]
    \union [phase : {"deciding"}, user : User, at : Time, pending : BOOLEAN]

SweepType == [left : SUBSET User, at : Int, until : [User -> Int]]

(***************************************************************************)
(* Types, and the pairing of the columns that no CHECK states: a deadline  *)
(* belongs to a hold and to nothing else, a cause to a disabled account.   *)
(***************************************************************************)
TypeOK ==
  /\ now \in Time
  /\ press \in [Press -> PressType]
  /\ account \in [User -> Account]
  /\ \A u \in User : /\ account[u].until # Never <=> Held(account[u])
                     /\ account[u].by # "none" => ~account[u].active
  /\ asking \in [User -> Int] /\ askedUntil \in [User -> Int] /\ pressedAt \in [User -> Int]
  /\ sweep \in SweepType
  /\ spoiled \subseteq Spoilable

(***************************************************************************)
(* The brake is not a suspension: a hold runs out within one HoldTTL of    *)
(* the press that began it or of the last instant the owners were being    *)
(* asked, however often, however late and from whatever stale reading it   *)
(* was renewed (HOLD_COOLDOWN_SECS and User::hold).                        *)
(***************************************************************************)
HoldLapsesUnlessAsked ==
  \A u \in User : Held(account[u]) =>
    account[u].until <= Most(pressedAt[u], LastAsked(u)) + HoldTTL

(***************************************************************************)
(* No hold, lapse or single operator ever undoes or replaces the owners'   *)
(* verdict: only their own reinstatement ends it.                          *)
(***************************************************************************)
VerdictStands ==
  [][\A u \in User : Sentenced(account[u]) => (Sentenced(account'[u]) \/ Pardon(u))]_vars

(***************************************************************************)
(* Two holds the owners were not asked about lie a cooldown apart, counted *)
(* from the true end of the first, although each is decided from the clock *)
(* of its own request and the sweep dates releases by that of its pass.    *)
(***************************************************************************)
FreshHoldsAreSpaced ==
  [][\A u \in User :
       /\ pressedAt'[u] # pressedAt[u] /\ pressedAt[u] # Never
       => \/ LastAsked(u) >= pressedAt[u]
          \/ /\ account[u].ended >= pressedAt[u]
             /\ pressedAt'[u] >= account[u].ended + Cooldown]_vars

(***************************************************************************)
(* Before its deadline a hold is ended by a person or not at all: the      *)
(* sweep never acts on what its scan believed of a hold since renewed.     *)
(***************************************************************************)
SweepReleasesOnlyDueHolds ==
  [][\A u \in User :
       (Held(account[u]) /\ account'[u].active) => (account[u].until <= now \/ Reinstate(u))]_vars

(***************************************************************************)
(* A hold past its deadline is released, or renewed while the owners       *)
(* decide, as long as every account's row can still be read (the sweep     *)
(* gives a whole pass up at the first one that cannot).                    *)
(***************************************************************************)
Due(u) == Held(account[u]) /\ account[u].until <= now
DueHoldsAreReleased == \A u \in User : Due(u) ~> (~Due(u) \/ spoiled # {})

(***************************************************************************)
(* "each in its own transaction so one bad row cannot strand the rest"     *)
(* (runner/src/infrastructure/users.rs:463).                               *)
(***************************************************************************)
HealthyHoldsAreReleased ==
  \A u \in User \ Spoilable : Due(u) ~> ~Due(u)
=============================================================================
