# Concierge, the identity plane: a verification development

Concierge is the identity plane of an investment platform: a Rust service over one Postgres database
that decides who a person is, which seat they hold, whether their account is frozen, and what the
money plane is told about all that. This directory holds TLA+ models of the parts of it whose
correctness depends on the ORDER of things - two transactions, a vote and a resignation, a sweep and
the hold it is about to release - together with the TLC instances that check them and the TLAPS
proofs of what matters most.

## 1. Inventory

| component | state it keeps | operations | what makes it hard |
|---|---|---|---|
| Owners' consilia (`domain/src/governance.rs`, `infrastructure/governance.rs`) | `owner_removal`, `owner_admission`, `user_proposal` and their peer rows, `governance_revision`, `users.role` | open, vote, answer from the mailbox, withdraw, expire on write, resign, seed | 72 hours between opening and the last vote, in which the register moves by other consilia and by resignation; the caller's seat is read before the transaction |
| Emergency access (`authz.rs`) | a latch in the process | elevate, seal | the latch caches a fact of the database across requests, a restart forgets it |
| The removal invitation (`self_decision`) | `owner_removal_token`: attempts, burned, used | answer with token and code | a capped counter moved before the comparison, a one-shot answer that may be repeated |
| The account brake (`domain/src/users.rs`, `infrastructure/users.rs`, `dispatch.rs`) | `users.status`, `suspended_by`, `hold_expires_at`, `hold_ended_at` | hold, renew, lapse, suspend, reinstate | the sweep scans without a lock, the proposal behind a renewal is read without one, every decision uses the clock of its own request |
| Row locks (`users.rs`, `governance.rs`, `grants.rs`) | Postgres row locks, one advisory lock | every transaction on `users` | foreign keys lock rows no statement names |
| User outbox and bridge (`drain_outbox`, `bridge.rs`) | `user_outbox`, `users.row_version`; in the money plane a cursor and a mirror | append, announce seats, pull | positions are assigned before they become visible |
| User directory and sign-in (`resolve`, `directory.rs`) | `users`, `user_identity` | resolve, link, take over, edit | two sign-ins for one subject or one mailbox |
| Notifications and mail (`notification.rs`, `dispatch.rs`, `infrastructure/notifications.rs`) | `notification`, `notification_delivery` | emit, claim, send, retry | claims with a lease, a worker that dies between the send and the mark |
| KYC cases (`infrastructure/kyc`, `web/kyc.rs`) | `kyc_case`, `users.kyc_level` | open, vendor verdict, operator level | verdicts out of order and repeated |
| Grants (`infrastructure/grants.rs`) | `grants`, tenant catalogs | grant, revoke, publish | authority must come from the locked row, not the gate's copy |
| Credentials and mailbox codes (`credentials.rs`, `web/sign_in.rs`) | password hashes, codes, attempts | sign in, prove, reset | concurrent guesses |
| Relying parties (`relying_parties.rs`, `web/authorize.rs`) | authorization codes, refresh tokens | authorize, redeem, refresh | one code redeemed twice |
| Sessions (`auth/src/service.rs`, `web/session.rs`, `web/single_flight.rs`) | refresh token families, `token_version` | refresh, revoke all | concurrent refreshes of one token |
| The operators' console (`directory.rs`, `authz.rs`, `platform.rs`) | `users`, `admin_action`, `kyc_level_change`, the maintenance switch | set a role, a level or the switch; hold, reinstate, revoke tokens | the caller's seat is looked at twice before the transaction, the emergency access beside it |
| Live feed (`governance.rs`) | a broadcast channel, the revision row | subscribe, poll, notify | a slow subscriber |
| Passkeys, OAuth, tokens, e-mail layout, configuration | - | - | configuration, cryptography and I/O: no protocol of their own over time |

How they interact: everything that decides about a person ends in one transaction on that person's
`users` row, which appends to `user_outbox` under an advisory lock and, for an operator's act, to
`admin_action`. The consilia order themselves on the row of `governance_revision`; the brake, the
role setter, grants and the accounts' own edits do not, and meet them at the `users` row. The money
plane only ever pulls.

## 2. Modules

| module | models | kind |
|---|---|---|
| `Ballots` | the passing rules as pure functions of voters and answers | operators |
| `Consilium`, `MCConsilium` | the three kinds of consilia, the gate before them, emergency access, the seed, resignation, `set_role` | state machine, TLC |
| `Roster` | what the consilia promise about the register of owners | abstract specification |
| `GovernanceProofs` | theorems about `Consilium`, and about `Delivery` and `MailRelay` | TLAPS |
| `Invitation` | how the target of a removal answers it from the mailbox | state machine, TLC |
| `Holds`, `HoldsProofs` | the brake, its renewal, the cooldown and the sweep | state machine, TLAPS |
| `Console` | an operator's request, from the gate to the commit | state machine |
| `LockOrder` | the locks of each kind of transaction, one at a time | state machine |
| `MCLockOrder`, `OperatorsProofs` | the two above, side by side | TLC, TLAPS |
| `Outbox`, `MCOutbox` | appending to `user_outbox`, the boot announcement, the pull and the mirror | state machine, TLC |
| `Feed` | what the bridge promises: a log that only grows, a reader that misses nothing | abstract specification |
| `InvitationOutboxProofs` | theorems about `Invitation`, and about `Outbox` | TLAPS |
| `Delivery` | preferences, the inbox, the mail queue and its dispatchers | state machine |
| `MailRelay`, `MCDelivery` | the money plane's mails into that queue (extends `Delivery`) | state machine, TLC |
| `SignIn`, `MCSignIn` | which account a provider, a mailbox code or a password opens | state machine, TLC |
| `Sessions`, `MCSessions` | refresh families, the locker of web sessions, single flight, sign-out | state machine, TLC |
| `SignInProofs` | theorems about `SignIn` and `Sessions` | TLAPS |
| `RelyingParties`, `MCRelyingParties`, `RelyingPartiesProofs` | authorization codes and the sessions opened with them | state machine, TLC, TLAPS |
| `Kyc`, `MCKyc`, `KycProofs` | cases, the vendor's words, and what an approval buys | state machine, TLC, TLAPS |
| `Grants` | granting and revoking an alias of a tenant | state machine |
| `Iam` | what a grant means: names, patterns, catalogs, what a reader is shown | state machine |
| `MCGrants`, `GrantsProofs` | the two above, side by side | TLC, TLAPS |

Definitions whose name carries a suffix after an underscore (`Resign_NoFloor`) and whose comment
says "Mutant" are no part of the model. Each is a plausible bug in the code its base definition
stands for; put in place of it, it makes a property fail, which is how we know that the property
depends on the code.

A variable the code does not have is marked in its module as kept by the model alone: it remembers
what a property has to speak of (`askedUntil`, `guesses`, `lost`, `entitled`), and no guard reads it.

### Consilium

`role` and `standing` are columns of `users`, `proposal` the rows of the three proposal tables with
their peer rows, `gate` the requests that have passed `require_permission(acting_owner)` and whose
transaction has not run, `sealed` the latch of one process. Every governance write begins with
`lock_governance`, an update of the only row of `governance_revision`, so those transactions are
totally ordered and each is ONE action here, from the first read to the commit: `OpenProposal`,
`Vote`, `TargetDecides`, `Cancel`, `ExpireOnWrite`, `Resign`. What that lock does not cover is apart:
`PassGate` runs before the transaction and its result goes stale, `SetRole` and the brake
(`HoldUser`, `HoldEnds`) write without it. `Vote` deliberately does not ask whether the voter still
sits: the code asks only whether they are in the snapshot taken at open. `Settle` is the common tail
(`settle`, `settle_proposal`): the verdict drawn from the ballots as frozen, drawn once more among
the peers that still sit, and the effect on the subject, or a roll-back. Time is one flag per
proposal.

### Invitation

One removal and its token. A request carries the clock reading it took on arrival; `Enter` takes the
governance row, the token's row and the proposal's, and copies what it reads. The later actions
answer from that copy, except for the attempt counter, which the statement increments in place under
the table's CHECK. `CloseRemoval` and `Expire` stand for everything the peers do, under the same
lock. A denial by the target may close the proposal or leave it open, depending on peers this module
does not have; both are taken.

### Holds

`account` is one row of `users` reduced to the four columns of the brake; `asking` is the deadline of
the suspension proposal open about it. Placing a hold is taken apart into `PressHold` (the clock is
read), `LockAccount` (the row is locked, then the proposal is read WITHOUT a lock) and `HoldCommits`.
`Scan` reads what is due without a lock and `SweepOne` decides each account again under its lock, by
the clock of the scan.

### Console

A request passes `CallerGate` on the live record, then `RequirePermission` (which may count the
owners and set the latch), then `ActingOperator`, each a read of its own, and then its transaction.
Every transaction but one locks only the target's row and is one action. A hold is taken apart:
`HoldLocks` takes the target's row, `HoldReadsActor` reads the actor's without locking it, and
`HoldCommits` meets the actor's row through the foreign key of the audit row, so it waits for
whoever has it. `levels` is the table `kyc_level_change`, to which the vendor's approvals
(`RaiseKycLevelTo`) write too.

### LockOrder

Each kind of transaction is the sequence of locking statements it issues, a statement being a set of
locks and a mode. The foreign keys of `admin_action`, `governance_event` and the proposal tables are
written out, because they lock `users` rows no statement of ours names. Transactions acquire, commit,
or roll back at any point. What is read and written is left to the other modules.

### Outbox

A transaction holds its account's row from `Begin`, draws its position in `AppendEvent` under the
advisory lock, and shows row and position at `Commit`; positions drawn by failed transactions stay
drawn. `Announce*` is `announce_seats` of a booting replica: it reads whom to tell, then locks them
one by one, then inserts. `Pull`, `Apply`, `Advance` and `Lose` are the other side of the contract,
which is not in this repository: a cursor, and a mirror that ignores an event whose sequence is not
newer than the one it has.

### Delivery and MailRelay

An emit is three statements that lock nothing they read (`EmitReadsSubscriber`, `EmitReadsTopic`,
`EmitWrites`), so preferences change between them. `queue` holds the rows of
`notification_deliveries`; a row's payload is abstracted to whether it carries a secret, has had it
struck, or cannot be rendered. A dispatcher claims rows by counting an attempt and moving them out of
sight for a lease, keeps in `hand` what it read, and records outcomes by row id alone; `ComesDue`
ends a pause or a lease, also under a slow dispatcher. `MailRelay` adds `send_governance_mail`: the
peek at the recipient's budget, the read of the identity record, the insert under a dedupe key, and
the charge and the trace that follow it, each a step, with a kind's payload as the set of fields that
came filled.

### SignIn

Everything that decides who holds a mailbox is serialised by an advisory lock on it, yet a request
reads first and writes later. So a request `Decides` (both locks, then `Found`) and writes in another
step (`ResolveLinked`, `ResolveHolder`, `ResolveSquat`, `ResolveNew`), and an account may move to
another mailbox in between under that other mailbox's lock. A write the unique indexes refuse leaves
the request "failed". Codes and passwords live beside it: one code per mailbox or per account and
mailbox, with attempts counted before the comparison.

### Sessions

`family` is the refresh family upstream (its current secret as a number), `locker` what the web tier
stored, and `worker` the requests of browsers. A refresh looks the user up, inspects the family,
rotates it and saves the answer, each step apart and under the per-session lock of `fresh`; a sign-out
takes no lock. Any answer may be lost.

### RelyingParties

Codes, sessions and requests, statement by statement: a redemption claims the code in one
transaction and opens the session in another, a replay and a sign-out each write two tables in the
order of the code. Row locks of committed statements are what orders them.

### Kyc

Starts of a case run under an advisory lock, with the vendor's round trip outside the transaction.
A word of the vendor is delivered any number of times and in any order (`event_at` is its index),
recorded in one transaction and applied to the level in another; the notices, the alert and the
vendor's retries follow. A document is a digest: two accounts may show one.

### Grants and Iam

`Grants` takes a request from the gate's copy of the caller, through the precheck and the row locks
in the order of ids, to the insert; meanwhile roles, standings and catalogs move. An account may be
addressed by a handle that names nobody or several. `Iam` gives the aliases their meaning: a catalog
is checked when it is published, and a reader puts together what somebody may do from several reads.
Names are sequences of segments, a pattern may hold stars; the two meet in `Contains`.

## 3. Runs

| run | instance | what it shows |
|---|---|---|
| `seats` | three accounts, two proposals of five kinds, two requests past the gate | seats move only by the peers' word, the consent of their holder or a resignation, down to the floor; nothing is carried by one person, late or below the bar; nothing closed is rewritten |
| `operators` | two instances: three connections over three accounts, one lock at a time; and two requests of operators over two accounts and a stranger | nobody waits in a circle where no decision names its actor; nothing is written that nobody entitled asked for, no two accounts hold each other, the log of levels is a chain |
| `holds` | one account, two requests, five ticks (a hold is two, a cooldown four), fairness | the brake lapses, verdicts stand, cooldowns are kept, a due hold is released or renewed |
| `invitation` | two submissions, five attempts | no more guesses than the cap, one decision, no false confirmation |
| `outbox` | two accounts, two connections, pages of two, four positions, fairness | the bridge implements `Feed`; the mirror catches up |
| `delivery` | two instances over two rows of the queue: two dispatchers, two leases lost; two relayed requests over two keys; fairness | inbox and queue tell one story, what is accepted renders, a repeat has a lost lease behind it, secrets end with their mail, every mail settles |
| `sign_in` | two accounts, two mailboxes, one subject, two requests | no race ends at a unique index, no mailbox is squatted on twice, guesses at codes stay capped |
| `sessions` | two sessions, two requests, a revocation, a rotation, a failure, fairness | a session dies for a reason, revoked tokens are not renewed, ended sessions leave the locker |
| `sign_out` | the same, no failure | disagreement 1 below |
| `relying_parties` | a code, its session, two requests, a sign-out, two ticks | a secret is exchanged once, a sign-out reaches what is presented after it |
| `kyc` | two accounts, one document, two vendor sessions of two words, two requests, one failure, fairness | no document and no account counts twice, a lost level is put before the owners, an approval reaches the level |
| `grants` | two instances: two requests of three people over two aliases and two catalogs; and two namespaces with seven publications | grants are not recorded twice, are given by present authority, tell nobody who exists; inclusion is exact, tenants stay apart, nobody mints a peer |

### Bounds, and why they are enough

- `seats`: with `MinOwners` = 2, three accounts are one more than the floor: a removal can have a peer,
  the register can grow and shrink while proposals are open, and two proposals about different people
  interfere. A fourth account is out of TLC's reach (more than seven million states before the queue
  stops growing) and in the theorems', which fix no number.
- `operators`: a circle needs two connections and a third shows the longer one; the kinds of
  transaction that run side by side are chosen in the initial state (`Traffics`, `Boards`), so that
  each pair that the code can run meets. Names of accounts are numbers where locks are taken in the
  order of ids.
- `holds`: `HoldTTL` < `ProposalTTL` < `Cooldown` keeps the order of the code's constants (24 hours,
  72 hours and 7 days; 2, 3 and 4 ticks), and `Patience` < `HoldTTL` says that no request waits for a
  row as long as a hold lasts. Five ticks are a hold, its cooldown and the next hold.
- `invitation`: the cap has the value of the code.
- `outbox`: four positions with pages of two give a full page, a partial page, and a position lost to
  a failed transaction. `MaxVersion` differs between the accounts so that one of them can be created,
  frozen and released.
- `delivery`: two attempts make a mail that is retried and one that is parked; a budget of one lets
  the second mail find it spent; two lost leases are a repeat on each row or two on one.
- `sign_in`, `sessions`, `relying_parties`, `kyc`: the races are of two, and one failure is what a
  property that speaks of failures needs to bite. In `kyc` a session says at most two words, since a
  third adds no order that two do not have.
- `grants`: the second catalog withdraws an alias and a delegation; the publications include one that
  claims a seat's permission, one that claims a neighbour's, one that mints a peer, one that lists an
  alias twice and one from the future.
- Deadlock is not checked where the bounds above (the clock, ids, versions) make the model stop, and
  the services of the code really rest when nobody calls.

### Fairness

Only the liveness properties assume any. Nobody who uses the system - a voter, an operator, a target,
a browser - is ever assumed to act, but for the one visit that `EndedSessionsLeaveTheLocker` is about.

- `Holds`: `run_hold_sweep` loops for as long as the process runs (`WF Scan`); a transaction that holds
  a row commits or fails (`WF`); Postgres queues for row locks, so a sweep that keeps finding the row
  taken does get it (`SF SweepOne`); restarts come to an end.
- `Outbox`: the money plane polls without end and its losses come to an end.
- `Delivery`: `run_dispatcher` loops, a send ends in an outcome (its client has a timeout), pauses and
  leases end, and the day's window rolls. A dispatcher may die for as often as `MaxLapses` lets it.
- `Sessions`: a request in flight is answered or fails (`WF Proceeds`), access tokens lapse (`WF`), and
  the session is visited again and again (`SF Fresh`), which is what the property supposes.
- `Kyc`: a request in flight proceeds (`WF`), and the vendor repeats what was not answered for (`SF`).
  Failures are fewer than the retries the vendor documents.

## 4. Proofs

The theorems hold for any finite set of accounts (of any size where finiteness is not named), any
number of proposals, requests, sessions and rows, and every value of the constants that the named
assumptions admit. Those that bind are `FloorAssumption` (the floor is at least one),
`AttemptsAssumption` and the other caps (at least one), `ClockAssumption` (the three periods in the
order of the code, requests shorter than a hold), `NamespaceAssumption` and `SeatAssumption` (a tenant's
name is none of the reserved ones, the seats' permissions are under those).

Every invariant of a run is a theorem, and so is every action property and both refinements. None of
them is inductive by itself; what had to be added is the reason why the code is right:

- `GovernanceProofs`, of the consilia. `RegisterIsARoster`: each action maps to `Found`, `Seat`, `Unseat` or a stutter of
  `Roster`. The heart is `Settle`: a removal that executes has been through the floor once more, an
  admission finds its subject unseated and its initiator seated, so that the register is not empty.
  `FloorHolds` is the inductive `RosterFloor`; `SealIsSound` needs it, because a latch set over a
  register at the floor must not see it emptied. `ExecutionsBacked` and `RegisterHasTwoDoors` combine
  what is proved handler by handler, on `BornOfOwners` (nothing is proposed before the register is
  seeded), `InitiatorIsNoPeer` and `OpenIsUndecided` (an open proposal's ballots decide nothing yet).
- `GovernanceProofs`, of the mails. A trace in an inbox, and a request about to leave one, has its row in
  the queue (`TracesAreOfMails`); a row can be rendered and keeps its mail whoever marks it
  (`RowsAreSound`). That repeats are paid for needs a count: a row is worth one sending for each
  dispatcher that holds it and one more if it may be claimed (`Turns`), of which all but the first mail
  are a debt. Claims leave the debts as they are, a repeat takes one away, and only a lapse adds one
  (`DebtsArePaid`). The sum over the rows is the cardinality of a set with one element for each unit.
  `TriesAreCapped` counts row by row: the tries of a mail, and one more if it is ready to be claimed,
  are within the cap and the lapses so far (`TriesArePaidFor`).
- `InvitationOutboxProofs`, of the invitation. `Current`: at most one submission is deciding, and what it read is still there.
  Without it a decision taken from a copy would prove nothing about the row.
- `InvitationOutboxProofs`, of the outbox. `OutboxIsAFeed`: a commit maps to `Publish`, a cursor that
  moves to `Consume`, everything else to a stutter of `Feed`. One transaction at a time stands between
  its first append and its end (`OneAppends`), so what it commits comes after all that is committed
  (`CommitsExtend`); the cursor stands on a committed row (`ReaderOnARow`), so nothing appears behind it.
  The log is built by choosing the row at each place, and that a place is taken by exactly one row is
  counted (`Ranks`, `Places`). `MirrorIsTrue` is about what arrives: an account none of whose events lies
  ahead of the cursor is frozen at the money plane exactly when it is disabled here
  (`MirrorIsFaithful`, which holds on the instance of the `outbox` run as well). A command holds the row
  whose version it moves by one (`RowsAreLocked`), so of one account sequences rise with positions
  (`SequencesRise`) and the gate that drops what is not newer drops only what was applied
  (`ReadIsKnown`); account and mirror are then what the last event they know of leaves (`AsTold`).
- `HoldsProofs`. `Grounded`: a request that found a proposal open read its clock no later than the last
  instant the owners were being asked. That instant never moves back (`AskedMonotone`), so a renewal
  from a stale reading still falls under it. `HoldsAreSpaced` adds `Patient` and `Spaced`: a press the
  owners were not asked about is answered for by an asking since, by the hold that stands, or by the
  true end of the last hold.
- `OperatorsProofs`. Of the console: a request past the gate was entitled once (`Earned`), by emergency
  access only because an empty register was empty all along; whoever is about to commit a hold is not
  held by its target (`Undecided`), since that hold would have met the row he has locked
  (`HeldAreFrozen`). Of the locks: what is held was granted after everything its transaction asks for
  before it (`GrantedInOrder`), so along a circle of waits the `Rank` of the lock asked for would rise
  for ever. `NobodyWaitsInACircle` holds under `Orderly`, which says which kinds run side by side, as
  the instance does; `CirclesNeedADecisionOrAGrant` supposes nothing and says what every circle
  contains.
- `SignInProofs`. Of the sessions: a sign-in is alone with its session until the locker has it
  (`SignsInAlone`), one refresh of a session runs at a time (`OneFlight`), and therefore what the locker
  and a refresh in flight hold is the family's current secret, or the one before it when an answer was
  lost (`SecretsKeepUp`). A family is only issued where there was none, rotates with its snapshot, or
  ends (`FamiliesMove`), and versions grow, hence `EndedForever`. Of the sign-ins: two decisions
  never share a subject or a mailbox (`LocksAreHeld`), so what one found still stands when it is written
  (`DecisionsStand`), which needs of the accounts that one a provider opens is never a squat
  (`AccountsAreSound`).
- `RelyingPartiesProofs`. A session not yet seen by a replay or by a sign-out can only open once they
  have committed, and then reads what they wrote (`Replaying`, `Ending`); a code that a sign-out was
  late for was issued after the instant the sign-out was passed on with (`Spared`).
- `KycProofs`. Starts exclude each other from the gate to the row (`StartsAlone`). An approval that
  bought a level leaves a decided case on its document behind, whatever becomes of the verdict
  (`BoughtIsDecided`), and that is what the next approval on the document meets (`NotBoughtElsewhere`).
  A verdict that takes the last approval away stays news to its session (`LastLossIsOpen`,
  `SeenIsRecorded`) until somebody has put the account before the owners. For `ApprovalsStayDue`, a request
  that applies a verdict applies one its session knows (`AppliedKnown`), so whoever answers an approval
  either grants the level or leaves a case that is no longer approved (`WhoAnswers`).
- `GrantsProofs`. Transactions under way hold rows of different people (`Exclusive`), so nothing a
  decision was taken from moves (`DecisionsStand`). `Iam` carries what a catalog was checked for from
  its publication to whoever reads it (`CatalogsChecked`, `ReaderChecked`). `InclusionExact` is about
  patterns of any length: one direction reads the names off the segments, the other spells a name with
  a fresh segment in place of each star.

Only model-checked:

- liveness (`DueHoldsAreReleased`, `MirrorCatchesUp`, `EveryMailSettles`, `EndedSessionsLeaveTheLocker`,
  `ApprovedReachesTheLevel`): fairness and ENABLED are out of the prover's reach. What is not a matter of
  progress in four of them is proved: for the mirror `MirrorIsTrue`; for the mails `TriesAreCapped` (no
  mail is tried for ever); for the sessions `EndedForever` (what has ended is never given back, so the
  locker only has to be reached once); for the levels `ApprovalsStayDue` (an approval not yet answered
  stays due until the account has the level or the case is no longer approved).

A type invariant is a conjunct of each inductive invariant.

## 5. Where code and words disagree

A run reaches a violation:

1. `sign_out`. `web/routes.rs:228` says "Drop a session and revoke its refresh family upstream."
   `close` takes no lock: a refresh in flight rotates the family, which makes the secret the sign-out
   presents a stale one, and then saves the session back into the locker (`web/session.rs:143`). The
   session is usable again, and its family lives (`LoggedOutStaysOut`).

The following were met while modelling; each is reproducible by stating the property named, which the
module defines and no run lists, or is a remark on the text alone.

2. `SetRoleNeverDeadlocks` (`LockOrder`). `ports.rs:541` says that taking only the target's row cannot
   deadlock against the consilium. The audit row's foreign key then asks for the acting owner's row,
   which the consilium holds. Postgres resolves it by failing one of the two. Likewise two operators
   who hold each other wait for each other (`users.rs:386` expects the plain read to avoid it), and a
   grant and a consilium's verdict can.
3. `HealthyHoldsAreReleased` (`Holds`). `users.rs:463` says one bad row cannot strand the rest of the
   sweep. The row's load error leaves `lapse_due_holds` altogether, and the next pass meets it first.
4. `RepeatIsANoOp` (`Invitation`). `governance.rs:1455` says repeating an accepted answer is a no-op. It
   still counts an attempt; after four wrong codes and the right one, the table's CHECK refuses it.
5. `EverySeatIsAnnounced` (`Outbox`). `users.rs:1004` says every user whose last outbox row disagrees
   with the newest meaning of their seat is told. A transaction of the previous build that commits
   between the scan and the announcement's commit is not seen until a later boot.
6. `LinkedSignInSucceeds` (`SignIn`). `users.rs:307` says a provider's address moving onto one another
   account already proved stays theirs. The new address is not locked on that path: an account that
   proves it between the check and the write makes the sign-in fail at the index.
7. `SignOutReachesRedemptions` (`RelyingParties`). `0025_relying_parties.sql:31` says signing out ends the
   relying parties' sessions too. A redemption that read its clock before the sign-out, and a code
   issued after it by a request that had looked at the family before, slip through.
8. `SupersededVerdictsAreNotApplied` (`Kyc`). `web/kyc.rs:629` says a superseded verdict must not reach
   `apply`. One recorded by a request that is overtaken before it applies does.
9. `ports.rs:541` speaks of one order in which the consilium takes its locks, the outbox last. The seed
   takes the outbox lock with its first seat and further users rows after it (`governance.rs:790`).
10. `0008_notifications.sql:25` says the service re-reads the live address before every send. It reads
    the address the row was queued with.
11. `users.rs:70` says there is no row without a change. Setting the role or the level an account has,
    or reinstating one that is active, writes an audit row.
12. `governance.rs:85` says a slow client of the live feed is disconnected; the sender waits for it.
13. `authz.rs:43` says that emergency access can hand out operator and admin; `set_role_outside_ownership`
    refuses to grant admin to anybody.
14. A resignation voids an open removal of the leaver on which nobody may have voted, while the comment
    on `Void` (`domain/src/governance.rs:78`) reads "Passed, but the seat could not be taken". A due
    removal that readers are shown as expired can be stamped void the same way.
15. A hold placed on an account that was disabled before causes were recorded makes it lapse like any
    hold, after which the account is active (`0015_user_governance.sql:46`, `Unlabelled` of `Holds`).

Consequences worth knowing, not contradictions: the owners' suspension proposal may be opened again
when it ends, so an account can be kept frozen for as long as owners keep asking
(`HoldLapsesUnlessAsked` says exactly this much). A rotated secret whose answer is lost signs the
session out as a theft. A redelivered approval restores a level an operator has lowered since. The
answer of `GetMe` is put together from three reads and may show a permission nobody held at any one
instant; no transaction decides by it.

## 6. Not modelled, and the plan

Left for later: the live feed, a broadcast with a five-second poll behind it, which only tells watchers
to read again.

Not modelled: passkey and OAuth handshakes and token signing (cryptography of libraries; an in-process
map from a challenge to its state), the layout of e-mails and SMTP, the listings and their filters,
the registry of clients and their secrets, configuration and wiring (formatting and I/O). They keep no
state whose order over time matters.
