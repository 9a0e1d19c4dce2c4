------------------------------- MODULE Outbox -------------------------------
(***************************************************************************)
(* How the money plane learns what happened to an account: the events of   *)
(* an aggregate are appended to user_outbox in the transaction that        *)
(* changed it (drain_outbox), a booting replica announces what seats have  *)
(* come to mean (announce_seats), and the money plane pulls pages of the   *)
(* committed rows from a cursor (pull_user_lifecycle) into a mirror.       *)
(*                                                                         *)
(* A row's position is drawn from a sequence when it is inserted, and seen *)
(* by a pull only once its transaction has committed; a draw is never      *)
(* taken back.  The mirror is the other side of the contract: it keeps     *)
(* what it has of an account unless an event's sequence is newer.          *)
(***************************************************************************)
EXTENDS Integers, FiniteSets, Sequences

CONSTANTS
  User,           \* accounts, numbered in the order of their ids
  Tx,             \* connections, each with at most one transaction open
  Page,           \* rows one pull serves at most (MAX_LIMIT)
  MaxVersion,     \* bound on the row_version of each account that commands reach
  MaxPosition,    \* bound on the positions drawn, those of failed transactions included
  MaxGeneration   \* bound on the meanings of a seat (SEAT_GENERATION)

ASSUME UserAssumption == User \subseteq Nat /\ IsFiniteSet(User)
ASSUME PageAssumption == Page \in Nat \ {0}
ASSUME BoundsAssumption == MaxVersion \in [User -> Nat] /\ MaxPosition \in Nat /\ MaxGeneration \in Nat

VARIABLES
  row,      \* users: row_version, 0 while there is no row, and whether it is active
  outbox,   \* the committed rows of user_outbox
  drawn,    \* the last position drawn
  tx,       \* the open transactions on one account
  meaning,  \* the generation of what seats mean (seat_meanings)
  boot,     \* the announcement of a booting replica under way
  cursor,   \* the last position the money plane is done with
  mirror,   \* what the money plane holds of each account
  answer    \* the page it works through

outboxVars == <<row, outbox, drawn, tx, meaning, boot, cursor, mirror, answer>>
consumer == <<cursor, mirror, answer>>

Kind == {"CREATED", "SUSPENDED", "REINSTATED", "SESSIONS_REVOKED", "PERMISSIONS_CHANGED"}

Idle   == [open |-> FALSE]
Quiet  == [open |-> FALSE, states |-> 0, left |-> {}, mine |-> {}, entries |-> {}]
Nobody == [open |-> FALSE]

(* What a command makes of row r, and the event it raises if it raises one. *)
Outcome(r) ==
  IF r.version = 0
  THEN {[row |-> [version |-> 1, active |-> TRUE], kind |-> "CREATED"]}
  ELSE {[row |-> [r EXCEPT !.version = @ + 1], kind |-> "SESSIONS_REVOKED"],
        [row |-> [r EXCEPT !.version = @ + 1], kind |-> "none"],
        [row |-> [version |-> r.version + 1, active |-> ~r.active],
         kind |-> IF r.active THEN "SUSPENDED" ELSE "REINSTATED"]}

Entry(position, u, kind, sequence, generation) ==
  [position |-> position, user |-> u, kind |-> kind, sequence |-> sequence, generation |-> generation]

OutboxInit ==
  /\ row = [u \in User |-> [version |-> 0, active |-> TRUE]]
  /\ outbox = {}
  /\ drawn = 0
  /\ tx = [t \in Tx |-> Idle]
  /\ meaning = 0
  /\ boot = Quiet
  /\ cursor = 0
  /\ mirror = [u \in User |-> [sequence |-> 0, frozen |-> FALSE]]
  /\ answer = Nobody

RowFree(u) == u \notin boot.mine /\ \A t \in Tx : tx[t].open => tx[t].user # u

(***************************************************************************)
(* One account's transaction                                               *)
(***************************************************************************)

(* The row is locked and the command run on what was read. *)
Begin(t, u) ==
  /\ ~tx[t].open
  /\ RowFree(u)
  /\ row[u].version < MaxVersion[u]
  /\ \E o \in Outcome(row[u]) :
       tx' = [tx EXCEPT ![t] = [open |-> TRUE, user |-> u, row |-> o.row, kind |-> o.kind, entries |-> {}]]
  /\ UNCHANGED <<row, outbox, drawn, meaning, boot, consumer>>

(* Mutant: nothing orders the appends. *)
OutboxFree_Always == TRUE

(* The advisory lock is held from before the first insert until the end. *)
OutboxFree == boot.entries = {} /\ \A t \in Tx : tx[t].open => tx[t].entries = {}

(* Mutant: the sequence is the version that was read. *)
Stamp_AsRead(t) == row[tx[t].user].version

(* The row_version at which the event was raised. *)
Stamp(t) == tx[t].row.version

(* The lock, then the insert; what the seat means is stamped by the database. *)
AppendEvent(t) ==
  /\ tx[t].open
  /\ tx[t].kind # "none" /\ tx[t].entries = {}
  /\ OutboxFree
  /\ drawn < MaxPosition
  /\ drawn' = drawn + 1
  /\ tx' = [tx EXCEPT ![t].entries = {Entry(drawn + 1, tx[t].user, tx[t].kind, Stamp(t), meaning)}]
  /\ UNCHANGED <<row, outbox, meaning, boot, consumer>>

Commit(t) ==
  /\ tx[t].open
  /\ tx[t].kind = "none" \/ tx[t].entries # {}
  /\ row' = [row EXCEPT ![tx[t].user] = tx[t].row]
  /\ outbox' = outbox \union tx[t].entries
  /\ tx' = [tx EXCEPT ![t] = Idle]
  /\ UNCHANGED <<drawn, meaning, boot, consumer>>

(* Refused, failed or disconnected: the position drawn stays drawn. *)
Rollback(t) ==
  /\ tx[t].open
  /\ tx' = [tx EXCEPT ![t] = Idle]
  /\ UNCHANGED <<row, outbox, drawn, meaning, boot, consumer>>

(***************************************************************************)
(* A replica boots, with a newer meaning of the seats or without           *)
(***************************************************************************)

EntriesOf(u)  == {e \in outbox : e.user = u}
LastEntry(u)  == CHOOSE e \in EntriesOf(u) : \A f \in EntriesOf(u) : f.position <= e.position
Stale(u, gen) == EntriesOf(u) # {} /\ LastEntry(u).generation # gen

(* A newer meaning is written, an older one ignored; whom to tell is read. *)
Announce ==
  /\ ~boot.open
  /\ \E states \in meaning .. meaning + 1 :
       /\ states <= MaxGeneration
       /\ boot' = [open |-> TRUE, states |-> states, left |-> {u \in User : Stale(u, states)},
                   mine |-> {}, entries |-> {}]
  /\ UNCHANGED <<row, outbox, drawn, tx, meaning, consumer>>

(* Their rows are locked as the update comes to them. *)
AnnounceLocks(u) ==
  /\ u \in boot.left
  /\ RowFree(u)
  /\ boot' = [boot EXCEPT !.left = @ \ {u}, !.mine = @ \union {u}]
  /\ UNCHANGED <<row, outbox, drawn, tx, meaning, consumer>>

(* One insert, in the order of the ids. *)
AnnounceAppends ==
  /\ boot.open
  /\ boot.left = {} /\ boot.mine # {} /\ boot.entries = {}
  /\ OutboxFree
  /\ drawn + Cardinality(boot.mine) <= MaxPosition
  /\ drawn' = drawn + Cardinality(boot.mine)
  /\ boot' = [boot EXCEPT !.entries =
       {Entry(drawn + Cardinality({v \in boot.mine : v <= u}), u, "PERMISSIONS_CHANGED",
              row[u].version + 1, boot.states) : u \in boot.mine}]
  /\ UNCHANGED <<row, outbox, tx, meaning, consumer>>

AnnounceCommits ==
  /\ boot.open
  /\ boot.left = {} /\ (boot.mine # {} => boot.entries # {})
  /\ row' = [u \in User |-> IF u \in boot.mine THEN [row[u] EXCEPT !.version = @ + 1] ELSE row[u]]
  /\ outbox' = outbox \union boot.entries
  /\ meaning' = boot.states
  /\ boot' = Quiet
  /\ UNCHANGED <<drawn, tx, consumer>>

AnnounceFails ==
  /\ boot.open
  /\ boot' = Quiet
  /\ UNCHANGED <<row, outbox, drawn, tx, meaning, consumer>>

(***************************************************************************)
(* The money plane                                                         *)
(***************************************************************************)

Ahead == {e \in outbox : e.position > cursor}

(* The first page of what lies ahead of the cursor. *)
Served == {e \in Ahead : Cardinality({f \in Ahead : f.position <= e.position}) <= Page}

(* Served from what is committed at this moment, with the position to go on from. *)
Pull ==
  /\ ~answer.open
  /\ Ahead # {}
  /\ answer' = [open |-> TRUE, left |-> Served,
                next |-> CHOOSE n \in {e.position : e \in Served} : \A e \in Served : e.position <= n]
  /\ UNCHANGED <<row, outbox, drawn, tx, meaning, boot, cursor, mirror>>

Freezes(e, before) ==
  CASE e.kind = "SUSPENDED"  -> TRUE
    [] e.kind = "REINSTATED" -> FALSE
    [] OTHER                 -> before

(* The page in order, an event only if it is newer than what the mirror has. *)
Apply ==
  /\ answer.open
  /\ \E e \in answer.left :
       /\ \A f \in answer.left : e.position <= f.position
       /\ answer' = [answer EXCEPT !.left = @ \ {e}]
       /\ mirror' = IF e.sequence > mirror[e.user].sequence
                    THEN [mirror EXCEPT ![e.user] =
                           [sequence |-> e.sequence, frozen |-> Freezes(e, @.frozen)]]
                    ELSE mirror
  /\ UNCHANGED <<row, outbox, drawn, tx, meaning, boot, cursor>>

Advance ==
  /\ answer.open
  /\ answer.left = {}
  /\ cursor' = answer.next
  /\ answer' = Nobody
  /\ UNCHANGED <<row, outbox, drawn, tx, meaning, boot, mirror>>

(* The answer is lost, or the puller dies before its cursor is saved. *)
Lose ==
  /\ answer.open
  /\ answer' = Nobody
  /\ UNCHANGED <<row, outbox, drawn, tx, meaning, boot, cursor, mirror>>

OutboxNext ==
  \/ \E t \in Tx : (\E u \in User : Begin(t, u)) \/ AppendEvent(t) \/ Commit(t) \/ Rollback(t)
  \/ Announce \/ (\E u \in User : AnnounceLocks(u)) \/ AnnounceAppends \/ AnnounceCommits \/ AnnounceFails
  \/ Pull \/ Apply \/ Advance \/ Lose

OutboxSpec == OutboxInit /\ [][OutboxNext]_outboxVars

(***************************************************************************)
(* The money plane polls for as long as it runs, and sooner or later its   *)
(* answers stop getting lost.                                              *)
(***************************************************************************)
Fairness == WF_outboxVars(Pull) /\ WF_outboxVars(Apply) /\ WF_outboxVars(Advance) /\ <>[][~Lose]_outboxVars
FairSpec == OutboxSpec /\ Fairness

(***************************************************************************)
(* Correctness                                                             *)
(***************************************************************************)

EntryType ==
  [position : Nat \ {0}, user : User, kind : Kind, sequence : Nat, generation : 0..MaxGeneration]

RowType == [version : Nat, active : BOOLEAN]

TxType ==
  {Idle} \union [open : {TRUE}, user : User, row : RowType, kind : Kind \union {"none"}, entries : SUBSET EntryType]

BootType ==
  [open : BOOLEAN, states : 0..MaxGeneration, left : SUBSET User, mine : SUBSET User, entries : SUBSET EntryType]

AnswerType == {Nobody} \union [open : {TRUE}, left : SUBSET EntryType, next : Nat]

OutboxTypeOK ==
  /\ row \in [User -> RowType]
  /\ drawn \in Nat
  /\ outbox \subseteq EntryType
  /\ tx \in [Tx -> TxType]
  /\ boot \in BootType
  /\ meaning \in 0..MaxGeneration
  /\ cursor \in Nat
  /\ mirror \in [User -> [sequence : Nat, frozen : BOOLEAN]]
  /\ answer \in AnswerType

(***************************************************************************)
(* The committed rows in the order of their positions only ever grow at    *)
(* the end, and the cursor comes by each of them: "the cursor can never    *)
(* skip a committed event" (drain_outbox).                                 *)
(***************************************************************************)
Log == [i \in 1..Cardinality(outbox) |->
          CHOOSE e \in outbox : Cardinality({f \in outbox : f.position <= e.position}) = i]
Bridge == INSTANCE Feed WITH log <- Log, read <- Cardinality({e \in outbox : e.position <= cursor})
FeedSpec == Bridge!Spec

(***************************************************************************)
(* A suspension is never lost on the way, nor a reinstatement: the mirror  *)
(* comes to agree with the account, or the account moves again.            *)
(***************************************************************************)
MirrorCatchesUp ==
  \A u \in User, b \in BOOLEAN :
    row[u].active = b ~> (mirror[u].frozen = ~b \/ row[u].active # b)

(***************************************************************************)
(* The mirror is never wrong about an account whose events it has all come *)
(* by: "an event is applied only if its sequence is newer" neither drops   *)
(* nor revives a suspension, whatever pages repeat.                        *)
(***************************************************************************)
MirrorIsFaithful ==
  \A u \in User : (\A e \in EntriesOf(u) : e.position <= cursor) => mirror[u].frozen = ~row[u].active

(***************************************************************************)
(* PERMISSIONS_CHANGED is announced "to every user whose last outbox row   *)
(* disagrees with the newest meaning of their seat"                        *)
(* (runner/src/infrastructure/users.rs:1004), so that none disagrees while *)
(* no transaction is under way.  Only a later boot repairs one that does.  *)
(***************************************************************************)
EverySeatIsAnnounced ==
  (~boot.open /\ \A t \in Tx : ~tx[t].open) => \A u \in User : ~Stale(u, meaning)
=============================================================================
