------------------------------ MODULE Delivery ------------------------------
(***************************************************************************)
(* The notification plane: what a subscriber asked to hear, the inbox, and *)
(* the mail queue with the dispatchers that drain it                       *)
(* (runner/src/infrastructure/notifications.rs, runner/src/dispatch.rs,    *)
(* runner/src/notification.rs).                                            *)
(*                                                                         *)
(* An emit is one transaction of three statements that lock nothing they   *)
(* read, so its reads and its writes are steps of their own; a retried     *)
(* emit meets its first attempt at the unique (subscriber, dedupe_key).    *)
(* A dispatcher claims rows by moving next_attempt_at past a lease, works  *)
(* on what it read then, and records the outcome by row id alone: a lease  *)
(* that lapses under it gives the row to another one.  Whether a row is    *)
(* due is a flag; time passes in Lapse.                                    *)
(***************************************************************************)
EXTENDS Integers, FiniteSets

CONSTANTS
  Rows,         \* bound: queue rows
  Worker,       \* dispatchers (one per replica)
  Emission,     \* Emit requests, retries of one event under one dedupe key
  MaxAttempts,  \* turns a row gets before it is parked (MAX_ATTEMPTS)
  Batch,        \* rows one pass claims at most (BATCH)
  Budget,       \* mails in a day before the dispatchers pause (daily_budget)
  MaxLapses,    \* bound: leases that lapse on a working dispatcher, crashes included
  MaxChanges    \* bound: changes of preferences, subscriptions and confirmations

ASSUME LimitsAssumption ==
  /\ MaxAttempts \in Nat \ {0} /\ Batch \in Nat \ {0} /\ Budget \in Nat \ {0}
  /\ MaxLapses \in Nat /\ MaxChanges \in Nat
ASSUME RowsAssumption == Rows \in Nat

Row == 1 .. Rows   \* notification_deliveries.id

VARIABLES
  account,    \* the signed-in subscriber: switches, and the topic's subscription
  mailbox,    \* one account-less subscriber: opt-in, confirm token, throttle
  inbox,      \* the notification rows, by their dedupe keys
  emission,   \* the Emit transactions under way
  queue,      \* notification_deliveries
  hand,       \* per dispatcher, the jobs it claimed and still has to send
  recent,     \* rows counted by sent_last_24h
  lapses,     \* how often a lease lapsed under a dispatcher, or one died
  changes,    \* changes made so far
  mailed,     \* history: the rows whose mail the transport accepted
  repeats     \* history: how often it accepted one again

mails == <<mailed, repeats>>
deliveryVars == <<account, mailbox, inbox, emission, queue, hand, recent, lapses, changes, mails>>
people == <<account, mailbox, inbox, emission, changes>>

Key == [key |-> "event"]
Absent == [state |-> "absent"]
Kind == {"notification", "confirm", "governance", "email_code"}

(* What a row's payload still is: none, the fields of a mail without a secret or with *)
(* one, those fields with the secret struck, or fields no mail can be made of.        *)
Payload == {"none", "plain", "armed", "redacted", "unrenderable"}

Unkeyed == [key |-> "none"]

(* A fresh row: due at once, under the dedupe key of a governance mail. *)
Queued(kind, payload, mail) ==
  [state |-> "pending", kind |-> kind, attempts |-> 0, due |-> TRUE, payload |-> payload, mail |-> mail]

Enqueue(kind, payload, mail) ==
  \E r \in Row :
    /\ queue[r] = Absent /\ \A s \in 1 .. r - 1 : queue[s] # Absent
    /\ queue' = [queue EXCEPT ![r] = Queued(kind, payload, mail)]

DeliveryInit ==
  /\ account = [exists |-> FALSE, inApp |-> TRUE, email |-> TRUE, topic |-> "none"]
  /\ mailbox = [state |-> "none", token |-> FALSE, throttled |-> FALSE]
  /\ inbox = {}
  /\ emission = [m \in Emission |-> [step |-> "ready"]]
  /\ queue = [r \in Row |-> Absent]
  /\ hand = [w \in Worker |-> {}]
  /\ recent = {}
  /\ lapses = 0
  /\ changes = 0
  /\ mailed = {}
  /\ repeats = 0

Change ==
  /\ changes < MaxChanges
  /\ changes' = changes + 1

(***************************************************************************)
(* A signed-in subscriber                                                  *)
(***************************************************************************)

(* The subscriber row behind a user, made or refreshed. *)
UpsertSubscriber == account' = [account EXCEPT !.exists = TRUE]

(* The row appears with the first look at the settings, confirmed on sight. *)
Touch ==
  /\ Change
  /\ ~account.exists
  /\ UpsertSubscriber
  /\ UNCHANGED <<mailbox, inbox, emission, queue, hand, recent, lapses, mails>>

(* One switch of the two, by COALESCE: the other is left as it is. *)
SetChannelEnabled(channel, on) ==
  /\ Change
  /\ account.exists
  /\ account' = IF channel = "inApp" THEN [account EXCEPT !.inApp = on]
                                     ELSE [account EXCEPT !.email = on]
  /\ UNCHANGED <<mailbox, inbox, emission, queue, hand, recent, lapses, mails>>

SetTopicSubscription(topic) ==
  /\ Change
  /\ account.exists
  /\ account' = [account EXCEPT !.topic = topic]
  /\ UNCHANGED <<mailbox, inbox, emission, queue, hand, recent, lapses, mails>>

(* The one-click target of a mail: the whole channel, or one topic. *)
Unsubscribe(whole) ==
  /\ Change
  /\ account.exists
  /\ account' = IF whole THEN [account EXCEPT !.email = FALSE]
                         ELSE [account EXCEPT !.topic = "none"]
  /\ UNCHANGED <<mailbox, inbox, emission, queue, hand, recent, lapses, mails>>

(***************************************************************************)
(* Emit                                                                    *)
(***************************************************************************)

(* No subscriber row, nothing to deliver. *)
EmitReadsSubscriber(m) ==
  /\ emission[m].step = "ready"
  /\ emission' = [emission EXCEPT ![m] =
       IF account.exists THEN [step |-> "subscriber", email |-> account.email]
                         ELSE [step |-> "done"]]
  /\ UNCHANGED <<account, mailbox, inbox, queue, hand, recent, lapses, changes, mails>>

EmitReadsTopic(m) ==
  /\ emission[m].step = "subscriber"
  /\ emission' = [emission EXCEPT ![m] =
       IF account.topic = "none" THEN [step |-> "done"]
       ELSE [step |-> "topic", mail |-> emission[m].email /\ account.topic = "mailed"]]
  /\ UNCHANGED <<account, mailbox, inbox, queue, hand, recent, lapses, changes, mails>>

(* The inbox row and the mail in one commit; a key already there ends it. *)
EmitWrites(m) ==
  /\ emission[m].step = "topic"
  /\ inbox' = inbox \union {Key}
  /\ IF Key \notin inbox /\ emission[m].mail
     THEN Enqueue("notification", "none", Unkeyed)
     ELSE UNCHANGED queue
  /\ emission' = [emission EXCEPT ![m] = [step |-> "done"]]
  /\ UNCHANGED <<account, mailbox, hand, recent, lapses, changes, mails>>

(* The connection is lost before the commit; the emitter sends again. *)
EmitFails(m) ==
  /\ lapses < MaxLapses
  /\ emission[m].step \in {"subscriber", "topic"}
  /\ lapses' = lapses + 1
  /\ emission' = [emission EXCEPT ![m] = [step |-> "ready"]]
  /\ UNCHANGED <<account, mailbox, inbox, queue, hand, recent, changes, mails>>

(* A mail of this plane's own: the self-accept mail of a removal, the owners' alerts. *)
EnqueueGovernanceMail ==
  /\ Change
  /\ UpsertSubscriber
  /\ Enqueue("governance", "armed", [key |-> "own"])
  /\ UNCHANGED <<mailbox, inbox, emission, hand, recent, lapses, mails>>

(* A mailbox code goes to an address, subscriber or not (credentials.rs). *)
EnqueueCode ==
  /\ Change
  /\ Enqueue("email_code", "armed", Unkeyed)
  /\ UNCHANGED <<account, mailbox, inbox, emission, hand, recent, lapses, mails>>

(***************************************************************************)
(* An address without an account                                           *)
(***************************************************************************)

(* The row is made once; a mail unless confirmed or mailed within the throttle. *)
SubscribeAnonymous ==
  LET asks == mailbox.state # "confirmed" /\ ~mailbox.throttled
  IN  /\ Change
      /\ mailbox' = [mailbox EXCEPT !.state = IF @ = "none" THEN "unconfirmed" ELSE @,
                                    !.token = @ \/ mailbox.state = "none",
                                    !.throttled = @ \/ asks]
      /\ IF asks THEN Enqueue("confirm", "none", Unkeyed) ELSE UNCHANGED queue
      /\ UNCHANGED <<account, inbox, emission, hand, recent, lapses, mails>>

(* One-shot: the token goes with its use. *)
Confirm ==
  /\ Change
  /\ mailbox.token
  /\ mailbox' = [mailbox EXCEPT !.state = "confirmed", !.token = FALSE]
  /\ UNCHANGED <<account, inbox, emission, queue, hand, recent, lapses, mails>>

ThrottlePasses ==
  /\ Change
  /\ mailbox.throttled
  /\ mailbox' = [mailbox EXCEPT !.throttled = FALSE]
  /\ UNCHANGED <<account, inbox, emission, queue, hand, recent, lapses, mails>>

(***************************************************************************)
(* The dispatchers                                                         *)
(***************************************************************************)

DueRows == {r \in Row : queue[r].state = "pending" /\ queue[r].due}

(* Whether the claimed row still has what its mail is made of. *)
Renderable(r) ==
  CASE queue[r].kind = "confirm"    -> mailbox.token
    [] queue[r].kind = "governance" -> queue[r].payload \notin {"none", "unrenderable"}
    [] queue[r].kind = "email_code" -> queue[r].payload = "armed"
    [] OTHER                        -> TRUE

(* Mutant: the turn is not counted. *)
Claimed_Uncounted(S, due) ==
  [r \in Row |-> IF r \in S THEN [queue[r] EXCEPT !.due = due] ELSE queue[r]]

Claimed(S, due) ==
  [r \in Row |-> IF r \in S THEN [queue[r] EXCEPT !.attempts = @ + 1, !.due = due]
                            ELSE queue[r]]

Jobs(S) == {[row |-> r, renderable |-> Renderable(r)] : r \in S}

(* Below the day's budget, or the budget could not be read. *)
MaySend ==
  \/ Cardinality(recent) < Budget /\ UNCHANGED lapses
  \/ lapses < MaxLapses /\ lapses' = lapses + 1

(* Mutant: a claimed row stays visible. *)
Claim_NoLease(w) ==
  /\ hand[w] = {}
  /\ MaySend
  /\ \E S \in SUBSET DueRows :
       /\ S # {} /\ Cardinality(S) <= Batch
       /\ queue' = Claimed(S, TRUE)
       /\ hand' = [hand EXCEPT ![w] = Jobs(S)]
  /\ UNCHANGED <<people, recent, mails>>

(* Claim due rows: one more attempt, invisible to the others for the lease. *)
Claim(w) ==
  /\ hand[w] = {}
  /\ MaySend
  /\ \E S \in SUBSET DueRows :
       /\ S # {} /\ Cardinality(S) <= Batch
       /\ queue' = Claimed(S, FALSE)
       /\ hand' = [hand EXCEPT ![w] = Jobs(S)]
  /\ UNCHANGED <<people, recent, mails>>

Drop(w, j) == hand' = [hand EXCEPT ![w] = @ \ {j}]

(* Mutant: the payload outlives the mail. *)
MarkedSent_KeepsPayload(r) == [queue EXCEPT ![r].state = "sent"]

MarkedSent(r) == [queue EXCEPT ![r].state = "sent", ![r].payload = "none"]

(* The transport took the mail of row r, for the first time or again. *)
Mailed(r) ==
  /\ mailed' = mailed \union {r}
  /\ repeats' = IF r \in mailed THEN repeats + 1 ELSE repeats

(* The transport took it and the outcome is written; by id, whatever the row is now. *)
Sent(w, j) ==
  /\ j \in hand[w] /\ j.renderable
  /\ Mailed(j.row)
  /\ queue' = MarkedSent(j.row)
  /\ recent' = recent \union {j.row}
  /\ Drop(w, j)
  /\ UNCHANGED <<people, lapses>>

(* The transport took it and the outcome could not be written. *)
SentUnrecorded(w, j) ==
  /\ lapses < MaxLapses
  /\ j \in hand[w] /\ j.renderable
  /\ Mailed(j.row)
  /\ lapses' = lapses + 1
  /\ Drop(w, j)
  /\ UNCHANGED <<people, queue, recent>>

(* Another turn after a pause, or parked with its secrets struck. *)
MarkedFailed(r, max) ==
  [queue EXCEPT ![r].state   = IF queue[r].attempts >= max THEN "failed" ELSE "pending",
                ![r].payload = IF queue[r].attempts >= max /\ @ = "armed" THEN "redacted" ELSE @,
                ![r].due     = FALSE]

SendFails(w, j) ==
  /\ j \in hand[w] /\ j.renderable
  /\ queue' = MarkedFailed(j.row, MaxAttempts)
  /\ recent' = recent \ {j.row}
  /\ Drop(w, j)
  /\ UNCHANGED <<people, lapses, mails>>

(* What cannot be rendered is parked at once. *)
Park(w, j) ==
  /\ j \in hand[w] /\ ~j.renderable
  /\ queue' = MarkedFailed(j.row, 0)
  /\ recent' = recent \ {j.row}
  /\ Drop(w, j)
  /\ UNCHANGED <<people, lapses, mails>>

(* The dispatcher dies with what it claimed. *)
Crash(w) ==
  /\ lapses < MaxLapses
  /\ hand[w] # {}
  /\ lapses' = lapses + 1
  /\ hand' = [hand EXCEPT ![w] = {}]
  /\ UNCHANGED <<people, queue, recent, mails>>

Held(r) == \E w \in Worker : \E j \in hand[w] : j.row = r

(* A pause or a lease ends; a lease may end under a slow dispatcher. *)
ComesDue(r) ==
  /\ queue[r].state = "pending" /\ ~queue[r].due
  /\ Held(r) => lapses < MaxLapses
  /\ lapses' = IF Held(r) THEN lapses + 1 ELSE lapses
  /\ queue' = [queue EXCEPT ![r].due = TRUE]
  /\ UNCHANGED <<people, hand, recent, mails>>

(* The day's window moves past the mails counted in it. *)
WindowRolls ==
  /\ recent # {}
  /\ recent' = {}
  /\ UNCHANGED <<people, queue, hand, lapses, mails>>

Preferences ==
  \/ Touch
  \/ \E on \in BOOLEAN : SetChannelEnabled("inApp", on) \/ SetChannelEnabled("email", on)
  \/ \E t \in {"none", "quiet", "mailed"} : SetTopicSubscription(t)
  \/ \E whole \in BOOLEAN : Unsubscribe(whole)

Emit == \E m \in Emission : EmitReadsSubscriber(m) \/ EmitReadsTopic(m) \/ EmitWrites(m) \/ EmitFails(m)

Mailbox == SubscribeAnonymous \/ Confirm \/ ThrottlePasses

Work(w) ==
  \E j \in hand[w] : Sent(w, j) \/ SentUnrecorded(w, j) \/ SendFails(w, j) \/ Park(w, j)

DeliveryNext ==
  \/ Preferences \/ Emit \/ EnqueueGovernanceMail \/ EnqueueCode \/ Mailbox
  \/ \E w \in Worker : Claim(w) \/ Work(w) \/ Crash(w)
  \/ \E r \in Row : ComesDue(r)
  \/ WindowRolls

DeliverySpec == DeliveryInit /\ [][DeliveryNext]_deliveryVars

(***************************************************************************)
(* The loop of every dispatcher goes on (run_dispatcher), a send ends, and *)
(* time passes.                                                            *)
(***************************************************************************)
Fairness ==
  /\ \A w \in Worker : WF_deliveryVars(Claim(w)) /\ WF_deliveryVars(Work(w))
  /\ \A r \in Row : WF_deliveryVars(ComesDue(r))
  /\ WF_deliveryVars(WindowRolls)

FairDelivery == DeliverySpec /\ Fairness

(***************************************************************************)
(* Types                                                                   *)
(***************************************************************************)

DeliveryTypeOK ==
  /\ account \in [exists : BOOLEAN, inApp : BOOLEAN, email : BOOLEAN, topic : {"none", "quiet", "mailed"}]
  /\ mailbox \in [state : {"none", "unconfirmed", "confirmed"}, token : BOOLEAN,
                  throttled : BOOLEAN]
  /\ \A r \in Row : queue[r] # Absent =>
       /\ queue[r].state \in {"pending", "sent", "failed"} /\ queue[r].kind \in Kind
       /\ queue[r].attempts \in Nat /\ queue[r].due \in BOOLEAN /\ queue[r].payload \in Payload
  /\ hand \in [Worker -> SUBSET [row : Row, renderable : BOOLEAN]]
  /\ recent \subseteq Row
  /\ lapses \in 0..MaxLapses /\ changes \in 0..MaxChanges
  /\ mailed \subseteq Row /\ repeats \in Nat

(***************************************************************************)
(* What is promised                                                        *)
(***************************************************************************)

(***************************************************************************)
(* A retried or concurrent emit of one event queues one mail, and no mail  *)
(* is queued without the inbox row it is a copy of (notifications.rs,      *)
(* header: "a queued email always has a durable notification behind it").  *)
(***************************************************************************)
IsCopy(r) == queue[r] # Absent /\ queue[r].kind = "notification"

EmitsAreIdempotent ==
  \A r, s \in Row : IsCopy(r) => Key \in inbox /\ (IsCopy(s) => r = s)

(***************************************************************************)
(* A mail is sent twice only at the price of a lease that lapsed under a   *)
(* dispatcher, a death, or an outcome that could not be written: the       *)
(* dispatchers share the queue without another word between them.          *)
(***************************************************************************)
RepeatsArePaidFor == repeats <= lapses

(***************************************************************************)
(* A secret has no reason to outlive the mail that carried it: a row that  *)
(* reached a terminal state holds none, whoever recorded the outcome and   *)
(* in whatever order.                                                      *)
(***************************************************************************)
SecretsEndWithTheirMail ==
  \A r \in Row : queue[r] # Absent /\ queue[r].state \in {"sent", "failed"} => queue[r].payload # "armed"

(***************************************************************************)
(* Nothing is dropped and nothing is kept for ever: a queued mail is sent  *)
(* or parked, however many dispatchers die on it, while a day's budget may *)
(* be spent and have to pass.                                              *)
(***************************************************************************)
EveryMailSettles ==
  \A r \in Row : (queue[r] # Absent /\ queue[r].state = "pending")
                  ~> (queue[r].state \in {"sent", "failed"})

=============================================================================
