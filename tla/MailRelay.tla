----------------------------- MODULE MailRelay -----------------------------
(***************************************************************************)
(* The money plane's one way into this plane's mailer                      *)
(* (runner/src/governance.rs, send_governance_mail), over the queue of     *)
(* Delivery: a typed request under a dedupe key is judged by its kind, the *)
(* recipient by the identity record, the mail is queued, the recipient's   *)
(* budget is charged, and a trace is left in the recipient's inbox.        *)
(*                                                                         *)
(* The money plane retries every request until it is answered.  The steps  *)
(* of a request are apart: the peek at the budget, the read of the record, *)
(* the insert, and what follows it.                                        *)
(***************************************************************************)
EXTENDS Delivery

CONSTANTS
  Request,     \* requests under way at once
  Recipient,   \* users a mail may be asked for
  Me,          \* the one of them who is Delivery's signed-in subscriber
  DedupeKey,   \* the keys the money plane spends
  Ceiling      \* mails to one recipient in a window of the limiter

ASSUME RelayAssumption == Me \in Recipient /\ Ceiling \in Nat \ {0}

VARIABLES
  request,   \* what each request is doing
  spent      \* the limiter: mails charged to each recipient in this window

relayVars == <<request, spent>>

RelayInit ==
  /\ DeliveryInit
  /\ request = [q \in Request |-> [step |-> "idle"]]
  /\ spent = [u \in Recipient |-> 0]

(***************************************************************************)
(* The kinds: whom they speak to, whether they carry a link and its code,  *)
(* whether they leave a trace, and the filled fields they come with        *)
(***************************************************************************)

Seat == "a verified fund owner"
Subject == "the verified person it names"
SubjectOrStaff == "the verified person it names, or staff"

PayoutApproval    == [rule |-> Seat, secret |-> TRUE, traced |-> FALSE]
PaymentApproval   == [rule |-> Seat, secret |-> TRUE, traced |-> FALSE]
FeePolicyApproval == [rule |-> Seat, secret |-> TRUE, traced |-> FALSE]
PayoutOutcome     == [rule |-> Seat, secret |-> FALSE, traced |-> FALSE]
PaymentConsent    == [rule |-> Subject, secret |-> TRUE, traced |-> TRUE]
FeePolicyNotice   == [rule |-> Subject, secret |-> FALSE, traced |-> TRUE]
PaymentOutcome    == [rule |-> SubjectOrStaff, secret |-> FALSE, traced |-> TRUE]

MailKind ==
  [payout_approval |-> PayoutApproval, payment_approval |-> PaymentApproval,
   fee_policy_approval |-> FeePolicyApproval, payout_outcome |-> PayoutOutcome,
   payment_consent |-> PaymentConsent, fee_policy_notice |-> FeePolicyNotice,
   payment_outcome |-> PaymentOutcome]

(* The fields of an outcome that say what ended; network and address go as "rail". *)
OutcomeField == {"rail", "source", "destination", "tier", "fund", "current", "proposed", "mark"}
PaymentField == {"source", "destination", "tier"}

Described(f) ==
  {d \in {"rail", "payment", "terms", "mark"} :
     CASE d = "rail"    -> "rail" \in f
       [] d = "payment" -> f \intersect PaymentField # {}
       [] d = "terms"   -> f \intersect {"current", "proposed"} # {} \/ ("fund" \in f /\ "mark" \notin f)
       [] OTHER         -> "mark" \in f}

(* Mutant: a mark is let through without the fund it is about. *)
OutcomeAccepted_BareMark(f) ==
  /\ Cardinality(Described(f)) <= 1
  /\ "payment" \in Described(f) => PaymentField \subseteq f
  /\ "terms" \in Described(f) => {"fund", "proposed"} \subseteq f

(* At most one description, and no half of one; none is a payout with an empty rail. *)
OutcomeAccepted(f) ==
  /\ Cardinality(Described(f)) <= 1
  /\ "payment" \in Described(f) => PaymentField \subseteq f
  /\ "terms" \in Described(f) => {"fund", "proposed"} \subseteq f
  /\ "mark" \in Described(f) => "fund" \in f

(* How a consent died and why, as one pair. *)
EndingField == {"TOKEN_BURNED", "INVALIDATED", "WRONG_CODES", "SESSIONS_REVOKED", "EMAIL_CHANGED"}
ConsentEnding(f) ==
  f \in {{"TOKEN_BURNED", "WRONG_CODES"}, {"INVALIDATED", "SESSIONS_REVOKED"}, {"INVALIDATED", "EMAIL_CHANGED"}}

Accepted ==
  [kind : DOMAIN MailKind \ {"payout_outcome", "payment_outcome"}, fields : {{}}]
    \union [kind : {"payout_outcome"}, fields : {f \in SUBSET OutcomeField : OutcomeAccepted(f)}]
    \union [kind : {"payment_outcome"}, fields : {f \in SUBSET EndingField : ConsentEnding(f)}]

(* The dispatcher's template for what the relay let through (dispatch.rs, governance_mail). *)
GovernanceMail(m) ==
  CASE m.kind = "payout_outcome" /\ "mark" \in m.fields ->
         IF "fund" \in m.fields THEN "valuation_outcome" ELSE "none"
    [] m.kind = "payout_outcome" /\ "mark" \notin m.fields /\ m.fields \intersect {"fund", "proposed"} # {} ->
         IF {"fund", "proposed"} \subseteq m.fields THEN "fee_policy_outcome" ELSE "none"
    [] m.kind = "payment_outcome" ->
         IF m.fields \in {{"TOKEN_BURNED", "WRONG_CODES"}, {"INVALIDATED", "SESSIONS_REVOKED"},
                          {"INVALIDATED", "EMAIL_CHANGED"}} THEN "payment_outcome" ELSE "none"
    [] OTHER -> m.kind

MailPayload(m) ==
  CASE GovernanceMail(m) = "none" -> "unrenderable"
    [] MailKind[m.kind].secret    -> "armed"
    [] OTHER                      -> "plain"

Mail == {[kind |-> m.kind, payload |-> MailPayload(m)] : m \in Accepted}

(***************************************************************************)
(* A request                                                               *)
(***************************************************************************)

Goes(q, to) == request' = [request EXCEPT ![q] = to]
Ends(q) == Goes(q, [step |-> "idle"])

(* The recipient's window has room, or rolled since it was last looked at. *)
Peek(u) ==
  \/ spent[u] < Ceiling /\ UNCHANGED spent
  \/ spent[u] > 0 /\ spent' = [spent EXCEPT ![u] = 0]

Hit(u) == spent' = [spent EXCEPT ![u] = @ + 1]

(* Well formed, and within what is left of the recipient's budget; nothing is charged yet. *)
Receive(q) ==
  /\ Change
  /\ request[q].step = "idle"
  /\ \E u, subject \in Recipient, k \in DedupeKey, m \in Mail :
       /\ Peek(u)
       /\ MailKind[m.kind].rule = Seat => subject = u
       /\ Goes(q, [step |-> "asked", to |-> u, subject |-> subject, key |-> k, mail |-> m])
  /\ UNCHANGED <<account, mailbox, inbox, emission, queue, hand, recent, lapses, mails>>

(* Whom the record lets a kind speak to. *)
Admissible(rule, isSubject, role, verified) ==
  /\ verified
  /\ CASE rule = Seat    -> role = "owner"
       [] rule = Subject -> isSubject
       [] OTHER          -> isSubject \/ role \in {"admin", "owner"}

(* The identity record says what it says at this instant; it is not looked at again. *)
ReadRecipient(q) ==
  /\ request[q].step = "asked"
  /\ \E role \in {"investor", "admin", "owner"}, verified \in BOOLEAN :
       LET r == request[q]
           kind == MailKind[r.mail.kind]
       IN IF Admissible(kind.rule, r.to = r.subject, role, verified)
          THEN Goes(q, [step |-> "admitted", to |-> r.to, key |-> r.key, mail |-> r.mail,
                        traced |-> kind.traced /\ r.to = r.subject])
          ELSE Ends(q)
  /\ UNCHANGED <<deliveryVars, spent>>

Entry(q) == [key |-> request[q].key, to |-> request[q].to, kind |-> request[q].mail.kind]
Taken(q) == {r \in Row : queue[r] # Absent /\ queue[r].mail.key = request[q].key}

Answering(q, new) == Goes(q, [step |-> "answering", to |-> request[q].to, traced |-> request[q].traced,
                              entry |-> Entry(q), new |-> new])

(* Mutant: somebody else's mail under the key is taken for a repeat of this one. *)
EnqueueMail_ForeignIsARepeat(q) ==
  /\ request[q].step = "admitted"
  /\ IF request[q].to = Me THEN UpsertSubscriber ELSE UNCHANGED account
  /\ \/ Taken(q) = {} /\ Answering(q, TRUE)
          /\ Enqueue("governance", request[q].mail.payload, Entry(q))
     \/ Taken(q) # {} /\ UNCHANGED queue /\ Answering(q, FALSE)
  /\ UNCHANGED <<mailbox, inbox, emission, hand, recent, lapses, changes, mails, spent>>

(* One row per key: this mail, the same one again, or somebody else's. *)
EnqueueMail(q) ==
  /\ request[q].step = "admitted"
  /\ IF request[q].to = Me THEN UpsertSubscriber ELSE UNCHANGED account
  /\ \/ Taken(q) = {} /\ Answering(q, TRUE)
          /\ Enqueue("governance", request[q].mail.payload, Entry(q))
     \/ (\E r \in Taken(q) : queue[r].mail = Entry(q)) /\ UNCHANGED queue /\ Answering(q, FALSE)
     \/ (\E r \in Taken(q) : queue[r].mail # Entry(q)) /\ UNCHANGED queue /\ Ends(q)
  /\ UNCHANGED <<mailbox, inbox, emission, hand, recent, lapses, changes, mails, spent>>

(* A new mail is charged; the trace is a courtesy, and one that fails is only logged. *)
Record(q) ==
  /\ request[q].step = "answering"
  /\ IF request[q].new THEN Hit(request[q].to) ELSE UNCHANGED spent
  /\ \/ inbox' = inbox \union {e \in {request[q].entry} : request[q].traced} /\ UNCHANGED lapses
     \/ request[q].traced /\ lapses < MaxLapses /\ lapses' = lapses + 1 /\ UNCHANGED inbox
  /\ Ends(q)
  /\ UNCHANGED <<account, mailbox, emission, queue, hand, recent, changes, mails>>

(* The process ends, or a store does not answer; the money plane asks again. *)
RelayFails(q) ==
  /\ request[q].step # "idle" /\ lapses < MaxLapses
  /\ lapses' = lapses + 1
  /\ Ends(q)
  /\ UNCHANGED <<people, queue, hand, recent, mails, spent>>

Relay(q) == Receive(q) \/ ReadRecipient(q) \/ EnqueueMail(q) \/ Record(q) \/ RelayFails(q)

RelayNext ==
  \/ DeliveryNext /\ UNCHANGED relayVars
  \/ \E q \in Request : Relay(q)

RelaySpec == RelayInit /\ [][RelayNext]_<<deliveryVars, relayVars>>

(***************************************************************************)
(* What is promised                                                        *)
(***************************************************************************)

(***************************************************************************)
(* The inbox and the mail queue tell one story: a retried or concurrent    *)
(* emit queues one mail, and none without the inbox row it is a copy of    *)
(* (notifications.rs, header); and no request leaves a trace in anybody's  *)
(* inbox unless that very mail was queued for them - "what let one spent   *)
(* key put entries in any inbox" (send_governance_mail).                   *)
(***************************************************************************)
InboxAndQueueAgree ==
  /\ EmitsAreIdempotent
  /\ \A e \in inbox \ {Key} : \E r \in Row : queue[r] # Absent /\ queue[r].mail = e

(***************************************************************************)
(* The relay, which accepts a payload, and the dispatcher, which picks a   *)
(* template for it later, "agree by convention and by nothing else"        *)
(* (web/kyc.rs, verdict_alert_payload): what was accepted can be rendered. *)
(***************************************************************************)
AcceptedMailsRender ==
  \A r \in Row : queue[r] # Absent => queue[r].payload # "unrenderable"
============================================================================
