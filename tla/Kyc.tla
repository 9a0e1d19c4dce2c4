--------------------------------- MODULE Kyc ---------------------------------
(***************************************************************************)
(* Identity verification: a user starts a case with a paid vendor session  *)
(* (runner/src/web/kyc.rs, start), and the vendor's signed deliveries move *)
(* the case (infrastructure/kyc/cases.rs, record_decision) and then, in a  *)
(* transaction of its own, the account's level (web/kyc.rs, apply).        *)
(*                                                                         *)
(* Deliveries are retried, doubled, lost and out of order.  A case is      *)
(* running, or decided, or retired by the start of the next one when it    *)
(* has waited for the user too long.                                       *)
(***************************************************************************)
EXTENDS Naturals, FiniteSets

CONSTANTS
  Account,
  Document,   \* identity documents; NoDocument among them stands for none
  NoDocument,
  Level,      \* bound: the levels an operator sets
  Sessions,   \* bound: sessions the vendor sells
  Worker,     \* requests in flight
  Word,       \* what the vendor may say of a session
  StartMax,   \* START_MAX_PER_WINDOW
  MaxWords,   \* bound: words of the vendor, over all sessions
  MaxFaults   \* bound: requests that die half way

Case == 1 .. Sessions   \* vendor sessions, and the cases opened for them

Abandonable == {"pending", "in_progress", "resubmitted"}   \* the user's move
Running == Abandonable \union {"in_review"}
Decided == {"approved", "declined", "abandoned", "expired", "kyc_expired", "held_duplicate"}

Unheard == "unheard"   \* any word of the vendor this build was not taught

ASSUME WordsAssumption == Word \subseteq (Running \union Decided \union {Unheard}) \ {"held_duplicate"}
ASSUME BoundsAssumption ==
  StartMax \in Nat /\ Sessions \in Nat /\ MaxWords \in Nat /\ MaxFaults \in Nat /\ Level \subseteq 0 .. 2

VARIABLES
  level,    \* users.kyc_level
  session,  \* at the vendor: whose, on which document, and the words said of it
  case,     \* kyc_cases
  said,     \* words of the vendor, over all sessions
  answered, \* deliveries that got their 200
  worker,   \* what each request is doing
  faults,   \* failures that happened
  mail,     \* notices and alerts queued: the case and the kind
  bought,   \* history: the documents an approval raised each account's level on
  stale     \* history: accounts raised by a verdict their case had moved past

vendor == <<session, said, answered>>
vars == <<level, vendor, case, worker, faults, mail, bought, stale>>

Unopened == [status |-> "unopened"]
Idle == [step |-> "idle"]

Init ==
  /\ level = [a \in Account |-> 0]
  /\ session = [x \in Case |-> Unopened]
  /\ case = [x \in Case |-> Unopened]
  /\ said = 0
  /\ answered = {}
  /\ worker = [p \in Worker |-> Idle]
  /\ faults = 0
  /\ mail = {}
  /\ bought = [a \in Account |-> {}]
  /\ stale = {}

Sold(x) == session[x] # Unopened
Opened(x) == case[x] # Unopened
Owner(x) == session[x].owner
CasesOf(a) == {x \in Case : Opened(x) /\ Owner(x) = a}

At(p, step) == worker[p].step = step
Goes(p, next) == worker' = [worker EXCEPT ![p] = next]
Ends(p) == Goes(p, Idle)

(***************************************************************************)
(* POST /kyc/start                                                         *)
(***************************************************************************)

(* A case that waited for the user longer than KYC_CASE_TTL_SECS. *)
Stale(x) == case[x].status \in Abandonable /\ case[x].aged
Live(x) == case[x].status \in Running /\ ~Stale(x)
StartGate(a) == (\A x \in CasesOf(a) : ~Live(x)) /\ Cardinality(CasesOf(a)) < StartMax

Starting(a) == \E p \in Worker : worker[p].step \in {"dialling", "opening"} /\ worker[p].account = a

PassesGate(p, a) ==
  /\ At(p, "idle")
  /\ StartGate(a)
  /\ Goes(p, [step |-> "dialling", account |-> a])
  /\ UNCHANGED <<level, vendor, case, faults, mail, bought, stale>>

(* Held from the read of the gate to the row: a live case is handed back, not replaced. *)
Start(p, a) == ~Starting(a) /\ PassesGate(p, a)

(* The vendor sells a session, before there is a case for it. *)
StartSession(p, x, d) ==
  /\ At(p, "dialling")
  /\ ~Sold(x) /\ \A y \in Case : y < x => Sold(y)
  /\ session' = [session EXCEPT ![x] =
       [status |-> "sold", owner |-> worker[p].account, document |-> d, at |-> 1, words |-> {}]]
  /\ Goes(p, [step |-> "opening", account |-> worker[p].account, case |-> x])
  /\ UNCHANGED <<level, answered, said, case, faults, mail, bought, stale>>

(* The vendor is down, or refuses: nothing was written yet. *)
SessionRefused(p) ==
  /\ At(p, "dialling")
  /\ Ends(p)
  /\ UNCHANGED <<level, vendor, case, faults, mail, bought, stale>>

(* The stale cases of the user are retired with the insert. *)
OpenCase(p) ==
  LET retired == {x \in CasesOf(worker[p].account) : Stale(x)}
  IN  /\ At(p, "opening")
      /\ case' = [x \in Case |->
           CASE x \in retired -> [case[x] EXCEPT !.status = "abandoned", !.retired = TRUE]
             [] x = worker[p].case -> [status |-> "pending", at |-> 0, document |-> NoDocument, aged |-> FALSE, retired |-> FALSE]
             [] OTHER -> case[x]]
      /\ Ends(p)
      /\ UNCHANGED <<level, vendor, faults, mail, bought, stale>>

CaseAges(x) ==
  /\ Opened(x) /\ Live(x) /\ case[x].status \in Abandonable
  /\ case' = [case EXCEPT ![x].aged = TRUE]
  /\ UNCHANGED <<level, vendor, worker, faults, mail, bought, stale>>

(***************************************************************************)
(* POST /kyc/callback/didit                                                *)
(***************************************************************************)

(* In the same second as its last word, or in a later one. *)
VendorSays(x, word) ==
  /\ Sold(x) /\ said < MaxWords
  /\ said' = said + 1
  /\ \E at \in {session[x].at, session[x].at + 1} :
       session' = [session EXCEPT ![x].at = at,
                     ![x].words = @ \union {[case |-> x, status |-> word, at |-> at]}]
  /\ UNCHANGED <<level, answered, case, worker, faults, mail, bought, stale>>

Answer(word) == answered' = answered \union {word}

(* An older word, a running word on a decided case, any word on a retired one. *)
Superseded(w) ==
  LET c == case[w.case]
  IN  \/ c.retired
      \/ c.status # w.status /\ (w.at < c.at \/ (c.status \in Decided /\ w.status \in Running))

(* Equal for two sessions exactly when they were shown one document; none without one. *)
IdentityDigest(x) == session[x].document

(* Mutant: only an account that already holds a level counts. *)
Twin_LevelOnly(x, y) ==
  /\ Opened(y) /\ Owner(y) # Owner(x)
  /\ IdentityDigest(x) # NoDocument /\ case[y].document = IdentityDigest(x)
  /\ case[y].status \in Decided
  /\ level[Owner(y)] >= 1

(* The document of x has bought another account its level, or is about to. *)
Twin(x, y) ==
  /\ Opened(y) /\ Owner(y) # Owner(x)
  /\ IdentityDigest(x) # NoDocument /\ case[y].document = IdentityDigest(x)
  /\ case[y].status \in Decided
  /\ case[y].status = "approved" \/ level[Owner(y)] >= 1

Verdict(w) == IF w.status = "approved" /\ \E y \in Case : Twin(w.case, y) THEN "held_duplicate" ELSE w.status

Applies(p, w, status) == Goes(p, [step |-> "applying", case |-> w.case, status |-> status, word |-> w])

(* A genuine delivery of a word nobody taught this build: answered, and nothing else. *)
UnknownStatus(p, w) ==
  /\ At(p, "idle")
  /\ w.status = Unheard
  /\ Answer(w)
  /\ UNCHANGED <<level, session, said, case, worker, faults, mail, bought, stale>>

RecordIgnored(p, w) ==
  /\ At(p, "idle")
  /\ Opened(w.case) /\ Superseded(w)
  /\ Answer(w)
  /\ UNCHANGED <<level, session, said, case, worker, faults, mail, bought, stale>>

(* Mutant: a repeated word is answered and not applied again. *)
RecordRedelivered_Skips(p, w) ==
  /\ At(p, "idle")
  /\ Opened(w.case) /\ ~Superseded(w)
  /\ case[w.case].status \in {w.status, Verdict(w)}
  /\ Answer(w)
  /\ UNCHANGED <<level, session, said, case, worker, faults, mail, bought, stale>>

(* What a delivery that died left undone is done by the next one. *)
RecordRedelivered(p, w) ==
  LET status == case[w.case].status
  IN  /\ At(p, "idle")
      /\ Opened(w.case) /\ ~Superseded(w)
      /\ status \in {w.status, Verdict(w)}
      /\ Applies(p, w, status)
      /\ UNCHANGED <<level, vendor, case, faults, mail, bought, stale>>

RecordDecision(p, w) ==
  /\ At(p, "idle")
  /\ Opened(w.case) /\ ~Superseded(w)
  /\ case[w.case].status \notin {w.status, Verdict(w)}
  /\ case' = [case EXCEPT ![w.case].status = Verdict(w), ![w.case].at = w.at, ![w.case].aged = FALSE,
                ![w.case].document = IF IdentityDigest(w.case) = NoDocument THEN @ ELSE IdentityDigest(w.case)]
  /\ Applies(p, w, Verdict(w))
  /\ UNCHANGED <<level, vendor, faults, mail, bought, stale>>

Callback(p, w) ==
  \/ UnknownStatus(p, w)
  \/ w.status # Unheard /\ (RecordIgnored(p, w) \/ RecordRedelivered(p, w) \/ RecordDecision(p, w))

(* Under the lock of the user's row, and only up. *)
RaiseKycLevelTo(a) == level' = [level EXCEPT ![a] = IF @ < 1 THEN 1 ELSE @]

(* The kind of notice the user gets of a verdict that grants nothing, if any. *)
TerminalNotice(status) ==
  CASE status = "in_review"                              -> {"kyc_in_review"}
    [] status = "declined"                               -> {"kyc_declined"}
    [] status \in {"abandoned", "expired", "kyc_expired"} -> {"kyc_expired"}
    [] status = "held_duplicate"                         -> {"kyc_held"}
    [] OTHER                                             -> {}

(* The level the account's other approved cases would still justify. *)
ApprovedCover(x) ==
  IF \E y \in CasesOf(Owner(x)) \ {x} : case[y].status = "approved" THEN 1 ELSE 0

AgainstThePerson == {"declined", "kyc_expired"}

(* Mutant: a level any operator gave is no contradiction either. *)
Contradicts_EntryOnly(x, status) == status \in AgainstThePerson /\ level[Owner(x)] > 1

(* A verdict against the person, on an account that holds more than is still covered. *)
Contradicts(x, status) == status \in AgainstThePerson /\ level[Owner(x)] > ApprovedCover(x)

(* Queued once per case and kind.  A store that fails on it is logged, and nobody retries. *)
Notify(x, kinds) ==
  \/ mail' = mail \union {<<x, kind>> : kind \in kinds} /\ UNCHANGED faults
  \/ kinds # {} /\ faults < MaxFaults /\ faults' = faults + 1 /\ mail' = mail \union {<<x, "lost">>}

(* An approval grants tier 1, whatever was asked for. *)
ApplyApproval(p) ==
  LET x == worker[p].case
      a == Owner(x)
      raises == level[a] = 0
  IN  /\ At(p, "applying") /\ worker[p].status = "approved"
      /\ RaiseKycLevelTo(a)
      /\ Notify(x, IF raises THEN {"kyc_approved"} ELSE {})
      /\ bought' = IF raises THEN [bought EXCEPT ![a] = @ \union {case[x].document}] ELSE bought
      /\ stale' = IF raises /\ case[x].status # "approved" THEN stale \union {a} ELSE stale
      /\ Answer(worker[p].word)
      /\ Ends(p)
      /\ UNCHANGED <<session, said, case>>

(* No other verdict moves the level, but one that contradicts it is put before the owners. *)
ApplyOther(p) ==
  LET x == worker[p].case
      status == worker[p].status
  IN  /\ At(p, "applying") /\ status # "approved"
      /\ Notify(x, TerminalNotice(status) \union (IF Contradicts(x, status) THEN {"kyc_verdict_alert"} ELSE {}))
      /\ Answer(worker[p].word)
      /\ Ends(p)
      /\ UNCHANGED <<level, session, said, case, bought, stale>>

Apply(p) == ApplyApproval(p) \/ ApplyOther(p)

(* An operator, under KycManage. *)
SetKycLevel(a, n) ==
  /\ level[a] # n
  /\ level' = [level EXCEPT ![a] = n]
  /\ bought' = IF n = 0 THEN [bought EXCEPT ![a] = {}] ELSE bought
  /\ UNCHANGED <<vendor, case, worker, faults, mail, stale>>

(* A pod rolled, a store down: the request ends without its answer. *)
Fails(p) ==
  /\ ~At(p, "idle")
  /\ faults < MaxFaults
  /\ faults' = faults + 1
  /\ Ends(p)
  /\ UNCHANGED <<level, vendor, case, mail, bought, stale>>

Proceeds(p) == SessionRefused(p) \/ OpenCase(p) \/ Apply(p) \/ \E x \in Case, d \in Document : StartSession(p, x, d)
Words(x) == IF Sold(x) THEN session[x].words ELSE {}

Next ==
  \/ \E p \in Worker :
       \/ Proceeds(p) \/ Fails(p)
       \/ \E a \in Account : Start(p, a)
       \/ \E x \in Case : \E w \in Words(x) : Callback(p, w)
  \/ \E x \in Case, word \in Word : VendorSays(x, word)
  \/ \E x \in Case : CaseAges(x)
  \/ \E a \in Account, n \in Level : SetKycLevel(a, n)

Spec == Init /\ [][Next]_vars

(***************************************************************************)
(* Requests run to their end, and the vendor retries what got no 200.      *)
(***************************************************************************)
Retries(x) == \E p \in Worker, w \in Words(x) \ answered : Callback(p, w)
Fairness ==
  /\ \A p \in Worker : WF_vars(Proceeds(p))
  /\ \A x \in Case : SF_vars(Retries(x))

FairSpec == Spec /\ Fairness

(***************************************************************************)
(* What is promised                                                        *)
(***************************************************************************)

Delivery == [case : Case, status : Word, at : Nat]
VendorSession == [status : {"sold"}, owner : Account, document : Document, at : Nat, words : SUBSET Delivery]
OpenedCase == [status : Running \union Decided, at : Nat, document : Document \union {NoDocument},
               aged : BOOLEAN, retired : BOOLEAN]
Kind == {"kyc_in_review", "kyc_declined", "kyc_expired", "kyc_held", "kyc_approved", "kyc_verdict_alert", "lost"}
Request ==
  {Idle}
    \union [step : {"dialling"}, account : Account]
    \union [step : {"opening"}, account : Account, case : Case]
    \union [step : {"applying"}, case : Case, status : Running \union Decided, word : Delivery]

TypeOK ==
  /\ level \in [Account -> 0 .. 2]
  /\ session \in [Case -> {Unopened} \union VendorSession]
  /\ case \in [Case -> {Unopened} \union OpenedCase]
  /\ said \in Nat /\ faults \in Nat
  /\ answered \subseteq Delivery
  /\ worker \in [Worker -> Request]
  /\ mail \subseteq Case \X Kind
  /\ bought \in [Account -> SUBSET (Document \union {NoDocument})]
  /\ stale \subseteq Account

(***************************************************************************)
(* Nobody is counted twice.  One person, several accounts: no document     *)
(* raises the level of two accounts, however their verdicts race, unless   *)
(* one was raised by a verdict its case had already moved past             *)
(* (record_decision, the twin).  And "one start per user at a time, from   *)
(* the gate read to the row write" (start): no two cases wait for a user   *)
(* who has begun neither, for the vendor to say its first word of.         *)
(***************************************************************************)
OneDocumentOneAccount ==
  \A a, b \in Account : a # b => bought[a] \intersect bought[b] \subseteq {NoDocument} \/ {a, b} \intersect stale # {}

Waiting(x) == case[x].at = 0 /\ ~case[x].aged
OnePendingCase == \A a \in Account : Cardinality({x \in CasesOf(a) : Waiting(x)}) <= 1

NobodyCountsTwice == OneDocumentOneAccount /\ OnePendingCase

(***************************************************************************)
(* "Not moving the level was always right.  Telling NOBODY was not"        *)
(* (apply, alert_owners_if_contradicted): an account that bought a level   *)
(* on a document and has lost every approval behind it to verdicts against *)
(* the person was put before the owners, once its last verdict was         *)
(* answered, however deliveries raced and failed.  Not promised when the   *)
(* store failed on that mail, when the level itself came of a superseded   *)
(* verdict, or when a session had two words of one second or one kind: a   *)
(* double of an answered word may then be recorded again, and die.         *)
(***************************************************************************)
SaidOnce(x) == \A v, w \in Words(x) : v.at = w.at \/ v.status = w.status => v = w
Settled(a) ==
  /\ \A x \in CasesOf(a) : SaidOnce(x) /\ \A w \in Words(x) : w \in answered
  /\ \A p \in Worker : At(p, "applying") => Owner(worker[p].case) # a
Unjustified(a) ==
  /\ level[a] >= 1 /\ bought[a] # {}
  /\ \E x \in CasesOf(a) : case[x].status \in AgainstThePerson
  /\ \A x \in CasesOf(a) : case[x].status \in Decided => case[x].retired \/ case[x].status \in AgainstThePerson
PutBeforeOwners(a) == \E x \in CasesOf(a) : {<<x, "kyc_verdict_alert">>, <<x, "lost">>} \intersect mail # {}
LostLevelsAreRaised ==
  \A a \in Account : Settled(a) /\ Unjustified(a) /\ a \notin stale => PutBeforeOwners(a)

(***************************************************************************)
(* "A downgrade is a human act under KycManage, and there is no path to    *)
(* one from here" (apply).                                                 *)
(***************************************************************************)
VerdictsNeverLower == [][\A a \in Account : level'[a] < level[a] => UNCHANGED <<worker, answered>>]_vars

(***************************************************************************)
(* An approval that was recorded, and not yet answered, reaches the level, *)
(* even if the request that recorded it died: the vendor's retry repairs   *)
(* it (callback, apply).  Not promised while a double of the same delivery *)
(* is about to answer for it with another verdict.                         *)
(***************************************************************************)
Carries(p, x, status) == At(p, "applying") /\ worker[p].case = x /\ worker[p].status = status
Granting(x) ==
  /\ Opened(x) /\ case[x].status = "approved"
  /\ \E w \in Words(x) \ answered : w.status = "approved"
  /\ \A p \in Worker : ~Carries(p, x, "held_duplicate")
Granted(x) == Opened(x) /\ (case[x].status # "approved" \/ level[Owner(x)] >= 1)

ApprovedReachesTheLevel == \A x \in Case : Granting(x) ~> Granted(x)

(***************************************************************************)
(* "NOT applied - a superseded verdict must not reach apply" (callback):   *)
(* no level is raised by a verdict its case has moved past.                *)
(***************************************************************************)
SupersededVerdictsAreNotApplied == stale = {}
=============================================================================
