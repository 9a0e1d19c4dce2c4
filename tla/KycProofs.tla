----------------------------- MODULE KycProofs -----------------------------
(***************************************************************************)
(* Theorems about Kyc, for any accounts, documents, requests, words of the *)
(* vendor and bounds.                                                      *)
(*                                                                         *)
(* Starts exclude each other from the gate to the row, so whoever inserts  *)
(* finds what the gate found (StartsAlone).  An approval that bought a     *)
(* level leaves a decided case on its document behind, whatever becomes of *)
(* the verdict, and that is what the next approval on the document meets   *)
(* (BoughtIsDecided, NotBoughtElsewhere).  A verdict that takes the last   *)
(* approval away is news to its session: until somebody has answered for   *)
(* it, and put the account before the owners, the vendor will say it again *)
(* (Unanswered).  Whoever answers an approval has applied it, or leaves a  *)
(* case that is no longer approved (WhoAnswers, ApprovalsStayDue).         *)
(***************************************************************************)
EXTENDS Kyc, FiniteSetTheorems, TLAPS

(* What a case, a session and a request know of each other. *)
WordsKnown ==
  /\ \A x \in Case : \A w \in Words(x) : w.case = x /\ w.at >= 1
  /\ \A x \in Case : Sold(x) => session[x].at >= 1
  /\ \A w \in answered : w \in Words(w.case)

CasesKnown ==
  \A x \in Case : Opened(x) =>
    /\ Sold(x)
    /\ case[x].document \in {NoDocument, session[x].document}
    /\ Waiting(x) => case[x].status = "pending"
    /\ case[x].retired => case[x].status = "abandoned"

OpeningKnown(p) ==
  At(p, "opening") => Sold(worker[p].case) /\ ~Opened(worker[p].case) /\ Owner(worker[p].case) = worker[p].account
ApplyingKnown(p) ==
  At(p, "applying") =>
    /\ Opened(worker[p].case) /\ worker[p].word \in Words(worker[p].case)
    /\ worker[p].status = worker[p].word.status \/ worker[p].word.status = "approved"
RequestsKnown == \A p \in Worker : OpeningKnown(p) /\ ApplyingKnown(p)

(* One start per account at a time, and none beside a case that waits. *)
Starts(p) == worker[p].step \in {"dialling", "opening"}

StartsAlone ==
  /\ \A p, q \in Worker : p # q /\ Starts(p) /\ Starts(q) => worker[p].account # worker[q].account
  /\ \A p \in Worker : Starts(p) => \A x \in CasesOf(worker[p].account) : ~Waiting(x)
  /\ \A x, y \in Case : Opened(x) /\ Opened(y) /\ Owner(x) = Owner(y) /\ Waiting(x) /\ Waiting(y) => x = y

(* Two accounts, one document. *)
Shares(x, y) ==
  /\ Opened(x) /\ Opened(y) /\ Owner(x) # Owner(y)
  /\ case[x].document = case[y].document /\ case[x].document # NoDocument

OneApproval ==
  \A x, y \in Case : Shares(x, y) => ~(case[x].status = "approved" /\ case[y].status = "approved")

BoughtIsDecided ==
  \A a \in Account : \A d \in bought[a] :
    /\ level[a] >= 1
    /\ d # NoDocument /\ a \notin stale =>
         \E x \in CasesOf(a) : case[x].document = d /\ case[x].status \in Decided

NotBoughtElsewhere ==
  \A y \in Case : \A a \in Account :
    Opened(y) /\ case[y].status = "approved" /\ case[y].document # NoDocument /\ a # Owner(y) /\ a \notin stale =>
      case[y].document \notin bought[a]

(* A word against the person that was answered, or is being applied, is the
   case's, or older than the case's. *)
Seen(w) == w \in answered \/ \E p \in Worker : At(p, "applying") /\ worker[p].word = w

SeenIsRecorded ==
  \A x \in Case : \A w \in Words(x) : w.status \in AgainstThePerson /\ Seen(w) /\ SaidOnce(x) =>
    /\ Opened(x)
    /\ case[x].retired \/ case[x].at > w.at \/ case[x].status = w.status

(* A verdict against the person is the last word of its session that was recorded. *)
RecordedIsSaid ==
  \A x \in Case : Opened(x) /\ case[x].status \in AgainstThePerson =>
    \E w \in Words(x) : w.status = case[x].status /\ w.at = case[x].at

(* The verdict that cost the account its last approval. *)
Unanswered(a) ==
  \E x \in CasesOf(a) : case[x].status \in AgainstThePerson /\ \E w \in Words(x) \ answered : w.status = case[x].status

LastLossIsOpen ==
  \A a \in Account :
    (\A x \in CasesOf(a) : SaidOnce(x)) /\ Unjustified(a) /\ a \notin stale => PutBeforeOwners(a) \/ Unanswered(a)

IInv ==
  /\ TypeOK /\ WordsKnown /\ CasesKnown /\ RequestsKnown /\ StartsAlone
  /\ OneApproval /\ BoughtIsDecided /\ NotBoughtElsewhere /\ OneDocumentOneAccount
  /\ SeenIsRecorded /\ RecordedIsSaid /\ LastLossIsOpen

(***************************************************************************)
(* What is typed how                                                       *)
(***************************************************************************)

LEMMA RowsTyped ==
  ASSUME TypeOK, NEW x \in Case
  PROVE  /\ Sold(x) => session[x] \in VendorSession /\ Owner(x) \in Account /\ Words(x) \in SUBSET Delivery
         /\ ~Sold(x) => Words(x) = {}
         /\ Opened(x) => case[x] \in OpenedCase
BY DEF TypeOK, Sold, Opened, Owner, Words, VendorSession

LEMMA RequestTyped ==
  ASSUME TypeOK, NEW p \in Worker
  PROVE  /\ worker[p] \in Request
         /\ Starts(p) => worker[p].account \in Account
         /\ worker[p].step = "opening" => worker[p].case \in Case
         /\ worker[p].step = "applying" =>
              worker[p] \in [step : {"applying"}, case : Case, status : Running \union Decided, word : Delivery]
<1>1. worker[p] \in Request
  BY DEF TypeOK
<1> QED BY <1>1 DEF Request, Starts, Idle

LEMMA VerdictAgainst ==
  ASSUME NEW w, w.status \in AgainstThePerson
  PROVE  Verdict(w) = w.status /\ w.status \in Decided /\ w.status \notin Running /\ w.status # "approved"
BY DEF AgainstThePerson, Verdict, Decided, Running, Abandonable

(***************************************************************************)
(* Requests that leave the rows alone                                      *)
(***************************************************************************)

(* Request p becomes next, and the rows stay: what keeps the invariant. *)
RequestMoves(p, next) ==
  /\ worker' = [worker EXCEPT ![p] = next]
  /\ UNCHANGED <<level, session, said, case, bought, stale>>
  /\ faults' \in Nat
  /\ answered \subseteq answered' /\ answered' \subseteq Delivery /\ \A w \in answered' : w \in Words(w.case)
  /\ mail \subseteq mail' /\ mail' \subseteq Case \X Kind
  /\ next.step \in {"dialling", "opening"} =>
       /\ \A q \in Worker \ {p} : Starts(q) => worker[q].account # next.account
       /\ \A x \in CasesOf(next.account) : ~Waiting(x)
  /\ next.step = "opening" =>
       Sold(next.case) /\ ~Opened(next.case) /\ Owner(next.case) = next.account
  /\ next.step = "applying" =>
       /\ Opened(next.case) /\ next.word \in Words(next.case)
       /\ next.status = next.word.status \/ next.word.status = "approved"
  /\ \A x \in Case : \A w \in Words(x) :
       w \in answered' \/ (next.step = "applying" /\ next.word = w) =>
         Seen(w) \/ (w.status \in AgainstThePerson => Opened(x) /\ (case[x].retired \/ case[x].at > w.at \/ case[x].status = w.status))
  /\ \A a \in Account : Unjustified(a) =>
       \A x \in CasesOf(a) : \A w \in Words(x) :
         w \in answered' \ answered /\ case[x].status \in AgainstThePerson /\ w.status = case[x].status => PutBeforeOwners(a)'

LEMMA RequestStep ==
  ASSUME IInv, NEW p \in Worker, NEW next \in Request, RequestMoves(p, next)
  PROVE  IInv'
<1> USE DEF IInv, RequestMoves
<1>1. TypeOK'
  BY DEF TypeOK
<1>2. \A q \in Worker : worker'[q] = IF q = p THEN next ELSE worker[q]
  BY DEF TypeOK
<1>w. WordsKnown'
  <2>1. \A w \in answered' : w.case \in Case
    BY DEF Delivery
  <2> QED BY <2>1 DEF WordsKnown, Words, Sold
<1>3. CasesKnown' /\ OneApproval' /\ RecordedIsSaid'
  BY DEF CasesKnown, OneApproval, RecordedIsSaid, Opened, Sold, Words, Shares, Owner, Waiting
<1>4. BoughtIsDecided' /\ NotBoughtElsewhere' /\ OneDocumentOneAccount'
  BY DEF BoughtIsDecided, NotBoughtElsewhere, OneDocumentOneAccount, CasesOf, Opened, Owner
<1>5. RequestsKnown'
  BY <1>2 DEF RequestsKnown, OpeningKnown, ApplyingKnown, At, Opened, Sold, Owner, Words
<1>6. StartsAlone'
  BY <1>2 DEF StartsAlone, Starts, CasesOf, Waiting, Opened, Owner
<1>7. SeenIsRecorded'
  <2>1. \A x \in Case : \A w \in Words(x) : Seen(w)' =>
          Seen(w) \/ (w.status \in AgainstThePerson => Opened(x) /\ (case[x].retired \/ case[x].at > w.at \/ case[x].status = w.status))
    BY <1>2 DEF Seen, At
  <2> QED BY <2>1 DEF SeenIsRecorded, SaidOnce, Words, Sold, Opened
<1>8. LastLossIsOpen'
  <2> SUFFICES ASSUME NEW a \in Account, \A x \in CasesOf(a) : SaidOnce(x), Unjustified(a), a \notin stale
               PROVE  PutBeforeOwners(a)' \/ Unanswered(a)'
    BY DEF LastLossIsOpen, CasesOf, SaidOnce, Words, Unjustified, Opened, Owner, Sold
  <2>1. CASE PutBeforeOwners(a)
    BY <2>1 DEF PutBeforeOwners, CasesOf, Opened, Owner
  <2>2. CASE Unanswered(a)
    <3>1. PICK x \in CasesOf(a) : case[x].status \in AgainstThePerson /\ \E w \in Words(x) \ answered : w.status = case[x].status
      BY <2>2 DEF Unanswered
    <3>2. PICK w \in Words(x) \ answered : w.status = case[x].status
      BY <3>1
    <3>3. CASE w \in answered'
      BY <3>1, <3>2, <3>3
    <3>4. CASE w \notin answered'
      BY <3>1, <3>2, <3>4 DEF Unanswered, CasesOf, Words, Opened, Owner, Sold
    <3> QED BY <3>3, <3>4
  <2> QED BY <2>1, <2>2 DEF LastLossIsOpen
<1> QED BY <1>1, <1>w, <1>3, <1>4, <1>5, <1>6, <1>7, <1>8

LEMMA EndingSteps ==
  ASSUME IInv, NEW p \in Worker, SessionRefused(p) \/ Fails(p)
  PROVE  IInv'
<1> USE DEF IInv
<1>1. Idle \in Request /\ Idle.step = "idle"
  BY DEF Request, Idle
<1>2. /\ worker' = [worker EXCEPT ![p] = Idle]
      /\ UNCHANGED <<level, vendor, case, mail, bought, stale>>
      /\ faults' \in Nat
  BY DEF SessionRefused, Fails, Ends, Goes, TypeOK
<1>3. UNCHANGED <<level, session, said, case, bought, stale, answered, mail>>
  BY <1>2 DEF vendor
<1>4. answered' \subseteq Delivery /\ mail' \subseteq Case \X Kind
  BY <1>3 DEF TypeOK
<1>5. \A w \in answered' : Seen(w) /\ w \in Words(w.case)
  BY <1>3 DEF Seen, WordsKnown
<1>6. RequestMoves(p, Idle)
  BY <1>1, <1>2, <1>3, <1>4, <1>5 DEF RequestMoves
<1> QED BY <1>1, <1>6, RequestStep

LEMMA StartStep ==
  ASSUME IInv, NEW p \in Worker, NEW a \in Account, Start(p, a)
  PROVE  IInv'
<1> USE DEF IInv
<1> DEFINE next == [step |-> "dialling", account |-> a]
<1>1. next \in Request /\ next.step = "dialling" /\ next.account = a
  BY DEF Request
<1>2. worker' = [worker EXCEPT ![p] = next]
  BY DEF Start, PassesGate, Goes
<1>3. UNCHANGED <<level, session, said, answered, case, faults, mail, bought, stale>>
  BY DEF Start, PassesGate, vendor
<1>4. answered' \subseteq Delivery /\ mail' \subseteq Case \X Kind /\ faults' \in Nat
  BY <1>3 DEF TypeOK
<1>5. \A q \in Worker : Starts(q) => worker[q].account # a
  BY DEF Start, Starting, Starts
<1>6. \A x \in CasesOf(a) : ~Waiting(x)
  BY DEF Start, PassesGate, StartGate, Live, Stale, CasesKnown, Waiting, CasesOf, Running, Abandonable
<1>7. \A w \in answered' : Seen(w) /\ w \in Words(w.case)
  BY <1>3 DEF Seen, WordsKnown
<1> HIDE DEF next
<1>8. RequestMoves(p, next)
  BY <1>1, <1>2, <1>3, <1>4, <1>5, <1>6, <1>7 DEF RequestMoves
<1> QED BY <1>1, <1>8, RequestStep

LEMMA AnsweredStep ==
  ASSUME IInv, NEW p \in Worker, NEW x \in Case, NEW w \in Words(x), w.status = Unheard \/ (Opened(x) /\ Superseded(w)),
         UNCHANGED <<level, session, said, case, worker, faults, mail, bought, stale>>, answered' = answered \union {w}
  PROVE  IInv'
<1> USE DEF IInv
<1>1. worker[p] \in Request /\ worker' = [worker EXCEPT ![p] = worker[p]]
  BY DEF TypeOK
<1>2. w.case = x /\ w \in Delivery
  BY RowsTyped DEF WordsKnown
<1>3. \A y \in Case : \A v \in Words(y) : v = w => y = x
  BY <1>2 DEF WordsKnown
<1>4. Unheard \notin AgainstThePerson
  BY DEF Unheard, AgainstThePerson
<1>5. w.status \in AgainstThePerson => Opened(x) /\ (case[x].retired \/ (case[x].status # w.status /\ w.at < case[x].at))
  BY <1>2, <1>4, VerdictAgainst DEF Superseded
<1>6. w.status \in AgainstThePerson => case[x].status # w.status
  BY <1>5 DEF CasesKnown, AgainstThePerson
<1>7. Opened(x) => case[x].at \in Nat /\ w.at \in Nat
  BY <1>2, RowsTyped DEF OpenedCase, Delivery
<1>8. \A y \in Case : \A v \in Words(y) : v \in answered' \/ (worker[p].step = "applying" /\ worker[p].word = v) =>
        Seen(v) \/ (v.status \in AgainstThePerson => Opened(y) /\ (case[y].retired \/ case[y].at > v.at \/ case[y].status = v.status))
  BY <1>3, <1>5, <1>7 DEF Seen, At
<1>9. \A a \in Account : \A y \in CasesOf(a) : \A v \in Words(y) :
        v \in answered' \ answered /\ case[y].status \in AgainstThePerson => v.status # case[y].status
  BY <1>3, <1>6 DEF CasesOf
<1>10. answered' \subseteq Delivery /\ mail' \subseteq Case \X Kind /\ faults' \in Nat
  BY <1>2 DEF TypeOK
<1> DEFINE next == worker[p]
<1>11. /\ Starts(p) => /\ \A q \in Worker \ {p} : Starts(q) => worker[q].account # worker[p].account
                       /\ \A y \in CasesOf(worker[p].account) : ~Waiting(y)
       /\ At(p, "opening") => Sold(worker[p].case) /\ ~Opened(worker[p].case) /\ Owner(worker[p].case) = worker[p].account
       /\ At(p, "applying") =>
            /\ Opened(worker[p].case) /\ worker[p].word \in Words(worker[p].case)
            /\ worker[p].status = worker[p].word.status \/ worker[p].word.status = "approved"
  BY DEF StartsAlone, RequestsKnown, OpeningKnown, ApplyingKnown
<1>12. /\ next \in Request /\ worker' = [worker EXCEPT ![p] = next]
       /\ next.step \in {"dialling", "opening"} =>
            /\ \A q \in Worker \ {p} : Starts(q) => worker[q].account # next.account
            /\ \A y \in CasesOf(next.account) : ~Waiting(y)
       /\ next.step = "opening" =>
            Sold(next.case) /\ ~Opened(next.case) /\ Owner(next.case) = next.account
       /\ next.step = "applying" =>
            /\ Opened(next.case) /\ next.word \in Words(next.case)
            /\ next.status = next.word.status \/ next.word.status = "approved"
       /\ \A y \in Case : \A v \in Words(y) : v \in answered' \/ (next.step = "applying" /\ next.word = v) =>
            Seen(v) \/ (v.status \in AgainstThePerson => Opened(y) /\ (case[y].retired \/ case[y].at > v.at \/ case[y].status = v.status))
  BY <1>1, <1>8, <1>11 DEF Starts, At
<1>13. \A v \in answered' : v \in Words(v.case)
  BY <1>2 DEF WordsKnown
<1>14. answered \subseteq answered' /\ mail \subseteq mail' /\ UNCHANGED <<level, session, said, case, bought, stale>>
  OBVIOUS
<1>15. \A a \in Account : Unjustified(a) =>
         \A y \in CasesOf(a) : \A v \in Words(y) :
           v \in answered' \ answered /\ case[y].status \in AgainstThePerson /\ v.status = case[y].status => PutBeforeOwners(a)'
  BY <1>9
<1> HIDE DEF next
<1>16. RequestMoves(p, next)
  BY <1>10, <1>12, <1>13, <1>14, <1>15 DEF RequestMoves
<1> QED BY <1>12, <1>16, RequestStep

LEMMA RecordRedeliveredStep ==
  ASSUME IInv, NEW p \in Worker, NEW x \in Case, NEW w \in Words(x), RecordRedelivered(p, w)
  PROVE  IInv'
<1> USE DEF IInv
<1>1. w.case = x /\ w \in Delivery /\ Opened(x) /\ case[x] \in OpenedCase
  BY RowsTyped DEF WordsKnown, RecordRedelivered
<1> DEFINE next == [step |-> "applying", case |-> x, status |-> case[x].status, word |-> w]
<1>2. next \in Request /\ next.step = "applying" /\ next.case = x /\ next.word = w /\ next.status = case[x].status
  BY <1>1 DEF Request, OpenedCase
<1>3. worker' = [worker EXCEPT ![p] = next]
  BY <1>1 DEF RecordRedelivered, Applies, Goes
<1>4. UNCHANGED <<level, session, said, answered, case, faults, mail, bought, stale>>
  BY DEF RecordRedelivered, vendor
<1>5. answered' \subseteq Delivery /\ mail' \subseteq Case \X Kind /\ faults' \in Nat
  BY <1>4 DEF TypeOK
<1>6. case[x].status \in {w.status, Verdict(w)}
  BY <1>1 DEF RecordRedelivered
<1>7. case[x].status = w.status \/ w.status = "approved"
  BY <1>6 DEF Verdict
<1>8. \A y \in Case : \A v \in Words(y) : v = w => y = x
  BY <1>1 DEF WordsKnown
<1>9. w.status \in AgainstThePerson => case[x].status = w.status
  BY <1>7 DEF AgainstThePerson
<1>10. \A v \in answered' : Seen(v) /\ v \in Words(v.case)
  BY <1>4 DEF Seen, WordsKnown
<1> HIDE DEF next
<1>11. \A y \in Case : \A v \in Words(y) : v \in answered' \/ (next.step = "applying" /\ next.word = v) =>
        Seen(v) \/ (v.status \in AgainstThePerson => Opened(y) /\ (case[y].retired \/ case[y].at > v.at \/ case[y].status = v.status))
  BY <1>1, <1>2, <1>8, <1>9, <1>10
<1>12. RequestMoves(p, next)
  BY <1>1, <1>2, <1>3, <1>4, <1>5, <1>7, <1>10, <1>11 DEF RequestMoves
<1> QED BY <1>2, <1>12, RequestStep

LEMMA ApplyOtherStep ==
  ASSUME IInv, NEW p \in Worker, ApplyOther(p)
  PROVE  IInv'
<1> USE DEF IInv
<1> DEFINE x == worker[p].case
           w == worker[p].word
           status == worker[p].status
           kinds == TerminalNotice(status) \union (IF Contradicts(x, status) THEN {"kyc_verdict_alert"} ELSE {})
<1>1. /\ x \in Case /\ w \in Delivery /\ Opened(x) /\ w \in Words(x)
      /\ status = w.status \/ w.status = "approved"
  BY RequestTyped DEF ApplyOther, At, RequestsKnown, OpeningKnown, ApplyingKnown
<1>2. /\ worker' = [worker EXCEPT ![p] = Idle]
      /\ answered' = answered \union {w}
      /\ Notify(x, kinds)
      /\ UNCHANGED <<level, session, said, case, bought, stale>>
  BY DEF ApplyOther, Ends, Goes, Answer
<1>3. kinds \in SUBSET Kind
  <2>1. TerminalNotice(status) \in {{"kyc_in_review"}, {"kyc_declined"}, {"kyc_expired"}, {"kyc_held"}, {}}
    BY DEF TerminalNotice
  <2> QED BY <2>1 DEF Kind
<1>4. Contradicts(x, status) => "kyc_verdict_alert" \in kinds
  OBVIOUS
<1>5. Seen(w)
  BY DEF Seen, ApplyOther
<1> HIDE DEF kinds
<1>6. /\ mail \subseteq mail' /\ mail' \subseteq Case \X Kind /\ faults' \in Nat
      /\ Contradicts(x, status) => <<x, "kyc_verdict_alert">> \in mail' \/ <<x, "lost">> \in mail'
  <2>1. CASE mail' = mail \union {<<x, kind>> : kind \in kinds} /\ UNCHANGED faults
    BY <1>1, <1>3, <1>4, <2>1 DEF TypeOK
  <2>2. CASE faults' = faults + 1 /\ mail' = mail \union {<<x, "lost">>}
    <3>1. <<x, "lost">> \in Case \X Kind
      BY <1>1 DEF Kind
    <3> QED BY <2>2, <3>1 DEF TypeOK
  <2> QED BY <1>2, <2>1, <2>2 DEF Notify
<1>7. Idle \in Request /\ Idle.step = "idle"
  BY DEF Request, Idle
<1>8. \A y \in Case : \A v \in Words(y) : v = w => y = x
  BY <1>1 DEF WordsKnown
<1>9. answered \subseteq answered' /\ answered' \subseteq Delivery
  BY <1>1, <1>2 DEF TypeOK
<1>10. \A v \in answered' : Seen(v) /\ v \in Words(v.case)
  BY <1>1, <1>2, <1>5, <1>8 DEF Seen, WordsKnown
<1>11. ASSUME NEW a \in Account, Unjustified(a), x \in CasesOf(a), case[x].status \in AgainstThePerson, w.status = case[x].status
       PROVE  PutBeforeOwners(a)'
  <2>1. status \in AgainstThePerson /\ Owner(x) = a
    BY <1>1, <1>11 DEF AgainstThePerson, CasesOf
  <2>2. \A y \in CasesOf(a) : case[y].status # "approved"
    BY <1>11 DEF Unjustified, CasesKnown, CasesOf, Decided, AgainstThePerson
  <2>3. ApprovedCover(x) = 0
    BY <2>1, <2>2 DEF ApprovedCover
  <2>4. level[a] \in Nat /\ level[a] >= 1
    BY <1>11 DEF Unjustified, TypeOK
  <2>5. Contradicts(x, status)
    BY <2>1, <2>3, <2>4 DEF Contradicts
  <2>6. x \in CasesOf(a)'
    BY <1>2, <1>11 DEF CasesOf, Opened, Owner
  <2> QED BY <1>6, <2>5, <2>6 DEF PutBeforeOwners
<1> HIDE DEF x, w, status
<1>12. \A a \in Account : Unjustified(a) =>
           \A y \in CasesOf(a) : \A v \in Words(y) :
             v \in answered' \ answered /\ case[y].status \in AgainstThePerson /\ v.status = case[y].status => PutBeforeOwners(a)'
  <2> SUFFICES ASSUME NEW a \in Account, Unjustified(a), NEW y \in CasesOf(a), NEW v \in Words(y),
                      v \in answered' \ answered, case[y].status \in AgainstThePerson, v.status = case[y].status
               PROVE  PutBeforeOwners(a)'
    OBVIOUS
  <2>1. v = w /\ y = x
    BY <1>2, <1>8 DEF CasesOf
  <2> QED BY <1>11, <2>1
<1>13. RequestMoves(p, Idle)
  BY <1>2, <1>6, <1>7, <1>9, <1>10, <1>12 DEF RequestMoves
<1> QED BY <1>7, <1>13, RequestStep

(***************************************************************************)
(* The vendor, and time                                                    *)
(***************************************************************************)

LEMMA StartSessionStep ==
  ASSUME IInv, NEW p \in Worker, NEW x \in Case, NEW d \in Document, StartSession(p, x, d)
  PROVE  IInv'
<1> USE DEF IInv
<1> DEFINE a == worker[p].account
           row == [status |-> "sold", owner |-> a, document |-> d, at |-> 1, words |-> {}]
           next == [step |-> "opening", account |-> a, case |-> x]
<1>1. /\ a \in Account /\ At(p, "dialling") /\ ~Sold(x)
      /\ session' = [session EXCEPT ![x] = row]
      /\ worker' = [worker EXCEPT ![p] = next]
      /\ UNCHANGED <<level, answered, said, case, faults, mail, bought, stale>>
  BY RequestTyped DEF StartSession, At, Starts, Goes
<1>2. /\ row \in VendorSession /\ row # Unopened /\ row.owner = a /\ row.words = {} /\ row.document = d /\ row.at = 1
      /\ next \in Request /\ next.step = "opening" /\ next.account = a /\ next.case = x
  BY <1>1 DEF VendorSession, Unopened, Request
<1> HIDE DEF row, next, a
<1>3. TypeOK'
  BY <1>1, <1>2 DEF TypeOK
<1>4. /\ \A y \in Case : session'[y] = IF y = x THEN row ELSE session[y]
      /\ \A q \in Worker : worker'[q] = IF q = p THEN next ELSE worker[q]
      /\ UNCHANGED <<level, answered, said, case, faults, mail, bought, stale>>
  BY <1>1 DEF TypeOK
<1>5. ~Opened(x)
  BY <1>1 DEF CasesKnown
<1>6. \A y \in Case : /\ Words(y)' = Words(y)
                      /\ Opened(y)' = Opened(y)
                      /\ Opened(y) => y # x /\ Owner(y)' = Owner(y) /\ session'[y] = session[y]
                      /\ Sold(y)' <=> Sold(y) \/ y = x
  BY <1>1, <1>2, <1>4, <1>5 DEF Words, Opened, Owner, Sold
<1>7. \A b : CasesOf(b)' = CasesOf(b)
  BY <1>6 DEF CasesOf
<1>8. WordsKnown'
  <2>1. \A w \in answered : w.case \in Case
    BY DEF TypeOK, Delivery
  <2> QED BY <1>2, <1>4, <1>6, <2>1 DEF WordsKnown
<1>9. CasesKnown' /\ OneApproval' /\ RecordedIsSaid'
  BY <1>4, <1>6 DEF CasesKnown, OneApproval, RecordedIsSaid, Shares, Waiting
<1>10. BoughtIsDecided' /\ NotBoughtElsewhere' /\ OneDocumentOneAccount'
  BY <1>4, <1>6, <1>7 DEF BoughtIsDecided, NotBoughtElsewhere, OneDocumentOneAccount
<1>11. RequestsKnown'
  <2>1. \A q \in Worker : (At(q, "opening") \/ At(q, "applying")) => worker[q].case \in Case
    BY RequestTyped DEF At
  <2>2. \A q \in Worker \ {p} : OpeningKnown(q)' /\ ApplyingKnown(q)'
    BY <1>1, <1>4, <1>6, <2>1 DEF RequestsKnown, OpeningKnown, ApplyingKnown, At, Owner
  <2>3. OpeningKnown(p)' /\ ApplyingKnown(p)'
    BY <1>2, <1>4, <1>5, <1>6 DEF OpeningKnown, ApplyingKnown, At, Owner
  <2> QED BY <2>2, <2>3 DEF RequestsKnown
<1>12. StartsAlone'
  <2>1. \A q \in Worker : Starts(q)' => Starts(q) /\ worker'[q].account = worker[q].account
    BY <1>1, <1>2, <1>4 DEF Starts, At, a
  <2> QED BY <1>4, <1>6, <1>7, <2>1 DEF StartsAlone, Waiting
<1>13. SeenIsRecorded'
  <2>1. \A w : Seen(w)' => Seen(w)
    BY <1>2, <1>4 DEF Seen, At
  <2> QED BY <1>4, <1>6, <2>1 DEF SeenIsRecorded, SaidOnce
<1>14. LastLossIsOpen'
  BY <1>4, <1>6, <1>7 DEF LastLossIsOpen, Unjustified, PutBeforeOwners, Unanswered, SaidOnce, CasesOf
<1> QED BY <1>3, <1>8, <1>9, <1>10, <1>11, <1>12, <1>13, <1>14

LEMMA VendorSaysStep ==
  ASSUME IInv, NEW x \in Case, NEW word \in Word, VendorSays(x, word)
  PROVE  IInv'
<1> USE DEF IInv
<1>1. PICK at \in {session[x].at, session[x].at + 1} :
        session' = [session EXCEPT ![x].at = at, ![x].words = @ \union {[case |-> x, status |-> word, at |-> at]}]
  BY DEF VendorSays
<1> DEFINE new == [case |-> x, status |-> word, at |-> at]
<1>2. /\ Sold(x) /\ said' = said + 1
      /\ UNCHANGED <<level, answered, case, worker, faults, mail, bought, stale>>
      /\ session[x] \in VendorSession /\ session[x].at >= 1
  BY RowsTyped DEF VendorSays, WordsKnown
<1>3. at \in Nat /\ at >= 1 /\ new \in Delivery /\ new.case = x /\ new.at = at
  BY <1>1, <1>2 DEF VendorSession, Delivery
<1> HIDE DEF new
<1>4. /\ session'[x] \in VendorSession /\ session'[x] # Unopened
      /\ session'[x].owner = session[x].owner /\ session'[x].document = session[x].document
      /\ session'[x].at = at /\ session'[x].words = session[x].words \union {new}
      /\ \A y \in Case : y # x => session'[y] = session[y]
  BY <1>1, <1>2, <1>3 DEF VendorSession, TypeOK, Unopened, new
<1>5. TypeOK'
  <2>1. session' \in [Case -> {Unopened} \union VendorSession]
    BY <1>1, <1>4 DEF TypeOK
  <2> QED BY <1>2, <2>1 DEF TypeOK
<1>6. \A y \in Case : /\ Words(y)' = Words(y) \union (IF y = x THEN {new} ELSE {})
                      /\ Opened(y)' = Opened(y)
                      /\ Owner(y)' = Owner(y) /\ session'[y].document = session[y].document
                      /\ Sold(y)' = Sold(y)
  BY <1>2, <1>4 DEF Words, Opened, Owner, Sold
<1>7. \A b : CasesOf(b)' = CasesOf(b)
  BY <1>6 DEF CasesOf
<1>8. WordsKnown'
  <2>1. \A w \in answered : w.case \in Case
    BY DEF TypeOK, Delivery
  <2> QED BY <1>2, <1>3, <1>4, <1>6, <2>1 DEF WordsKnown
<1>9. CasesKnown' /\ OneApproval'
  BY <1>2, <1>6 DEF CasesKnown, OneApproval, Shares, Waiting
<1>10. RecordedIsSaid'
  BY <1>2, <1>6 DEF RecordedIsSaid
<1>11. BoughtIsDecided' /\ NotBoughtElsewhere' /\ OneDocumentOneAccount'
  BY <1>2, <1>6, <1>7 DEF BoughtIsDecided, NotBoughtElsewhere, OneDocumentOneAccount
<1>12. RequestsKnown'
  <2>1. \A q \in Worker : At(q, "opening") \/ At(q, "applying") => worker[q].case \in Case
    BY RequestTyped DEF At
  <2> QED BY <1>2, <1>6, <2>1 DEF RequestsKnown, OpeningKnown, ApplyingKnown, At
<1>13. StartsAlone'
  BY <1>2, <1>6, <1>7 DEF StartsAlone, Waiting, Starts
<1>14. \A y \in Case : SaidOnce(y)' => SaidOnce(y)
  BY <1>6 DEF SaidOnce
<1>15. SeenIsRecorded'
  <2>1. \A w : Seen(w)' <=> Seen(w)
    BY <1>2 DEF Seen, At
  <2>2. Seen(new) => new \in Words(x)
    <3>1. ASSUME new \in answered PROVE new \in Words(x)
      BY <1>3, <3>1 DEF WordsKnown
    <3>2. ASSUME NEW q \in Worker, At(q, "applying"), worker[q].word = new PROVE new \in Words(x)
      BY <1>3, <3>2, RequestTyped DEF WordsKnown, RequestsKnown, OpeningKnown, ApplyingKnown, At
    <3> QED BY <3>1, <3>2 DEF Seen
  <2> QED BY <1>2, <1>6, <1>14, <2>1, <2>2 DEF SeenIsRecorded
<1>16. LastLossIsOpen'
  <2>1. \A b \in Account : (\A y \in CasesOf(b)' : SaidOnce(y)') => \A y \in CasesOf(b) : SaidOnce(y)
    BY <1>7, <1>14 DEF CasesOf
  <2>2. \A b \in Account : Unjustified(b)' => Unjustified(b)
    BY <1>2, <1>7 DEF Unjustified
  <2>3. \A b \in Account : PutBeforeOwners(b) => PutBeforeOwners(b)'
    BY <1>2, <1>7 DEF PutBeforeOwners
  <2>4. \A b \in Account : Unanswered(b) => Unanswered(b)'
    BY <1>2, <1>6, <1>7 DEF Unanswered, CasesOf
  <2> QED BY <1>2, <2>1, <2>2, <2>3, <2>4 DEF LastLossIsOpen
<1> QED BY <1>5, <1>8, <1>9, <1>10, <1>11, <1>12, <1>13, <1>15, <1>16

LEMMA CaseAgesStep ==
  ASSUME IInv, NEW x \in Case, CaseAges(x)
  PROVE  IInv'
<1> USE DEF IInv
<1>1. /\ Opened(x) /\ case[x] \in OpenedCase
      /\ case' = [case EXCEPT ![x].aged = TRUE]
      /\ UNCHANGED <<level, session, said, answered, worker, faults, mail, bought, stale>>
  BY RowsTyped DEF CaseAges, vendor
<1>2. case'[x] \in OpenedCase /\ case'[x] # Unopened /\ case'[x].aged = TRUE
  BY <1>1 DEF OpenedCase, TypeOK, Unopened
<1>3. TypeOK'
  BY <1>1, <1>2 DEF TypeOK
<1>4. \A y \in Case : /\ Opened(y)' = Opened(y)
                      /\ Opened(y) =>
                           /\ case'[y].status = case[y].status /\ case'[y].at = case[y].at
                           /\ case'[y].document = case[y].document /\ case'[y].retired = case[y].retired
                           /\ Waiting(y)' => Waiting(y)
  BY <1>1, <1>2 DEF Opened, OpenedCase, TypeOK, Waiting
<1>5. \A y \in Case : Words(y)' = Words(y) /\ Owner(y)' = Owner(y) /\ Sold(y)' = Sold(y) /\ SaidOnce(y)' = SaidOnce(y)
  BY <1>1 DEF Words, Owner, Sold, SaidOnce
<1>6. \A b : CasesOf(b)' = CasesOf(b)
  BY <1>4, <1>5 DEF CasesOf
<1>7. WordsKnown'
  BY <1>1 DEF WordsKnown, Words, Sold
<1>8. CasesKnown' /\ OneApproval' /\ RecordedIsSaid'
  BY <1>1, <1>4, <1>5 DEF CasesKnown, OneApproval, RecordedIsSaid, Shares
<1>9. BoughtIsDecided' /\ NotBoughtElsewhere' /\ OneDocumentOneAccount'
  BY <1>1, <1>4, <1>5, <1>6 DEF BoughtIsDecided, NotBoughtElsewhere, OneDocumentOneAccount, CasesOf
<1>10. RequestsKnown'
  <2>1. \A q \in Worker : At(q, "opening") \/ At(q, "applying") => worker[q].case \in Case
    BY RequestTyped DEF At
  <2> QED BY <1>1, <1>4, <1>5, <2>1 DEF RequestsKnown, OpeningKnown, ApplyingKnown, At
<1>11. StartsAlone'
  BY <1>1, <1>4, <1>5, <1>6 DEF StartsAlone, Starts, CasesOf
<1>12. SeenIsRecorded'
  <2>1. \A w : Seen(w)' <=> Seen(w)
    BY <1>1 DEF Seen, At
  <2> QED BY <1>4, <1>5, <2>1 DEF SeenIsRecorded
<1>13. LastLossIsOpen'
  BY <1>1, <1>4, <1>5, <1>6 DEF LastLossIsOpen, Unjustified, PutBeforeOwners, Unanswered, CasesOf
<1> QED BY <1>3, <1>7, <1>8, <1>9, <1>10, <1>11, <1>12, <1>13

(***************************************************************************)
(* Cases and verdicts                                                      *)
(***************************************************************************)

LEMMA OpenCaseStep ==
  ASSUME IInv, NEW p \in Worker, OpenCase(p)
  PROVE  IInv'
<1> USE DEF IInv
<1> DEFINE new == worker[p].case
           a == worker[p].account
           row == [status |-> "pending", at |-> 0, document |-> NoDocument, aged |-> FALSE, retired |-> FALSE]
           retired == {x \in CasesOf(a) : Stale(x)}
           closed(x) == [case[x] EXCEPT !.status = "abandoned", !.retired = TRUE]
<1>1. /\ At(p, "opening") /\ new \in Case /\ a \in Account
      /\ Sold(new) /\ ~Opened(new) /\ Owner(new) = a
      /\ worker' = [worker EXCEPT ![p] = Idle]
      /\ UNCHANGED <<level, session, said, answered, faults, mail, bought, stale>>
  BY RequestTyped DEF OpenCase, At, Starts, Ends, Goes, vendor, RequestsKnown, OpeningKnown
<1>2. case' = [x \in Case |-> CASE x \in retired -> closed(x) [] x = new -> row [] OTHER -> case[x]]
  BY DEF OpenCase
<1>3. \A x \in retired : /\ x \in Case /\ Opened(x) /\ x # new /\ case[x] \in OpenedCase
                         /\ case[x].status \in Abandonable /\ case[x].aged /\ Owner(x) = a
                         /\ closed(x) \in OpenedCase /\ closed(x).status = "abandoned" /\ closed(x).retired
                         /\ closed(x).aged /\ closed(x).at = case[x].at /\ closed(x).document = case[x].document
  BY <1>1, RowsTyped DEF CasesOf, Stale, OpenedCase, Decided
<1>4. row \in OpenedCase /\ row.status = "pending" /\ row.at = 0 /\ row.document = NoDocument /\ ~row.aged /\ ~row.retired
  BY DEF OpenedCase, Running, Abandonable
<1>5. Unopened \notin OpenedCase
  BY DEF Unopened, OpenedCase
<1> HIDE DEF row, closed, retired, new, a
<1>6. \A x \in Case : /\ x \in retired => case'[x] = closed(x)
                      /\ x = new => case'[x] = row
                      /\ x \notin retired /\ x # new => case'[x] = case[x]
  BY <1>2, <1>3
<1>7. TypeOK'
  <2>1. \A x \in Case : case'[x] \in {Unopened} \union OpenedCase
    BY <1>3, <1>4, <1>6 DEF TypeOK
  <2>2. case' \in [Case -> {Unopened} \union OpenedCase]
    BY <1>2, <2>1
  <2> QED BY <1>1, <2>2 DEF TypeOK, Request
<1>8. \A x \in Case : /\ Words(x)' = Words(x) /\ Owner(x)' = Owner(x) /\ Sold(x)' = Sold(x)
                      /\ Opened(x)' <=> Opened(x) \/ x = new
  BY <1>1, <1>3, <1>4, <1>5, <1>6 DEF Words, Owner, Sold, Opened
<1>9. \A x \in Case : /\ Waiting(x)' /\ x # new => Waiting(x)
                      /\ case'[x].status = "approved" => case[x] = case'[x]
                      /\ case'[x].status \in AgainstThePerson => case[x] = case'[x]
                      /\ case[x].status \in Decided /\ Opened(x) => case[x] = case'[x]
                      /\ case[x] # case'[x] => x = new \/ (case'[x].status = "abandoned" /\ case'[x].retired /\ case'[x].aged)
  BY <1>1, <1>3, <1>4, <1>6 DEF Waiting, AgainstThePerson, Decided, Abandonable
<1>10. \A q \in Worker : worker'[q] = IF q = p THEN Idle ELSE worker[q]
  BY <1>1 DEF TypeOK
<1>11. WordsKnown'
  BY <1>1 DEF WordsKnown, Words, Sold
<1>12. CasesKnown'
  <2> SUFFICES ASSUME NEW x \in Case, Opened(x)'
               PROVE  /\ Sold(x)
                      /\ case'[x].document \in {NoDocument, session[x].document}
                      /\ Waiting(x)' => case'[x].status = "pending"
                      /\ case'[x].retired => case'[x].status = "abandoned"
    BY <1>1, <1>8 DEF CasesKnown
  <2>1. CASE x = new
    BY <1>1, <1>4, <1>6, <2>1
  <2>2. CASE x \in retired
    BY <1>3, <1>6, <2>2 DEF CasesKnown, Waiting
  <2>3. CASE x # new /\ x \notin retired
    BY <1>6, <1>8, <2>3 DEF CasesKnown, Waiting
  <2> QED BY <2>1, <2>2, <2>3
<1>13. RequestsKnown'
  <2>1. \A q \in Worker \ {p} : (At(q, "opening") \/ At(q, "applying")) => worker[q].case \in Case
    BY RequestTyped DEF At
  <2>2. \A q \in Worker \ {p} : At(q, "opening") => worker[q].case # new
    BY <1>1 DEF StartsAlone, RequestsKnown, OpeningKnown, At, Starts, a
  <2>3. \A q \in Worker \ {p} : OpeningKnown(q)' /\ ApplyingKnown(q)'
    BY <1>8, <1>10, <2>1, <2>2 DEF RequestsKnown, OpeningKnown, ApplyingKnown, At
  <2>4. OpeningKnown(p)' /\ ApplyingKnown(p)'
    BY <1>10 DEF OpeningKnown, ApplyingKnown, At, Idle
  <2> QED BY <2>3, <2>4 DEF RequestsKnown
<1>14. StartsAlone'
  <2>1. \A q \in Worker : Starts(q)' => q # p /\ Starts(q) /\ worker'[q] = worker[q]
    BY <1>10 DEF Starts, Idle
  <2>2. \A q \in Worker \ {p} : Starts(q) => worker[q].account # a
    BY <1>1 DEF StartsAlone, Starts, At, a
  <2>3. \A x \in Case : Waiting(x)' /\ Opened(x)' /\ Owner(x)' # a => Waiting(x) /\ Opened(x)
    BY <1>1, <1>8, <1>9
  <2>4. \A x \in Case : Waiting(x)' /\ Opened(x)' /\ Owner(x)' = a => x = new
    <3>1. \A x \in CasesOf(a) : ~Waiting(x)
      BY <1>1 DEF StartsAlone, Starts, At, a
    <3> QED BY <1>8, <1>9, <3>1 DEF CasesOf
  <2>5. (\A q \in Worker : Starts(q) => \A x \in CasesOf(worker[q].account) : ~Waiting(x))'
    <3> SUFFICES ASSUME NEW q \in Worker, Starts(q)', NEW x \in Case, Opened(x)', Owner(x)' = worker'[q].account, Waiting(x)'
                 PROVE FALSE
      BY DEF CasesOf
    <3>1. Waiting(x) /\ Opened(x) /\ Owner(x) = worker[q].account
      BY <1>8, <2>1, <2>2, <2>3
    <3> QED BY <2>1, <3>1 DEF StartsAlone, CasesOf
  <2>6. (\A x, y \in Case : Opened(x) /\ Opened(y) /\ Owner(x) = Owner(y) /\ Waiting(x) /\ Waiting(y) => x = y)'
    BY <1>8, <2>3, <2>4 DEF StartsAlone
  <2>7. (\A q, r \in Worker : q # r /\ Starts(q) /\ Starts(r) => worker[q].account # worker[r].account)'
    BY <2>1 DEF StartsAlone
  <2> QED BY <2>5, <2>6, <2>7 DEF StartsAlone
<1>15. \A x \in Case : case'[x].document = case[x].document \/ x = new
  BY <1>3, <1>6
<1>16. OneApproval'
  BY <1>1, <1>4, <1>6, <1>8, <1>9 DEF OneApproval, Shares
<1>17. BoughtIsDecided'
  BY <1>1, <1>8, <1>9 DEF BoughtIsDecided, CasesOf
<1>18. NotBoughtElsewhere' /\ OneDocumentOneAccount'
  BY <1>1, <1>4, <1>6, <1>8, <1>9 DEF NotBoughtElsewhere, OneDocumentOneAccount
<1>19. \A x \in Case : SaidOnce(x)' = SaidOnce(x)
  BY <1>8 DEF SaidOnce
<1>20. \A w : Seen(w)' => Seen(w)
  BY <1>1, <1>10 DEF Seen, At, Idle
<1>21. SeenIsRecorded'
  <2> SUFFICES ASSUME NEW x \in Case, NEW w \in Words(x), w.status \in AgainstThePerson, Seen(w), SaidOnce(x)
               PROVE  Opened(x)' /\ (case'[x].retired \/ case'[x].at > w.at \/ case'[x].status = w.status)
    BY <1>8, <1>19, <1>20 DEF SeenIsRecorded
  <2>1. Opened(x) /\ (case[x].retired \/ case[x].at > w.at \/ case[x].status = w.status)
    BY DEF SeenIsRecorded
  <2> QED BY <1>1, <1>8, <1>9, <2>1
<1>22. RecordedIsSaid'
  BY <1>1, <1>4, <1>6, <1>8, <1>9 DEF RecordedIsSaid, AgainstThePerson
<1>23. LastLossIsOpen'
  <2> SUFFICES ASSUME NEW b \in Account, \A x \in CasesOf(b)' : SaidOnce(x)', Unjustified(b)', b \notin stale
               PROVE  PutBeforeOwners(b)' \/ Unanswered(b)'
    BY <1>1 DEF LastLossIsOpen
  <2>1. CasesOf(b) \subseteq CasesOf(b)' /\ \A x \in CasesOf(b)' : x \in CasesOf(b) \/ x = new
    BY <1>8 DEF CasesOf
  <2>2. \A x \in CasesOf(b) : SaidOnce(x)
    BY <1>19, <2>1 DEF CasesOf
  <2>3. Unjustified(b)
    <3>1. PICK x \in CasesOf(b)' : case'[x].status \in AgainstThePerson
      BY DEF Unjustified
    <3>2. x \in CasesOf(b) /\ case[x].status \in AgainstThePerson
      BY <1>1, <1>4, <1>6, <1>9, <2>1, <3>1 DEF CasesOf, AgainstThePerson
    <3>3. \A y \in CasesOf(b) : case[y].status \in Decided => case[y].retired \/ case[y].status \in AgainstThePerson
      BY <1>9, <2>1 DEF Unjustified, CasesOf
    <3> QED BY <1>1, <3>2, <3>3 DEF Unjustified
  <2>4. CASE PutBeforeOwners(b)
    BY <1>1, <2>1, <2>4 DEF PutBeforeOwners
  <2>5. CASE Unanswered(b)
    <3>1. \A x \in CasesOf(b) : case[x].status \in AgainstThePerson => case'[x] = case[x]
      BY <1>9 DEF CasesOf, AgainstThePerson, Decided
    <3> QED BY <1>1, <1>8, <2>1, <2>5, <3>1 DEF Unanswered, CasesOf
  <2> QED BY <2>2, <2>3, <2>4, <2>5 DEF LastLossIsOpen
<1> QED BY <1>7, <1>11, <1>12, <1>13, <1>14, <1>16, <1>17, <1>18, <1>21, <1>22, <1>23

LEMMA RecordDecisionStep ==
  ASSUME IInv, NEW p \in Worker, NEW x \in Case, NEW w \in Words(x), w.status # Unheard, RecordDecision(p, w)
  PROVE  IInv'
<1> USE DEF IInv
<1> DEFINE verdict == Verdict(w)
           document == IF IdentityDigest(x) = NoDocument THEN case[x].document ELSE IdentityDigest(x)
           row == [case[x] EXCEPT !.status = verdict, !.at = w.at, !.aged = FALSE, !.document = document]
           next == [step |-> "applying", case |-> x, status |-> verdict, word |-> w]
<1>1. /\ w.case = x /\ w \in Delivery /\ w.at >= 1 /\ w.at \in Nat /\ Sold(x) /\ Opened(x)
      /\ session[x] \in VendorSession /\ case[x] \in OpenedCase
  BY RowsTyped DEF WordsKnown, RecordDecision, CasesKnown, Delivery
<1>2. /\ ~Superseded(w) /\ case[x].status # w.status /\ case[x].status # verdict
      /\ case' = [case EXCEPT ![x] = row]
      /\ worker' = [worker EXCEPT ![p] = next]
      /\ UNCHANGED <<level, session, said, answered, faults, mail, bought, stale>>
  BY <1>1 DEF RecordDecision, Applies, Goes, vendor
<1>3. /\ ~case[x].retired /\ w.at >= case[x].at /\ case[x].at \in Nat
      /\ ~(case[x].status \in Decided /\ w.status \in Running)
  BY <1>1, <1>2 DEF Superseded, OpenedCase
<1>4. /\ verdict = w.status \/ (verdict = "held_duplicate" /\ w.status = "approved")
      /\ verdict \in Running \union Decided
      /\ verdict \in AgainstThePerson => w.status = verdict
      /\ verdict = "approved" => \A y \in Case : ~Twin(x, y)
  BY <1>1, WordsAssumption DEF Verdict, Delivery, Decided, AgainstThePerson
<1>5. document \in {NoDocument, session[x].document} /\ document \in Document \union {NoDocument}
      /\ (case[x].document # NoDocument => document = case[x].document)
      /\ (document # NoDocument => IdentityDigest(x) = document)
  BY <1>1 DEF CasesKnown, IdentityDigest, VendorSession
<1>6. /\ next \in Request /\ next.step = "applying" /\ next.case = x /\ next.word = w /\ next.status = verdict
      /\ row \in OpenedCase /\ row.status = verdict /\ row.at = w.at /\ row.document = document
      /\ row.aged = FALSE /\ row.retired = FALSE
  BY <1>1, <1>3, <1>4, <1>5 DEF Request, OpenedCase
<1>7. Unopened \notin OpenedCase
  BY DEF Unopened, OpenedCase
<1> HIDE DEF verdict, document, row, next
<1>8. TypeOK'
  BY <1>2, <1>6 DEF TypeOK
<1>9. /\ \A y \in Case : case'[y] = IF y = x THEN row ELSE case[y]
      /\ \A q \in Worker : worker'[q] = IF q = p THEN next ELSE worker[q]
  BY <1>2 DEF TypeOK
<1>10. \A y \in Case : /\ Words(y)' = Words(y) /\ Owner(y)' = Owner(y) /\ Sold(y)' = Sold(y)
                       /\ Opened(y)' = Opened(y) /\ SaidOnce(y)' = SaidOnce(y)
  BY <1>1, <1>2, <1>6, <1>7, <1>9 DEF Words, Owner, Sold, Opened, SaidOnce
<1>11. \A b : CasesOf(b)' = CasesOf(b)
  BY <1>10 DEF CasesOf
<1>12. ~Waiting(x)' /\ \A y \in Case : Waiting(y)' => y # x /\ Waiting(y)
  BY <1>1, <1>6, <1>9 DEF Waiting
<1>13. WordsKnown'
  BY <1>2 DEF WordsKnown, Words, Sold
<1>14. CasesKnown'
  BY <1>2, <1>5, <1>6, <1>9, <1>10, <1>12 DEF CasesKnown, Waiting
<1>15. RequestsKnown'
  <2>1. \A q \in Worker : (At(q, "opening") \/ At(q, "applying")) => worker[q].case \in Case
    BY RequestTyped DEF At
  <2>2. \A q \in Worker \ {p} : OpeningKnown(q)' /\ ApplyingKnown(q)'
    BY <1>9, <1>10, <2>1 DEF RequestsKnown, OpeningKnown, ApplyingKnown, At
  <2>3. OpeningKnown(p)' /\ ApplyingKnown(p)'
    BY <1>1, <1>4, <1>6, <1>9, <1>10 DEF OpeningKnown, ApplyingKnown, At
  <2> QED BY <2>2, <2>3 DEF RequestsKnown
<1>16. StartsAlone'
  <2>1. \A q \in Worker : Starts(q)' => Starts(q) /\ worker'[q] = worker[q]
    BY <1>6, <1>9 DEF Starts
  <2> QED BY <1>10, <1>11, <1>12, <2>1 DEF StartsAlone, CasesOf
(* An approval that is recorded met no twin. *)
<1>17. ASSUME verdict = "approved", NEW y \in Case, Opened(y), Owner(y) # Owner(x),
              document # NoDocument, case[y].document = document, case[y].status \in Decided
       PROVE  case[y].status # "approved" /\ ~(level[Owner(y)] >= 1)
  BY <1>4, <1>5, <1>17 DEF Twin
<1>18. OneApproval'
  <2>1. \A y \in Case : case'[x].status = "approved" /\ Shares(x, y)' => case'[y].status # "approved"
    BY <1>6, <1>9, <1>10, <1>17 DEF Shares, Decided
  <2>2. \A y, z \in Case : y # x /\ z # x /\ Shares(y, z)' => Shares(y, z) /\ case'[y] = case[y] /\ case'[z] = case[z]
    BY <1>9, <1>10 DEF Shares
  <2>3. \A y, z \in Case : Shares(y, z)' => Shares(z, y)'
    BY DEF Shares
  <2> QED BY <2>1, <2>2, <2>3 DEF OneApproval
<1>19. case[x].status \in Decided => verdict \in Decided
  BY <1>3, <1>4 DEF Decided, Running, Abandonable
<1>20. BoughtIsDecided'
  BY <1>2, <1>5, <1>6, <1>9, <1>10, <1>11, <1>19 DEF BoughtIsDecided, CasesOf
<1>21. NotBoughtElsewhere'
  <2> SUFFICES ASSUME NEW y \in Case, NEW a \in Account, Opened(y), case'[y].status = "approved", case'[y].document # NoDocument,
                      a # Owner(y), a \notin stale, case'[y].document \in bought[a]
               PROVE  FALSE
    BY <1>2, <1>10 DEF NotBoughtElsewhere
  <2>1. CASE y # x
    BY <1>9, <2>1 DEF NotBoughtElsewhere
  <2>2. CASE y = x
    <3>1. verdict = "approved" /\ document # NoDocument /\ document \in bought[a]
      BY <1>6, <1>9, <2>2
    <3>2. PICK z \in CasesOf(a) : case[z].document = document /\ case[z].status \in Decided
      BY <3>1 DEF BoughtIsDecided
    <3>3. level[a] >= 1
      BY <3>1 DEF BoughtIsDecided
    <3> QED BY <1>17, <2>2, <3>1, <3>2, <3>3 DEF CasesOf
  <2> QED BY <2>1, <2>2
<1>22. OneDocumentOneAccount'
  BY <1>2 DEF OneDocumentOneAccount
<1>23. \A v : Seen(v)' => Seen(v) \/ v = w
  BY <1>2, <1>6, <1>9 DEF Seen, At
<1>24. SeenIsRecorded'
  <2> SUFFICES ASSUME NEW y \in Case, NEW v \in Words(y), v.status \in AgainstThePerson, Seen(v) \/ v = w, SaidOnce(y)
               PROVE  Opened(y) /\ (case'[y].retired \/ case'[y].at > v.at \/ case'[y].status = v.status)
    BY <1>10, <1>23 DEF SeenIsRecorded
  <2>1. CASE y # x
    BY <1>1, <1>9, <2>1 DEF SeenIsRecorded, WordsKnown
  <2>2. CASE y = x /\ v = w
    BY <1>1, <1>4, <1>6, <1>9, <2>2 DEF AgainstThePerson
  <2>3. CASE y = x /\ v # w
    <3>1. v.at \in Nat /\ v.at # w.at
      BY <2>3, RowsTyped DEF SaidOnce, Delivery
    <3>2. case[x].at > v.at \/ case[x].status = v.status
      BY <1>3, <2>3 DEF SeenIsRecorded
    <3>3. ASSUME case[x].status = v.status PROVE case[x].at = v.at
      <4>1. PICK u \in Words(x) : u.status = case[x].status /\ u.at = case[x].at
        BY <1>1, <3>3 DEF RecordedIsSaid
      <4> QED BY <2>3, <3>3, <4>1 DEF SaidOnce
    <3>4. w.at > v.at
      BY <1>1, <1>3, <3>1, <3>2, <3>3
    <3> QED BY <1>1, <1>6, <1>9, <2>3, <3>4
  <2> QED BY <2>1, <2>2, <2>3
<1>25. RecordedIsSaid'
  <2> SUFFICES ASSUME NEW y \in Case, Opened(y), case'[y].status \in AgainstThePerson
               PROVE  \E v \in Words(y) : v.status = case'[y].status /\ v.at = case'[y].at
    BY <1>10 DEF RecordedIsSaid
  <2>1. CASE y # x
    BY <1>9, <2>1 DEF RecordedIsSaid
  <2>2. CASE y = x
    BY <1>4, <1>6, <1>9, <2>2
  <2> QED BY <2>1, <2>2
<1>26. LastLossIsOpen'
  <2> SUFFICES ASSUME NEW a \in Account, \A y \in CasesOf(a) : SaidOnce(y), Unjustified(a)', a \notin stale
               PROVE  PutBeforeOwners(a)' \/ Unanswered(a)'
    BY <1>2, <1>10, <1>11 DEF LastLossIsOpen, CasesOf
  <2>1. PutBeforeOwners(a) => PutBeforeOwners(a)'
    BY <1>2, <1>11 DEF PutBeforeOwners
  <2>2. CASE x \in CasesOf(a) /\ verdict \in AgainstThePerson
    <3>1. ~Seen(w)
      BY <1>1, <1>2, <1>3, <1>4, <2>2 DEF SeenIsRecorded
    <3> QED BY <1>2, <1>4, <1>6, <1>9, <1>10, <1>11, <2>2, <3>1 DEF Unanswered, Seen
  <2>3. CASE x \in CasesOf(a) /\ verdict \notin AgainstThePerson
    <3>1. verdict \notin Decided
      BY <1>6, <1>9, <1>11, <2>3 DEF Unjustified, CasesOf
    <3>2. case[x].status \notin Decided /\ case[x].status \notin AgainstThePerson
      BY <1>19, <3>1 DEF Decided, AgainstThePerson
    <3>3. Unjustified(a)
      BY <1>2, <1>6, <1>9, <1>11, <2>3, <3>2 DEF Unjustified, CasesOf
    <3>4. Unanswered(a) => Unanswered(a)'
      BY <1>2, <1>9, <1>10, <1>11, <3>2 DEF Unanswered, CasesOf
    <3> QED BY <2>1, <3>3, <3>4 DEF LastLossIsOpen
  <2>4. CASE x \notin CasesOf(a)
    <3>1. Unjustified(a)
      BY <1>2, <1>9, <1>11, <2>4 DEF Unjustified, CasesOf
    <3>2. Unanswered(a) => Unanswered(a)'
      BY <1>2, <1>9, <1>10, <1>11, <2>4 DEF Unanswered, CasesOf
    <3> QED BY <2>1, <3>1, <3>2 DEF LastLossIsOpen
  <2> QED BY <2>2, <2>3, <2>4
<1> QED BY <1>8, <1>13, <1>14, <1>15, <1>16, <1>18, <1>20, <1>21, <1>22, <1>24, <1>25, <1>26

(***************************************************************************)
(* Levels                                                                  *)
(***************************************************************************)

LEMMA ApplyApprovalStep ==
  ASSUME IInv, NEW p \in Worker, ApplyApproval(p)
  PROVE  IInv'
<1> USE DEF IInv
<1> DEFINE x == worker[p].case
           w == worker[p].word
           a == Owner(x)
           d == case[x].document
           raises == level[a] = 0
<1>1. /\ x \in Case /\ w \in Delivery /\ Opened(x) /\ w \in Words(x) /\ w.status = "approved" /\ w.case = x
      /\ a \in Account /\ d \in Document \union {NoDocument} /\ x \in CasesOf(a) /\ At(p, "applying")
  BY RequestTyped, RowsTyped DEF ApplyApproval, At, RequestsKnown, ApplyingKnown, CasesKnown, OpenedCase, WordsKnown, CasesOf
<1>2. /\ level' = [level EXCEPT ![a] = IF level[a] < 1 THEN 1 ELSE level[a]]
      /\ bought' = IF raises THEN [bought EXCEPT ![a] = bought[a] \union {d}] ELSE bought
      /\ stale' = IF raises /\ case[x].status # "approved" THEN stale \union {a} ELSE stale
      /\ answered' = answered \union {w}
      /\ worker' = [worker EXCEPT ![p] = Idle]
      /\ Notify(x, IF raises THEN {"kyc_approved"} ELSE {})
      /\ UNCHANGED <<session, said, case>>
  BY DEF ApplyApproval, RaiseKycLevelTo, Answer, Ends, Goes
<1>3. /\ mail \subseteq mail' /\ mail' \subseteq Case \X Kind /\ faults' \in Nat
  <2>1. <<x, "kyc_approved">> \in Case \X Kind /\ <<x, "lost">> \in Case \X Kind
    BY <1>1 DEF Kind
  <2>2. CASE mail' = mail \union {<<x, kind>> : kind \in IF raises THEN {"kyc_approved"} ELSE {}} /\ UNCHANGED faults
    BY <2>1, <2>2 DEF TypeOK
  <2>3. CASE faults' = faults + 1 /\ mail' = mail \union {<<x, "lost">>}
    BY <2>1, <2>3 DEF TypeOK
  <2> QED BY <1>2, <2>2, <2>3 DEF Notify
<1>4. level[a] \in 0 .. 2
  BY <1>1 DEF TypeOK
<1> HIDE DEF x, w, a, d, raises
<1>5. TypeOK'
  <2>1. level' \in [Account -> 0 .. 2]
    BY <1>1, <1>2, <1>4 DEF TypeOK
  <2>2. bought' \in [Account -> SUBSET (Document \union {NoDocument})]
    BY <1>1, <1>2 DEF TypeOK
  <2>3. stale' \subseteq Account
    BY <1>1, <1>2 DEF TypeOK
  <2>4. worker' \in [Worker -> Request]
    BY <1>2 DEF TypeOK, Request
  <2> QED BY <1>1, <1>2, <1>3, <2>1, <2>2, <2>3, <2>4 DEF TypeOK
<1>6. /\ \A b \in Account : level'[b] = IF b = a /\ raises THEN 1 ELSE level[b]
      /\ \A b \in Account : bought'[b] = IF b = a /\ raises THEN bought[a] \union {d} ELSE bought[b]
      /\ \A b : b \notin stale' => b \notin stale
      /\ raises => level[a] = 0 /\ bought[a] = {} /\ (a \notin stale' => case[x].status = "approved")
  <2>1. \A b \in Account : level'[b] = IF b = a /\ raises THEN 1 ELSE level[b]
    BY <1>1, <1>2, <1>4 DEF TypeOK, raises
  <2>2. \A b \in Account : bought'[b] = IF b = a /\ raises THEN bought[a] \union {d} ELSE bought[b]
    BY <1>1, <1>2 DEF TypeOK
  <2>3. raises => level[a] = 0 /\ bought[a] = {}
    BY <1>1 DEF BoughtIsDecided, raises
  <2> QED BY <1>2, <2>1, <2>2, <2>3
<1>7. \A y \in Case : /\ Words(y)' = Words(y) /\ Owner(y)' = Owner(y) /\ Sold(y)' = Sold(y)
                      /\ Opened(y)' = Opened(y) /\ SaidOnce(y)' = SaidOnce(y) /\ Waiting(y)' = Waiting(y)
  BY <1>2 DEF Words, Owner, Sold, Opened, SaidOnce, Waiting
<1>8. \A b : CasesOf(b)' = CasesOf(b)
  BY <1>7 DEF CasesOf
<1>9. \A q \in Worker : worker'[q] = IF q = p THEN Idle ELSE worker[q]
  BY <1>2 DEF TypeOK
<1>10. WordsKnown'
  BY <1>1, <1>2, <1>7 DEF WordsKnown, Words, Sold
<1>11. CasesKnown' /\ OneApproval' /\ RecordedIsSaid'
  BY <1>2, <1>7 DEF CasesKnown, OneApproval, RecordedIsSaid, Shares
<1>12. RequestsKnown'
  <2>1. \A q \in Worker : (At(q, "opening") \/ At(q, "applying")) => worker[q].case \in Case
    BY RequestTyped DEF At
  <2> QED BY <1>7, <1>9, <2>1 DEF RequestsKnown, OpeningKnown, ApplyingKnown, At, Idle
<1>13. StartsAlone'
  BY <1>7, <1>8, <1>9 DEF StartsAlone, Starts, Idle, CasesOf
<1>14. BoughtIsDecided'
  <2> SUFFICES ASSUME NEW b \in Account, NEW e \in bought'[b]
               PROVE  /\ level'[b] >= 1
                      /\ e # NoDocument /\ b \notin stale' => \E y \in CasesOf(b) : case[y].document = e /\ case[y].status \in Decided
    BY <1>2, <1>8 DEF BoughtIsDecided
  <2>1. CASE b = a /\ raises
    BY <1>1, <1>6, <2>1 DEF d, Decided
  <2>2. CASE ~(b = a /\ raises)
    BY <1>6, <2>2 DEF BoughtIsDecided
  <2> QED BY <2>1, <2>2
<1>15. \A b \in Account : raises /\ a \notin stale' /\ d # NoDocument /\ b # a /\ b \notin stale' => d \notin bought[b]
  BY <1>1, <1>6 DEF NotBoughtElsewhere, a, d
<1>16. NotBoughtElsewhere'
  <2> SUFFICES ASSUME NEW y \in Case, NEW b \in Account, Opened(y), case[y].status = "approved", case[y].document # NoDocument,
                      b # Owner(y), b \notin stale', case[y].document \in bought'[b]
               PROVE  FALSE
    BY <1>2, <1>7 DEF NotBoughtElsewhere
  <2>1. b = a /\ raises /\ case[y].document = d
    BY <1>6 DEF NotBoughtElsewhere
  <2>2. Shares(x, y)
    BY <1>1, <2>1 DEF Shares, a, d
  <2> QED BY <1>1, <1>6, <2>1, <2>2 DEF OneApproval
<1>17. OneDocumentOneAccount'
  <2> SUFFICES ASSUME NEW b \in Account, NEW c \in Account, b # c, b \notin stale', c \notin stale',
                      NEW e, e \in bought'[b], e \in bought'[c], e # NoDocument
               PROVE  FALSE
    BY DEF OneDocumentOneAccount
  <2>1. CASE b = a /\ raises
    BY <1>6, <1>15, <2>1
  <2>2. CASE c = a /\ raises
    BY <1>6, <1>15, <2>2
  <2>3. CASE ~raises \/ (b # a /\ c # a)
    BY <1>6, <2>3 DEF OneDocumentOneAccount
  <2> QED BY <2>1, <2>2, <2>3
<1>18. SeenIsRecorded'
  <2>1. \A v : Seen(v)' => Seen(v)
    BY <1>1, <1>2, <1>9 DEF Seen, At, Idle, w
  <2> QED BY <1>2, <1>7, <2>1 DEF SeenIsRecorded
<1>19. LastLossIsOpen'
  <2> SUFFICES ASSUME NEW b \in Account, \A y \in CasesOf(b) : SaidOnce(y), Unjustified(b)', b \notin stale'
               PROVE  PutBeforeOwners(b)' \/ Unanswered(b)'
    BY <1>7, <1>8 DEF LastLossIsOpen, CasesOf
  <2>1. PutBeforeOwners(b) => PutBeforeOwners(b)'
    BY <1>3, <1>8 DEF PutBeforeOwners
  <2>2. Unanswered(b) => Unanswered(b)'
    <3>1. w.status \notin AgainstThePerson
      BY <1>1 DEF AgainstThePerson
    <3> QED BY <1>2, <1>7, <1>8, <3>1 DEF Unanswered, CasesOf
  <2>3. CASE b = a /\ raises
    <3>1. case[x].status = "approved" /\ ~case[x].retired
      BY <1>1, <1>6, <2>3 DEF CasesKnown
    <3> QED BY <1>1, <1>2, <1>8, <2>3, <3>1 DEF Unjustified, Decided, AgainstThePerson
  <2>4. CASE ~(b = a /\ raises)
    <3>1. Unjustified(b)
      BY <1>2, <1>6, <1>8, <2>4 DEF Unjustified
    <3> QED BY <1>6, <2>1, <2>2, <3>1 DEF LastLossIsOpen
  <2> QED BY <2>3, <2>4
<1> QED BY <1>5, <1>10, <1>11, <1>12, <1>13, <1>14, <1>16, <1>17, <1>18, <1>19

LEMMA SetKycLevelStep ==
  ASSUME IInv, NEW a \in Account, NEW n \in Level, SetKycLevel(a, n)
  PROVE  IInv'
<1> USE DEF IInv
<1>1. /\ n \in 0 .. 2
      /\ level' = [level EXCEPT ![a] = n]
      /\ bought' = IF n = 0 THEN [bought EXCEPT ![a] = {}] ELSE bought
      /\ UNCHANGED <<session, said, answered, case, worker, faults, mail, stale>>
  BY BoundsAssumption DEF SetKycLevel, vendor
<1>2. TypeOK'
  BY <1>1 DEF TypeOK
<1>3. /\ \A b \in Account : level'[b] = IF b = a THEN n ELSE level[b]
      /\ \A b \in Account : bought'[b] = IF b = a /\ n = 0 THEN {} ELSE bought[b]
  BY <1>1 DEF TypeOK
<1>4. WordsKnown' /\ CasesKnown' /\ OneApproval' /\ RecordedIsSaid' /\ SeenIsRecorded'
  BY <1>1 DEF WordsKnown, CasesKnown, OneApproval, RecordedIsSaid, SeenIsRecorded, Words, Sold, Opened, Owner, Waiting,
     Shares, Seen, SaidOnce, At
<1>5. RequestsKnown' /\ StartsAlone'
  BY <1>1 DEF RequestsKnown, OpeningKnown, ApplyingKnown, StartsAlone, Starts, At, Words, Sold, Opened, Owner, Waiting, CasesOf
<1>6. \A b : CasesOf(b)' = CasesOf(b)
  BY <1>1 DEF CasesOf, Opened, Owner
<1>7. BoughtIsDecided'
  BY <1>1, <1>3, <1>6 DEF BoughtIsDecided
<1>8. NotBoughtElsewhere' /\ OneDocumentOneAccount'
  BY <1>1, <1>3 DEF NotBoughtElsewhere, OneDocumentOneAccount, Opened, Owner
<1>9. LastLossIsOpen'
  <2> SUFFICES ASSUME NEW b \in Account, \A y \in CasesOf(b) : SaidOnce(y), Unjustified(b)', b \notin stale
               PROVE  PutBeforeOwners(b)' \/ Unanswered(b)'
    BY <1>1, <1>6 DEF LastLossIsOpen, SaidOnce, Words, Sold
  <2>1. Unjustified(b)
    <3>1. bought'[b] # {} /\ level'[b] >= 1 /\ bought[b] # {} /\ level[b] >= 1
      BY <1>3 DEF Unjustified, BoughtIsDecided
    <3> QED BY <1>1, <1>6, <3>1 DEF Unjustified
  <2> QED BY <1>1, <1>6, <2>1 DEF LastLossIsOpen, PutBeforeOwners, Unanswered, Words, Sold
<1> QED BY <1>2, <1>4, <1>5, <1>7, <1>8, <1>9

(***************************************************************************)
(* The invariant                                                           *)
(***************************************************************************)

LEMMA InitIInv == Init => IInv
<1> SUFFICES ASSUME Init PROVE IInv
  OBVIOUS
<1> USE DEF Init
<1>1. TypeOK
  BY DEF TypeOK, Request
<1>2. \A x \in Case : ~Opened(x) /\ ~Sold(x) /\ Words(x) = {}
  BY DEF Opened, Sold, Words
<1>3. \A p \in Worker : worker[p].step = "idle"
  BY DEF Idle
<1>4. WordsKnown /\ CasesKnown /\ RequestsKnown /\ StartsAlone
  BY <1>2, <1>3 DEF WordsKnown, CasesKnown, RequestsKnown, OpeningKnown, ApplyingKnown, StartsAlone, Starts, At
<1>5. OneApproval /\ BoughtIsDecided /\ NotBoughtElsewhere /\ OneDocumentOneAccount
  BY <1>2 DEF OneApproval, BoughtIsDecided, NotBoughtElsewhere, OneDocumentOneAccount, Shares
<1>6. SeenIsRecorded /\ RecordedIsSaid /\ LastLossIsOpen
  BY <1>2 DEF SeenIsRecorded, RecordedIsSaid, LastLossIsOpen, Unjustified
<1> QED BY <1>1, <1>4, <1>5, <1>6 DEF IInv

LEMMA NextIInv == IInv /\ [Next]_vars => IInv'
<1> SUFFICES ASSUME IInv, [Next]_vars PROVE IInv'
  OBVIOUS
<1>1. CASE UNCHANGED vars
  BY <1>1 DEF vars, vendor, IInv, TypeOK, WordsKnown, CasesKnown, RequestsKnown, OpeningKnown, ApplyingKnown, StartsAlone,
     OneApproval, BoughtIsDecided, NotBoughtElsewhere, OneDocumentOneAccount, SeenIsRecorded, RecordedIsSaid, LastLossIsOpen,
     Words, Sold, Opened, Owner, Waiting, CasesOf, Starts, At, Shares, Seen, SaidOnce, Unjustified, PutBeforeOwners, Unanswered
<1>2. ASSUME NEW p \in Worker, Proceeds(p) \/ Fails(p) PROVE IInv'
  BY <1>2, EndingSteps, OpenCaseStep, ApplyApprovalStep, ApplyOtherStep, StartSessionStep DEF Proceeds, Apply
<1>3. ASSUME NEW p \in Worker, NEW a \in Account, Start(p, a) PROVE IInv'
  BY <1>3, StartStep
<1>4. ASSUME NEW p \in Worker, NEW x \in Case, NEW w \in Words(x), Callback(p, w) PROVE IInv'
  <2>1. w.case = x
    BY DEF IInv, WordsKnown
  <2>2. CASE UnknownStatus(p, w)
    BY <2>2, AnsweredStep DEF UnknownStatus, Answer
  <2>3. CASE RecordIgnored(p, w)
    BY <2>1, <2>3, AnsweredStep DEF RecordIgnored, Answer
  <2>4. CASE RecordRedelivered(p, w)
    BY <2>4, RecordRedeliveredStep
  <2>5. CASE w.status # Unheard /\ RecordDecision(p, w)
    BY <2>5, RecordDecisionStep
  <2> QED BY <1>4, <2>2, <2>3, <2>4, <2>5 DEF Callback
<1>5. ASSUME NEW x \in Case, NEW word \in Word, VendorSays(x, word) PROVE IInv'
  BY <1>5, VendorSaysStep
<1>6. ASSUME NEW x \in Case, CaseAges(x) PROVE IInv'
  BY <1>6, CaseAgesStep
<1>7. ASSUME NEW a \in Account, NEW n \in Level, SetKycLevel(a, n) PROVE IInv'
  BY <1>7, SetKycLevelStep
<1> QED BY <1>1, <1>2, <1>3, <1>4, <1>5, <1>6, <1>7 DEF Next

THEOREM Invariance == Spec => []IInv
BY InitIInv, NextIInv, PTL DEF Spec

(***************************************************************************)
(* The theorems                                                            *)
(***************************************************************************)

(* Every table, session, delivery and request has the shape its columns have. *)
THEOREM TypeCorrect == Spec => []TypeOK
<1>1. IInv => TypeOK
  BY DEF IInv
<1> QED BY <1>1, Invariance, PTL

(* No document buys two accounts a level, and no user has two cases the
   vendor has yet to speak of. *)
THEOREM CountedOnce == Spec => []NobodyCountsTwice
<1>1. ASSUME StartsAlone PROVE OnePendingCase
  <2> SUFFICES ASSUME NEW a \in Account
               PROVE  Cardinality({x \in CasesOf(a) : Waiting(x)}) <= 1
    BY DEF OnePendingCase
  <2> DEFINE waiting == {x \in CasesOf(a) : Waiting(x)}
  <2>1. \A x, y \in waiting : x = y
    BY <1>1 DEF StartsAlone, CasesOf
  <2>2. CASE waiting = {}
    BY <2>2, FS_EmptySet
  <2>3. CASE waiting # {}
    <3>1. PICK x \in waiting : waiting = {x}
      BY <2>1, <2>3
    <3> HIDE DEF waiting
    <3>2. Cardinality(waiting) = 1
      BY <3>1, FS_Singleton
    <3> QED BY <3>2 DEF waiting
  <2> QED BY <2>2, <2>3
<1>2. IInv => NobodyCountsTwice
  BY <1>1 DEF IInv, NobodyCountsTwice
<1> QED BY <1>2, Invariance, PTL

(* Whoever bought a level and lost the last approval behind it was put before
   the owners, once everything the vendor said of him was answered. *)
THEOREM LossesAreRaised == Spec => []LostLevelsAreRaised
<1>1. ASSUME IInv PROVE LostLevelsAreRaised
  <2> SUFFICES ASSUME NEW a \in Account, Settled(a), Unjustified(a), a \notin stale
               PROVE  PutBeforeOwners(a)
    BY DEF LostLevelsAreRaised
  <2>1. ~Unanswered(a) /\ \A x \in CasesOf(a) : SaidOnce(x)
    BY DEF Unanswered, Settled
  <2> QED BY <1>1, <2>1 DEF IInv, LastLossIsOpen
<1>2. IInv => LostLevelsAreRaised
  BY <1>1
<1> QED BY <1>2, Invariance, PTL

(* Only the operator and an approval being applied write a level. *)
LEMMA WhoMovesLevels ==
  ASSUME [Next]_vars
  PROVE  \/ level' = level
         \/ \E a \in Account, n \in Level : SetKycLevel(a, n)
         \/ \E p \in Worker : ApplyApproval(p)
<1>1. ASSUME NEW p \in Worker, Proceeds(p) PROVE level' = level \/ ApplyApproval(p)
  BY <1>1 DEF Proceeds, Apply, ApplyOther, SessionRefused, OpenCase, StartSession
<1>2. ASSUME NEW p \in Worker, Fails(p) \/ \E a \in Account : Start(p, a) PROVE level' = level
  BY <1>2 DEF Fails, Start, PassesGate
<1>3. ASSUME NEW p \in Worker, NEW w, Callback(p, w) PROVE level' = level
  BY <1>3 DEF Callback, UnknownStatus, RecordIgnored, RecordRedelivered, RecordDecision
<1>4. ASSUME NEW x \in Case, (\E word \in Word : VendorSays(x, word)) \/ CaseAges(x) PROVE level' = level
  BY <1>4 DEF VendorSays, CaseAges
<1>5. CASE UNCHANGED vars
  BY <1>5 DEF vars
<1> QED BY <1>1, <1>2, <1>3, <1>4, <1>5 DEF Next

(* No verdict lowers a level: a step that does is the operator's. *)
THEOREM NeverLowered == Spec => VerdictsNeverLower
<1>1. ASSUME IInv, [Next]_vars, NEW a \in Account, level'[a] < level[a]
      PROVE  UNCHANGED <<worker, answered>>
  <2>1. level[a] \in 0 .. 2
    BY <1>1 DEF IInv, TypeOK
  <2>2. CASE \E b \in Account, n \in Level : SetKycLevel(b, n)
    BY <2>2 DEF SetKycLevel, vendor
  <2>3. ASSUME NEW p \in Worker, ApplyApproval(p) PROVE FALSE
    <3>1. level' = [level EXCEPT ![Owner(worker[p].case)] = IF @ < 1 THEN 1 ELSE @]
      BY <2>3 DEF ApplyApproval, RaiseKycLevelTo
    <3> QED BY <1>1, <2>1, <3>1 DEF IInv, TypeOK
  <2>4. CASE level' = level
    BY <1>1, <2>1, <2>4
  <2> QED BY <1>1, <2>2, <2>3, <2>4, WhoMovesLevels
<1>2. IInv /\ [Next]_vars => [\A a \in Account : level'[a] < level[a] => UNCHANGED <<worker, answered>>]_vars
  BY <1>1
<1> QED BY <1>2, Invariance, PTL DEF Spec, VerdictsNeverLower

(***************************************************************************)
(* What an approval still owes                                             *)
(***************************************************************************)

(* What is applied for a word is the word's status, unless the hold of a double. *)
AppliedKnown ==
  \A p \in Worker : At(p, "applying") => worker[p].status \in {worker[p].word.status, "held_duplicate"}

(* Whatever request p does, either it takes a verdict up or it applies none. *)
LEMMA RequestsTakeUp ==
  ASSUME TypeOK, [Next]_vars, NEW q \in Worker, At(q, "applying")', worker'[q] # worker[q]
  PROVE  \E x \in Case : \E w \in Words(x) :
           /\ RecordRedelivered(q, w) \/ RecordDecision(q, w)
           /\ worker'[q].case = w.case /\ worker'[q].word = w
<1> USE DEF Goes
<1>1. worker \in [Worker -> Request] /\ worker'[q].step = "applying" /\ worker' # worker
  BY DEF TypeOK, At
<1>2. ASSUME NEW p \in Worker, NEW next, next.step # "applying", Goes(p, next) PROVE FALSE
  BY <1>1, <1>2
<1>3. ASSUME NEW p \in Worker, Ends(p) PROVE FALSE
  <2>1. Idle.step # "applying"
    BY DEF Idle
  <2> QED BY <1>2, <1>3, <2>1 DEF Ends
<1>4. ASSUME NEW p \in Worker, Proceeds(p) \/ Fails(p) PROVE FALSE
  <2>1. CASE SessionRefused(p) \/ OpenCase(p) \/ Apply(p) \/ Fails(p)
    <3>1. SessionRefused(p) => Ends(p)
      BY DEF SessionRefused
    <3>2. OpenCase(p) => Ends(p)
      BY DEF OpenCase
    <3>3. Apply(p) => Ends(p)
      BY DEF Apply, ApplyApproval, ApplyOther
    <3>4. Fails(p) => Ends(p)
      BY DEF Fails
    <3> QED BY <1>3, <2>1, <3>1, <3>2, <3>3, <3>4
  <2>2. ASSUME NEW x \in Case, NEW d \in Document, StartSession(p, x, d) PROVE FALSE
    <3> DEFINE next == [step |-> "opening", account |-> worker[p].account, case |-> x]
    <3>1. Goes(p, next) /\ next.step # "applying"
      BY <2>2 DEF StartSession
    <3> HIDE DEF next
    <3> QED BY <1>2, <3>1
  <2> QED BY <1>4, <2>1, <2>2 DEF Proceeds
<1>5. ASSUME NEW p \in Worker, NEW a \in Account, Start(p, a) PROVE FALSE
  <2> DEFINE next == [step |-> "dialling", account |-> a]
  <2>1. Goes(p, next) /\ next.step # "applying"
    BY <1>5 DEF Start, PassesGate
  <2> HIDE DEF next
  <2> QED BY <1>2, <2>1
<1>6. ASSUME NEW p \in Worker, NEW x \in Case, NEW w \in Words(x), Callback(p, w)
      PROVE  /\ p = q
             /\ RecordRedelivered(p, w) \/ RecordDecision(p, w)
             /\ worker'[q].case = w.case /\ worker'[q].word = w
  <2>1. CASE UnknownStatus(p, w) \/ RecordIgnored(p, w)
    BY <1>1, <2>1 DEF UnknownStatus, RecordIgnored
  <2>2. ASSUME NEW status, Applies(p, w, status) PROVE p = q /\ worker'[q].case = w.case /\ worker'[q].word = w
    BY <1>1, <2>2 DEF Applies
  <2>3. CASE RecordRedelivered(p, w)
    BY <2>2, <2>3 DEF RecordRedelivered
  <2>4. CASE RecordDecision(p, w)
    BY <2>2, <2>4 DEF RecordDecision
  <2> QED BY <1>6, <2>1, <2>3, <2>4 DEF Callback
<1>7. CASE \/ \E x \in Case : CaseAges(x) \/ \E word \in Word : VendorSays(x, word)
           \/ \E a \in Account, n \in Level : SetKycLevel(a, n)
           \/ UNCHANGED vars
  BY <1>1, <1>7 DEF CaseAges, VendorSays, SetKycLevel, vars
<1> QED BY <1>4, <1>5, <1>6, <1>7 DEF Next

LEMMA AppliedVerdicts == Spec => []AppliedKnown
<1>1. Init => AppliedKnown
  BY DEF Init, AppliedKnown, At, Idle
<1>2. ASSUME TypeOK, AppliedKnown, [Next]_vars PROVE AppliedKnown'
  <2> SUFFICES ASSUME NEW q \in Worker, At(q, "applying")'
               PROVE  worker'[q].status \in {worker'[q].word.status, "held_duplicate"}
    BY DEF AppliedKnown, At
  <2>1. CASE worker'[q] = worker[q]
    BY <1>2, <2>1 DEF AppliedKnown, At
  <2>2. ASSUME worker'[q] # worker[q] PROVE worker'[q].status \in {worker'[q].word.status, "held_duplicate"}
    <3>1. PICK w : /\ RecordRedelivered(q, w) \/ RecordDecision(q, w)
                   /\ worker'[q].case = w.case /\ worker'[q].word = w
      BY <1>2, <2>2, RequestsTakeUp
    <3>2. Verdict(w) \in {w.status, "held_duplicate"}
      BY DEF Verdict
    <3>3. ASSUME NEW status, Applies(q, w, status) PROVE worker'[q].status = status
      BY <1>2, <3>3 DEF Applies, Goes, TypeOK
    <3>4. CASE RecordRedelivered(q, w)
      BY <3>1, <3>2, <3>3, <3>4 DEF RecordRedelivered
    <3>5. CASE RecordDecision(q, w)
      BY <3>1, <3>2, <3>3, <3>5 DEF RecordDecision
    <3> QED BY <3>1, <3>4, <3>5
  <2> QED BY <2>1, <2>2
<1>3. IInv => TypeOK
  BY DEF IInv
<1> QED BY <1>1, <1>2, <1>3, Invariance, PTL DEF Spec

(* Only a start, a decision and the time a case waits write cases; only the vendor writes sessions. *)
LEMMA WhoMovesCases ==
  ASSUME [Next]_vars
  PROVE  \/ UNCHANGED case
         \/ \E p \in Worker : OpenCase(p)
         \/ \E p \in Worker : \E x \in Case : \E w \in Words(x) : RecordDecision(p, w)
         \/ \E x \in Case : CaseAges(x)
<1>1. ASSUME NEW p \in Worker, Proceeds(p) \/ Fails(p) PROVE UNCHANGED case \/ OpenCase(p)
  BY <1>1 DEF Proceeds, Apply, ApplyApproval, ApplyOther, SessionRefused, StartSession, Fails
<1>2. ASSUME NEW p \in Worker, NEW a \in Account, Start(p, a) PROVE UNCHANGED case
  BY <1>2 DEF Start, PassesGate
<1>3. ASSUME NEW p \in Worker, NEW w, Callback(p, w) PROVE UNCHANGED case \/ RecordDecision(p, w)
  BY <1>3 DEF Callback, UnknownStatus, RecordIgnored, RecordRedelivered
<1>4. CASE \/ \E x \in Case, word \in Word : VendorSays(x, word)
           \/ \E a \in Account, n \in Level : SetKycLevel(a, n)
           \/ UNCHANGED vars
  BY <1>4 DEF VendorSays, SetKycLevel, vars
<1> QED BY <1>1, <1>2, <1>3, <1>4 DEF Next

LEMMA WhoMovesSessions ==
  ASSUME [Next]_vars
  PROVE  \/ UNCHANGED session
         \/ \E p \in Worker, x \in Case, d \in Document : StartSession(p, x, d)
         \/ \E x \in Case, word \in Word : VendorSays(x, word)
<1>1. ASSUME NEW p \in Worker, Proceeds(p) \/ Fails(p)
      PROVE  UNCHANGED session \/ \E x \in Case, d \in Document : StartSession(p, x, d)
  BY <1>1 DEF Proceeds, Apply, ApplyApproval, ApplyOther, SessionRefused, OpenCase, Fails, vendor
<1>2. ASSUME NEW p \in Worker, NEW a \in Account, Start(p, a) PROVE UNCHANGED session
  BY <1>2 DEF Start, PassesGate, vendor
<1>3. ASSUME NEW p \in Worker, NEW w, Callback(p, w) PROVE UNCHANGED session
  BY <1>3 DEF Callback, UnknownStatus, RecordIgnored, RecordRedelivered, RecordDecision, vendor
<1>4. CASE \/ \E x \in Case : CaseAges(x)
           \/ \E a \in Account, n \in Level : SetKycLevel(a, n)
           \/ UNCHANGED vars
  BY <1>4 DEF CaseAges, SetKycLevel, vars, vendor
<1> QED BY <1>1, <1>2, <1>3, <1>4 DEF Next

(* A case that is on record stays on record, under its owner and with its words. *)
LEMMA CasesStay ==
  ASSUME IInv, [Next]_vars, NEW x \in Case, Opened(x)
  PROVE  Opened(x)' /\ Owner(x)' = Owner(x) /\ Words(x) \subseteq Words(x)'
<1>1. case[x] \in OpenedCase /\ Sold(x) /\ session[x] \in VendorSession
  BY RowsTyped DEF IInv, CasesKnown
<1>2. /\ case \in [Case -> {Unopened} \union OpenedCase]
      /\ session \in [Case -> {Unopened} \union VendorSession]
      /\ Unopened \notin OpenedCase /\ Unopened \notin VendorSession
  BY DEF IInv, TypeOK, Unopened, OpenedCase, VendorSession
<1>3. case'[x] \in OpenedCase
  <2>1. case' \in [Case -> {Unopened} \union OpenedCase]
    BY NextIInv DEF IInv, TypeOK
  <2>2. ASSUME NEW p \in Worker, OpenCase(p) PROVE case'[x] # Unopened
    <3> DEFINE closed == [case[x] EXCEPT !.status = "abandoned", !.retired = TRUE]
               retired == {y \in CasesOf(worker[p].account) : Stale(y)}
               row == [status |-> "pending", at |-> 0, document |-> NoDocument, aged |-> FALSE, retired |-> FALSE]
    <3>1. closed \in OpenedCase /\ row \in OpenedCase
      BY <1>1 DEF OpenedCase, Running, Decided, Abandonable
    <3>2. case' = [y \in Case |-> CASE y \in retired -> [case[y] EXCEPT !.status = "abandoned", !.retired = TRUE]
                                    [] y = worker[p].case -> row
                                    [] OTHER -> case[y]]
      BY <2>2 DEF OpenCase
    <3> HIDE DEF row, retired
    <3>3. case'[x] \in {closed, row, case[x]}
      BY <3>2
    <3> QED BY <1>1, <1>2, <3>1, <3>3
  <2>4. ASSUME NEW y \in Case, NEW next, case' = [case EXCEPT ![y] = next], next # Unopened PROVE case'[x] # Unopened
    BY <1>1, <1>2, <2>4
  <2>5. ASSUME NEW p \in Worker, NEW y \in Case, NEW w \in Words(y), RecordDecision(p, w) PROVE case'[x] # Unopened
    <3>1. w.case = y /\ Opened(y) /\ case[y] \in OpenedCase
      BY <2>5, RowsTyped DEF IInv, WordsKnown, RecordDecision
    <3>2. PICK document : case' = [case EXCEPT ![y].status = Verdict(w), ![y].at = w.at, ![y].aged = FALSE, ![y].document = document]
      BY <2>5, <3>1 DEF RecordDecision
    <3> DEFINE next == [case[y] EXCEPT !.status = Verdict(w), !.at = w.at, !.aged = FALSE, !.document = document]
    <3>3. case' = [case EXCEPT ![y] = next]
      BY <3>2
    <3>4. next # Unopened
      <4>1. DOMAIN next = {"status", "at", "document", "aged", "retired"}
        BY <3>1 DEF OpenedCase
      <4>2. "retired" \notin DOMAIN Unopened
        BY DEF Unopened
      <4> QED BY <4>1, <4>2
    <3> HIDE DEF next
    <3> QED BY <2>4, <3>3, <3>4
  <2>6. ASSUME NEW y \in Case, CaseAges(y) PROVE case'[x] # Unopened
    <3>1. case[y] \in OpenedCase
      BY <2>6, RowsTyped DEF IInv, CaseAges
    <3>2. case' = [case EXCEPT ![y] = [case[y] EXCEPT !.aged = TRUE]] /\ [case[y] EXCEPT !.aged = TRUE] \in OpenedCase
      BY <2>6, <3>1 DEF CaseAges, OpenedCase
    <3> QED BY <1>2, <2>4, <3>2
  <2>7. CASE UNCHANGED case
    BY <1>1, <1>2, <2>7
  <2> QED BY <1>1, <2>1, <2>2, <2>5, <2>6, <2>7, WhoMovesCases
<1>4. Owner(x)' = Owner(x) /\ Words(x) \subseteq Words(x)'
  <2>1. ASSUME NEW p \in Worker, NEW y \in Case, NEW d \in Document, StartSession(p, y, d)
        PROVE  session'[x] = session[x]
    BY <1>1, <1>2, <2>1 DEF StartSession, Sold
  <2>2. ASSUME NEW y \in Case, NEW word \in Word, VendorSays(y, word)
        PROVE  session'[x].owner = session[x].owner /\ session[x].words \subseteq session'[x].words /\ session'[x] # Unopened
    <3>1. PICK at, w : session' = [session EXCEPT ![y].at = at, ![y].words = @ \union {w}]
      BY <2>2 DEF VendorSays
    <3>2. session[y] \in VendorSession
      BY <2>2, RowsTyped DEF IInv, VendorSays
    <3> DEFINE next == [session[y] EXCEPT !.at = at, !.words = @ \union {w}]
    <3>3. /\ session' = [session EXCEPT ![y] = next]
          /\ next.owner = session[y].owner /\ session[y].words \subseteq next.words
      BY <3>1, <3>2 DEF VendorSession
    <3>4. next # Unopened
      <4>1. "owner" \in DOMAIN next /\ "owner" \notin DOMAIN Unopened
        BY <3>2 DEF VendorSession, Unopened
      <4> QED BY <4>1
    <3> HIDE DEF next
    <3> QED BY <1>1, <1>2, <3>3, <3>4
  <2>3. \/ UNCHANGED session
        \/ session'[x].owner = session[x].owner /\ session[x].words \subseteq session'[x].words /\ session'[x] # Unopened
    BY <1>1, <1>2, <2>1, <2>2, WhoMovesSessions
  <2> QED BY <1>1, <2>3 DEF Owner, Words, Sold
<1> QED BY <1>2, <1>3, <1>4 DEF Opened

LEMMA WhoAnswers ==
  ASSUME TypeOK, [Next]_vars, NEW v \in answered', v \notin answered
  PROVE  \/ \E p \in Worker : UnknownStatus(p, v) \/ RecordIgnored(p, v)
         \/ \E p \in Worker : worker[p].word = v /\ (ApplyApproval(p) \/ ApplyOther(p))
<1> USE DEF Answer
<1>1. ASSUME NEW p \in Worker, Proceeds(p) \/ Fails(p)
      PROVE  worker[p].word = v /\ (ApplyApproval(p) \/ ApplyOther(p))
  <2>1. CASE SessionRefused(p) \/ OpenCase(p) \/ Fails(p) \/ \E x \in Case, d \in Document : StartSession(p, x, d)
    BY <2>1 DEF SessionRefused, OpenCase, Fails, StartSession, vendor
  <2>2. CASE ApplyApproval(p)
    BY <2>2 DEF ApplyApproval
  <2>3. CASE ApplyOther(p)
    BY <2>3 DEF ApplyOther
  <2> QED BY <1>1, <2>1, <2>2, <2>3 DEF Proceeds, Apply
<1>2. ASSUME NEW p \in Worker, NEW a \in Account, Start(p, a) PROVE FALSE
  BY <1>2 DEF Start, PassesGate, vendor
<1>3. ASSUME NEW p \in Worker, NEW w, Callback(p, w) PROVE UnknownStatus(p, v) \/ RecordIgnored(p, v)
  <2>1. CASE UnknownStatus(p, w)
    BY <2>1 DEF UnknownStatus
  <2>2. CASE RecordIgnored(p, w)
    BY <2>2 DEF RecordIgnored
  <2>3. CASE RecordRedelivered(p, w) \/ RecordDecision(p, w)
    BY <2>3 DEF RecordRedelivered, RecordDecision, vendor
  <2> QED BY <1>3, <2>1, <2>2, <2>3 DEF Callback
<1>4. CASE \/ \E x \in Case : CaseAges(x) \/ \E word \in Word : VendorSays(x, word)
           \/ \E a \in Account, n \in Level : SetKycLevel(a, n)
           \/ UNCHANGED vars
  BY <1>4 DEF CaseAges, VendorSays, SetKycLevel, vars, vendor
<1> QED BY <1>1, <1>2, <1>3, <1>4 DEF Next

(***************************************************************************)
(* A recorded approval that nobody answered yet stays due until its case   *)
(* stops being approved or the account holds a level: no step in between,  *)
(* a double of the delivery, a newer start, an operator, a request that    *)
(* dies, answers it away (web/kyc.rs, callback and apply).  That is the    *)
(* half of ApprovedReachesTheLevel that needs no fairness.                 *)
(***************************************************************************)
THEOREM ApprovalsStayDue ==
  Spec => [][\A x \in Case : Granting(x) => Granting(x)' \/ Granted(x)']_vars
<1>1. ASSUME IInv, AppliedKnown, [Next]_vars, NEW x \in Case, Granting(x)
      PROVE  Granting(x)' \/ Granted(x)'
  <2>1. Opened(x) /\ case[x].status = "approved" /\ ~case[x].retired /\ \A p \in Worker : ~Carries(p, x, "held_duplicate")
    BY <1>1 DEF Granting, IInv, CasesKnown
  <2>2. PICK w \in Words(x) \ answered : w.status = "approved"
    BY <1>1 DEF Granting
  <2>3. Opened(x)' /\ Owner(x)' = Owner(x) /\ w \in Words(x)' /\ Owner(x) \in Account /\ w.case = x
    BY <1>1, <2>1, <2>2, CasesStay, RowsTyped DEF IInv, CasesKnown, WordsKnown
  <2> SUFFICES ASSUME case'[x].status = "approved", ~(level'[Owner(x)] >= 1)
               PROVE  Granting(x)'
    BY <2>3 DEF Granted
  <2>4. ASSUME w \in answered' PROVE FALSE
    <3>1. ASSUME NEW p \in Worker, UnknownStatus(p, w) \/ RecordIgnored(p, w) PROVE FALSE
      BY <2>1, <2>2, <2>3, <3>1 DEF UnknownStatus, RecordIgnored, Superseded, Unheard
    <3>2. ASSUME NEW p \in Worker, worker[p].word = w, At(p, "applying") PROVE worker[p].case = x
      BY <1>1, <2>3, <3>2, RequestTyped DEF IInv, RequestsKnown, ApplyingKnown, WordsKnown, At
    <3>3. ASSUME NEW p \in Worker, worker[p].word = w, ApplyApproval(p) PROVE FALSE
      <4>1. worker[p].case = x /\ level' = [level EXCEPT ![Owner(x)] = IF @ < 1 THEN 1 ELSE @]
        BY <3>2, <3>3 DEF ApplyApproval, RaiseKycLevelTo
      <4>2. level \in [Account -> 0 .. 2]
        BY <1>1 DEF IInv, TypeOK
      <4> QED BY <2>3, <4>1, <4>2
    <3>4. ASSUME NEW p \in Worker, worker[p].word = w, ApplyOther(p) PROVE FALSE
      <4>1. At(p, "applying") /\ worker[p].status # "approved" /\ worker[p].case = x
        BY <3>2, <3>4 DEF ApplyOther
      <4>2. worker[p].status = "held_duplicate"
        BY <1>1, <2>2, <3>4, <4>1 DEF AppliedKnown
      <4> QED BY <2>1, <4>1, <4>2 DEF Carries
    <3> QED BY <1>1, <2>2, <2>4, <3>1, <3>3, <3>4, WhoAnswers DEF IInv
  <2>5. ASSUME NEW q \in Worker, Carries(q, x, "held_duplicate")' PROVE FALSE
    <3>1. At(q, "applying")' /\ worker'[q].case = x /\ worker'[q].status = "held_duplicate"
      BY <2>5 DEF Carries
    <3>2. worker'[q] # worker[q]
      BY <2>1, <3>1 DEF Carries, At
    <3>3. PICK v : /\ RecordRedelivered(q, v) \/ RecordDecision(q, v)
                   /\ worker'[q].case = v.case /\ worker'[q].word = v
      BY <1>1, <3>1, <3>2, RequestsTakeUp DEF IInv
    <3>4. v.case = x
      BY <3>1, <3>3
    <3>5. ASSUME NEW status, Applies(q, v, status) PROVE status = "held_duplicate"
      BY <1>1, <3>1, <3>5 DEF Applies, Goes, IInv, TypeOK
    <3>6. CASE RecordRedelivered(q, v)
      BY <2>1, <3>4, <3>5, <3>6 DEF RecordRedelivered
    <3>7. CASE RecordDecision(q, v)
      <4>1. Verdict(v) = "held_duplicate"
        BY <3>5, <3>7 DEF RecordDecision
      <4>2. case'[x].status = Verdict(v)
        BY <1>1, <2>1, <3>4, <3>7, RowsTyped DEF RecordDecision, IInv, TypeOK, OpenedCase
      <4> QED BY <4>1, <4>2
    <3> QED BY <3>3, <3>6, <3>7
  <2> QED BY <2>2, <2>3, <2>4, <2>5 DEF Granting
<1>2. IInv /\ AppliedKnown /\ [Next]_vars => [\A x \in Case : Granting(x) => Granting(x)' \/ Granted(x)']_vars
  BY <1>1
<1> QED BY <1>2, Invariance, AppliedVerdicts, PTL DEF Spec
=============================================================================
