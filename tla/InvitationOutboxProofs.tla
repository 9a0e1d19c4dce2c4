--------------------------- MODULE InvitationOutboxProofs ---------------------------
(***************************************************************************)
(* Theorems about Invitation and about Outbox, for any submissions,        *)
(* accounts, transactions, pages and bounds.                               *)
(*                                                                         *)
(* Of the invitation, the argument turns on the lock: at most one          *)
(* submission is deciding, and nothing moves the token or the proposal     *)
(* under it, so what it read is still what is there (Current).  The        *)
(* counter, the burn and the decision then follow step by step.            *)
(*                                                                         *)
(* Of the outbox, one transaction at a time stands between its first       *)
(* append and its end (OneAppends), so what it commits comes after what is *)
(* committed (CommitsExtend), and the cursor only ever stands on a         *)
(* committed row (ReaderOnARow): that makes the log grow at its end, where *)
(* the reader has not been.  Of one account, sequences rise with positions *)
(* because a command holds the row it read (RowsAreLocked, SequencesRise), *)
(* and then whatever the reader is done with is in the mirror              *)
(* (ReadIsKnown), and both are what the events they know of leave          *)
(* (AsTold).                                                               *)
(***************************************************************************)
EXTENDS Invitation, Outbox, FiniteSetTheorems, TLAPS

(***************************************************************************)
(* The removal invitation                                                  *)
(***************************************************************************)
(* What the one deciding submission read is what the rows still hold. *)
Current ==
  /\ \A r, s \in Request : Deciding(r) /\ Deciding(s) => r = s
  /\ \A r \in Request : Deciding(r) =>
       /\ request[r].token = token
       /\ request[r].removal = removal

(* The token is spent exactly when there is a decision. *)
SpentIsDecided == token.used <=> removal.decision # "pending"

IInv ==
  /\ TypeOK
  /\ Current
  /\ SpentIsDecided
  /\ GuessesAreCapped
  /\ ConfirmedIsDecided

(* The invariant holds of an invitation that was just sent. *)
LEMMA InitInvariant == Init => IInv
<1> SUFFICES ASSUME Init PROVE IInv
  OBVIOUS
<1>1. \A r \in Request : request[r] = [phase |-> "none"]
  BY DEF Init
<1>2. TypeOK
  <2>1. [phase |-> "none"] \in RequestType
    BY DEF RequestType
  <2>2. request \in [Request -> RequestType]
    BY <2>1 DEF Init
  <2>3. removal \in Removal
    BY DEF Init, Removal, State
  <2>4. token \in Token
    BY AttemptsAssumption DEF Init, Token
  <2> QED BY <2>2, <2>3, <2>4 DEF Init, TypeOK
<1>3. Current
  BY <1>1 DEF Current, Deciding
<1>4. SpentIsDecided /\ ConfirmedIsDecided
  BY DEF Init, SpentIsDecided, ConfirmedIsDecided
<1>5. GuessesAreCapped
  BY AttemptsAssumption DEF Init, GuessesAreCapped
<1> QED BY <1>2, <1>3, <1>4, <1>5 DEF IInv

(* What a deciding submission may count on. *)
LEMMA Counting ==
  ASSUME IInv, NEW r \in Request, Counts(r)
  PROVE  /\ ~token.burned
         /\ token.attempts \in 0..(MaxAttempts - 1)
         /\ ~request[r].form.late
         /\ ~token.used => removal.state = "open"
         /\ request[r].token = token /\ request[r].removal = removal
         /\ request[r].form \in Form
<1>1. Deciding(r) /\ request[r].token = token /\ request[r].removal = removal
  BY DEF IInv, Current, Counts
<1>2. request[r].form \in Form
  BY <1>1 DEF IInv, TypeOK, RequestType, Deciding
<1>3. token.attempts \in 0..(MaxAttempts - 1)
  BY AttemptsAssumption DEF IInv, TypeOK, Token, Counts
<1> QED BY <1>1, <1>2, <1>3 DEF Counts, Answerable

(***************************************************************************)
(* An answer ends the only decision under way, whatever it did to the      *)
(* rows.                                                                   *)
(***************************************************************************)
LEMMA AnswerEnds ==
  ASSUME IInv, NEW r \in Request, Deciding(r), NEW a \in Answer, request' = Answered(r, a)
  PROVE  /\ request' \in [Request -> RequestType]
         /\ \A s \in Request : ~Deciding(s)'
<1>1. request \in [Request -> RequestType] /\ request[r].form \in Form
  BY DEF IInv, TypeOK, RequestType, Deciding
<1>2. request' = [request EXCEPT ![r] = [phase |-> "answered", form |-> request[r].form, answer |-> a]]
  BY <1>1 DEF Answered
<1>3. [phase |-> "answered", form |-> request[r].form, answer |-> a] \in RequestType
  BY <1>1 DEF RequestType
<1>4. request' \in [Request -> RequestType]
  BY <1>1, <1>2, <1>3
<1>5. ASSUME NEW s \in Request PROVE ~Deciding(s)'
  <2>1. CASE s = r  BY <1>1, <1>2, <2>1 DEF Deciding
  <2>2. CASE s # r
    <3>1. ~Deciding(s)  BY <2>2 DEF IInv, Current
    <3> QED BY <1>1, <1>2, <2>2, <3>1 DEF Deciding
  <2> QED BY <2>1, <2>2
<1> QED BY <1>4, <1>5

(* The rows as they are, or one more attempt with nothing else said. *)
LEMMA QuietKeeps ==
  ASSUME IInv, UNCHANGED <<removal, token, misses, confirmed>>
  PROVE  SpentIsDecided' /\ GuessesAreCapped' /\ ConfirmedIsDecided'
BY DEF IInv, SpentIsDecided, GuessesAreCapped, ConfirmedIsDecided

(* No step that leaves nobody deciding can leave a stale reading. *)
LEMMA NobodyIsCurrent ==
  ASSUME \A s \in Request : ~Deciding(s)'
  PROVE  Current'
BY DEF Current

LEMMA SubmitKeeps ==
  ASSUME IInv, NEW r \in Request, NEW vote \in Vote, NEW right \in BOOLEAN, Submit(r, vote, right)
  PROVE  IInv'
<1> DEFINE posted == [phase |-> "waiting", form |-> [vote |-> vote, right |-> right, late |-> late]]
<1>1. posted \in RequestType
  BY DEF IInv, TypeOK, RequestType, Form
<1>2. request \in [Request -> RequestType] /\ request' = [request EXCEPT ![r] = posted]
  BY DEF IInv, TypeOK, Submit
<1>3. TypeOK'
  BY <1>1, <1>2 DEF IInv, TypeOK, Submit
<1>4. \A s \in Request : Deciding(s)' => Deciding(s) /\ request'[s] = request[s]
  BY <1>2 DEF Deciding
<1>5. Current'
  BY <1>4 DEF IInv, Current, Submit
<1> QED BY <1>3, <1>5, QuietKeeps DEF IInv, Submit

LEMMA EnterKeeps ==
  ASSUME IInv, NEW r \in Request, Enter(r)
  PROVE  IInv'
<1> DEFINE entered == [phase |-> "deciding", form |-> request[r].form, token |-> token, removal |-> removal]
<1>1. request \in [Request -> RequestType] /\ request' = [request EXCEPT ![r] = entered]
  BY DEF IInv, TypeOK, Enter
<1>2. request[r].form \in Form
  BY <1>1 DEF RequestType, Enter
<1>3. entered \in RequestType
  BY <1>2 DEF IInv, TypeOK, RequestType
<1>4. TypeOK'
  BY <1>1, <1>3 DEF IInv, TypeOK, Enter
<1>5. \A s \in Request : Deciding(s)' => s = r
  BY <1>1 DEF Deciding, Enter, Free
<1>6. request'[r].token = token' /\ request'[r].removal = removal'
  BY <1>1 DEF Enter
<1>7. Current'
  BY <1>5, <1>6 DEF Current
<1> QED BY <1>4, <1>7, QuietKeeps DEF IInv, Enter

(* Refused, or failed on the CHECK: only the answer is new. *)
LEMMA EmptyAnswerKeeps ==
  ASSUME IInv, NEW r \in Request, Refuse(r) \/ CheckFails(r)
  PROVE  IInv'
<1>1. PICK a \in Answer : Deciding(r) /\ request' = Answered(r, a)
  BY DEF Refuse, CheckFails, Answer
<1>2. request' \in [Request -> RequestType] /\ \A s \in Request : ~Deciding(s)'
  BY <1>1, AnswerEnds
<1>3. UNCHANGED <<removal, token, late, misses, confirmed>>
  BY DEF Refuse, CheckFails
<1>4. TypeOK'
  BY <1>2, <1>3 DEF IInv, TypeOK
<1> QED BY <1>2, <1>3, <1>4, NobodyIsCurrent, QuietKeeps DEF IInv

LEMMA WrongCodeKeeps ==
  ASSUME IInv, NEW r \in Request, WrongCode(r)
  PROVE  IInv'
<1>1. /\ ~token.burned
      /\ token.attempts \in 0..(MaxAttempts - 1)
  BY Counting DEF WrongCode
<1>2. request' \in [Request -> RequestType] /\ \A s \in Request : ~Deciding(s)'
  BY AnswerEnds DEF WrongCode, Counts, Answer
<1> DEFINE last == token.attempts + 1 >= MaxAttempts
<1>3. /\ token' \in Token
      /\ token'.attempts = token.attempts + 1
      /\ token'.used = token.used
      /\ token'.burned = last
  <2>1. token' = [attempts |-> token.attempts + 1, burned |-> last, used |-> token.used]
    BY DEF WrongCode, OneMoreAttempt
  <2>2. last \in BOOLEAN /\ token.used \in BOOLEAN /\ token.attempts + 1 \in 0..MaxAttempts
    BY <1>1, AttemptsAssumption DEF IInv, TypeOK, Token
  <2> HIDE DEF last
  <2> QED BY <2>1, <2>2 DEF Token
<1>4. token'.burned <=> token'.attempts = MaxAttempts
  <2>1. last <=> token.attempts + 1 = MaxAttempts
    BY <1>1, AttemptsAssumption
  <2> HIDE DEF last
  <2> QED BY <1>3, <2>1
<1> HIDE DEF last
<1>5. UNCHANGED <<removal, late, confirmed>> /\ misses' = misses + 1
  BY DEF WrongCode
<1>6. TypeOK'
  BY <1>2, <1>3, <1>4, <1>5 DEF IInv, TypeOK
<1>7. misses' <= token'.attempts /\ token'.attempts \in 0..MaxAttempts
  BY <1>1, <1>3, <1>5, AttemptsAssumption DEF IInv, TypeOK, GuessesAreCapped
<1>8. GuessesAreCapped'
  <2>1. misses' = MaxAttempts => token'.attempts = MaxAttempts
    BY <1>7, AttemptsAssumption
  <2> QED BY <1>4, <1>7, <2>1 DEF GuessesAreCapped
<1> QED BY <1>2, <1>3, <1>5, <1>6, <1>8, NobodyIsCurrent
       DEF IInv, SpentIsDecided, ConfirmedIsDecided

LEMMA RepeatKeeps ==
  ASSUME IInv, NEW r \in Request, Repeat(r)
  PROVE  IInv'
<1> DEFINE form == request[r].form
<1>1. /\ ~token.burned
      /\ token.attempts \in 0..(MaxAttempts - 1)
      /\ request[r].removal = removal
      /\ form.vote \in Vote
  BY Counting DEF Repeat, Form
<1>2. request' \in [Request -> RequestType] /\ \A s \in Request : ~Deciding(s)'
  BY AnswerEnds DEF Repeat, Counts, Answer
<1>3. UNCHANGED <<removal, late, misses>>
  BY DEF Repeat
<1>4. CASE form.vote = removal.decision
  <2>1. /\ token' = OneMoreAttempt(token.burned, token.used)
        /\ confirmed' = confirmed \union {form.vote}
    BY <1>1, <1>4 DEF Repeat
  <2>2. /\ token' \in Token
        /\ token'.attempts = token.attempts + 1
        /\ token'.used = token.used
        /\ ~token'.burned
    BY <1>1, <2>1, AttemptsAssumption DEF OneMoreAttempt, IInv, TypeOK, Token
  <2>3. TypeOK'
    BY <1>1, <1>2, <1>3, <2>1, <2>2 DEF IInv, TypeOK
  <2>4. GuessesAreCapped'
    BY <1>1, <1>3, <2>2, AttemptsAssumption DEF IInv, TypeOK, GuessesAreCapped
  <2> QED BY <1>2, <1>3, <1>4, <2>1, <2>2, <2>3, <2>4, NobodyIsCurrent
         DEF IInv, SpentIsDecided, ConfirmedIsDecided
<1>5. CASE form.vote # removal.decision
  <2>1. UNCHANGED <<removal, token, late, misses, confirmed>>
    BY <1>1, <1>3, <1>5 DEF Repeat
  <2>2. TypeOK'
    BY <1>2, <2>1 DEF IInv, TypeOK
  <2> QED BY <1>2, <2>1, <2>2, NobodyIsCurrent, QuietKeeps DEF IInv
<1> QED BY <1>4, <1>5

(* Nothing was confirmed before the decision, so what is confirmed is it. *)
LEMMA DecideKeeps ==
  ASSUME IInv, NEW r \in Request, Decide(r)
  PROVE  IInv'
<1> DEFINE form == request[r].form
<1>1. /\ ~token.burned
      /\ ~token.used
      /\ token.attempts \in 0..(MaxAttempts - 1)
      /\ form.vote \in Vote
  BY Counting DEF Decide, Form
<1>2. request' \in [Request -> RequestType] /\ \A s \in Request : ~Deciding(s)'
  BY AnswerEnds DEF Decide, Counts, Answer
<1>3. /\ token' \in Token
      /\ token'.attempts = token.attempts + 1
      /\ token'.used
      /\ ~token'.burned
  BY <1>1, AttemptsAssumption DEF Decide, OneMoreAttempt, IInv, TypeOK, Token
<1>4. removal' \in Removal /\ removal'.decision = form.vote /\ form.vote # "pending"
  BY <1>1 DEF Decide, StateAfter, Removal, State, Vote
<1>5. confirmed = {}
  BY <1>1 DEF IInv, TypeOK, SpentIsDecided, ConfirmedIsDecided, Vote
<1>6. confirmed' = {form.vote}
  BY <1>5 DEF Decide
<1>7. UNCHANGED <<late, misses>>
  BY DEF Decide
<1>8. TypeOK'
  BY <1>1, <1>2, <1>3, <1>4, <1>6, <1>7 DEF IInv, TypeOK
<1>9. GuessesAreCapped'
  BY <1>1, <1>3, <1>7, AttemptsAssumption DEF IInv, TypeOK, GuessesAreCapped
<1> QED BY <1>2, <1>3, <1>4, <1>6, <1>8, <1>9, NobodyIsCurrent
       DEF IInv, SpentIsDecided, ConfirmedIsDecided

LEMMA DieKeeps ==
  ASSUME IInv, NEW r \in Request, Die(r)
  PROVE  IInv'
<1>1. request \in [Request -> RequestType] /\ request' = [request EXCEPT ![r] = [phase |-> "none"]]
  BY DEF IInv, TypeOK, Die
<1>2. [phase |-> "none"] \in RequestType
  BY DEF RequestType
<1>3. TypeOK'
  BY <1>1, <1>2 DEF IInv, TypeOK, Die
<1>4. \A s \in Request : Deciding(s)' => Deciding(s) /\ request'[s] = request[s]
  BY <1>1 DEF Deciding
<1>5. Current'
  BY <1>4 DEF IInv, Current, Die
<1> QED BY <1>3, <1>5, QuietKeeps DEF IInv, Die

(* The rest of the world moves the proposal only while nobody is deciding. *)
LEMMA OthersKeep ==
  ASSUME IInv, CloseRemoval \/ Deadline \/ Expire
  PROVE  IInv'
<1>1. UNCHANGED <<token, request, misses, confirmed>>
  BY DEF CloseRemoval, Deadline, Expire
<1>2. removal' \in Removal /\ removal'.decision = removal.decision
  BY DEF CloseRemoval, Deadline, Expire, IInv, TypeOK, Removal, State
<1>3. late' \in BOOLEAN
  BY DEF CloseRemoval, Deadline, Expire, IInv, TypeOK
<1>4. TypeOK'
  BY <1>1, <1>2, <1>3 DEF IInv, TypeOK
<1>5. removal' = removal \/ \A s \in Request : ~Deciding(s)
  BY DEF CloseRemoval, Deadline, Expire, Free
<1>6. \A s \in Request : Deciding(s)' <=> Deciding(s)
  BY <1>1 DEF Deciding
<1>7. Current'
  BY <1>1, <1>5, <1>6 DEF IInv, Current
<1> QED BY <1>1, <1>2, <1>4, <1>7
       DEF IInv, SpentIsDecided, GuessesAreCapped, ConfirmedIsDecided

(* Every step keeps the invariant. *)
LEMMA StepInvariant == IInv /\ [Next]_vars => IInv'
<1> SUFFICES ASSUME IInv, [Next]_vars PROVE IInv'
  OBVIOUS
<1>1. CASE \E r \in Request : \E vote \in Vote, right \in BOOLEAN : Submit(r, vote, right)
  BY <1>1, SubmitKeeps
<1>2. CASE \E r \in Request : Enter(r)  BY <1>2, EnterKeeps
<1>3. CASE \E r \in Request : Refuse(r) \/ CheckFails(r)  BY <1>3, EmptyAnswerKeeps
<1>4. CASE \E r \in Request : WrongCode(r)  BY <1>4, WrongCodeKeeps
<1>5. CASE \E r \in Request : Repeat(r)  BY <1>5, RepeatKeeps
<1>6. CASE \E r \in Request : Decide(r)  BY <1>6, DecideKeeps
<1>7. CASE \E r \in Request : Die(r)  BY <1>7, DieKeeps
<1>8. CASE CloseRemoval \/ Deadline \/ Expire  BY <1>8, OthersKeep
<1>9. CASE UNCHANGED vars
  BY <1>9 DEF vars, IInv, TypeOK, Current, Deciding, SpentIsDecided, GuessesAreCapped, ConfirmedIsDecided
<1> QED BY <1>1, <1>2, <1>3, <1>4, <1>5, <1>6, <1>7, <1>8, <1>9 DEF Next

LEMMA Invariance == Spec => []IInv
BY InitInvariant, StepInvariant, PTL DEF Spec

(***************************************************************************)
(* The theorems                                                            *)
(***************************************************************************)

(* Every reachable state of an invitation is well typed, and the table's   *)
(* CHECKs are never what stops a burn.                                     *)
THEOREM TypeCorrect == Spec => []TypeOK
<1>1. IInv => TypeOK  BY DEF IInv
<1> QED BY <1>1, Invariance, PTL

(* No interleaving of submissions gets more codes refused than the cap.    *)
THEOREM CapHolds == Spec => []GuessesAreCapped
<1>1. IInv => GuessesAreCapped  BY DEF IInv
<1> QED BY <1>1, Invariance, PTL

(* Whatever anyone was told had been recorded is the decision.             *)
THEOREM ConfirmationsAreTrue == Spec => []ConfirmedIsDecided
<1>1. IInv => ConfirmedIsDecided  BY DEF IInv
<1> QED BY <1>1, Invariance, PTL

(* The target decides once, in time, with the right code, and while the    *)
(* proposal is open.                                                       *)
THEOREM DecisionIsOneShot == Spec => DecidesOnce
<1> DEFINE Lawful ==
      removal'.decision # removal.decision =>
        /\ removal.decision = "pending"
        /\ removal.state = "open"
        /\ ~token.burned
        /\ \E r \in Request :
             Deciding(r) /\ request[r].form = [vote |-> removal'.decision, right |-> TRUE, late |-> FALSE]
<1>1. ASSUME IInv, NEW r \in Request, Decide(r) PROVE Lawful
  <2>1. /\ ~token.burned /\ ~token.used /\ removal.state = "open"
        /\ ~request[r].form.late
        /\ request[r].form \in Form
    BY <1>1, Counting DEF Decide
  <2>2. removal'.decision = request[r].form.vote /\ request[r].form.right
    BY <1>1 DEF Decide
  <2>3. request[r].form = [vote |-> removal'.decision, right |-> TRUE, late |-> FALSE]
    BY <2>1, <2>2 DEF Form
  <2>4. removal.decision = "pending"
    BY <1>1, <2>1 DEF IInv, SpentIsDecided
  <2> QED BY <1>1, <2>1, <2>3, <2>4 DEF Decide, Counts
<1>2. ASSUME IInv, [Next]_vars, ~\E r \in Request : Decide(r) PROVE removal'.decision = removal.decision
  BY <1>2 DEF Next, vars, Submit, Enter, Refuse, CheckFails, WrongCode, Repeat, Die,
              CloseRemoval, Deadline, Expire, IInv, TypeOK, Removal
<1>3. IInv /\ [Next]_vars => [Lawful]_vars
  BY <1>1, <1>2
<1> QED BY <1>3, Invariance, PTL DEF Spec, DecidesOnce

(* A closed proposal's unspent token is never charged for anything.        *)
THEOREM ClosedIsFree == Spec => ClosedCostsNothing
<1>1. ASSUME IInv, [Next]_vars, removal.state # "open", ~token.used
      PROVE  UNCHANGED token
  <2>1. ASSUME NEW r \in Request PROVE ~Counts(r)
    BY <1>1, <2>1, Counting
  <2>2. ~\E r \in Request : WrongCode(r) \/ Repeat(r) \/ Decide(r)
    BY <2>1 DEF WrongCode, Repeat, Decide
  <2> QED BY <1>1, <2>2 DEF Next, vars, Submit, Enter, Refuse, CheckFails, Die, CloseRemoval, Deadline, Expire
<1>2. IInv /\ [Next]_vars => [removal.state # "open" /\ ~token.used => UNCHANGED token]_vars
  BY <1>1
<1> QED BY <1>2, Invariance, PTL DEF Spec, ClosedCostsNothing

(***************************************************************************)
(* Ranks                                                                   *)
(***************************************************************************)

(* How many members of S have a key up to that of e. *)
Rank(S, key, e) == Cardinality({f \in S : key[f] <= key[e]})

(* Ranks are told apart by the keys, and every number up to the size of    *)
(* the set is one.                                                         *)
LEMMA Ranks ==
  ASSUME NEW S, IsFiniteSet(S), NEW key \in [S -> Nat], \A e, f \in S : key[e] = key[f] => e = f
  PROVE  /\ Cardinality(S) \in Nat
         /\ \A e \in S : Rank(S, key, e) \in 1..Cardinality(S)
         /\ \A e, f \in S : key[e] < key[f] => Rank(S, key, e) < Rank(S, key, f)
         /\ \A i \in 1..Cardinality(S) : \E e \in S : Rank(S, key, e) = i
<1> DEFINE UpTo(e) == {f \in S : key[f] <= key[e]}
           rank == [e \in S |-> Cardinality(UpTo(e))]
<1>1. Cardinality(S) \in Nat
  BY FS_CardinalityType
<1>2. ASSUME NEW e \in S
      PROVE  /\ IsFiniteSet(UpTo(e)) /\ Cardinality(UpTo(e)) \in Nat
             /\ Cardinality(UpTo(e)) \in 1..Cardinality(S)
  <2>1. UpTo(e) \in SUBSET S /\ e \in UpTo(e)
    OBVIOUS
  <2>2. IsFiniteSet(UpTo(e)) /\ Cardinality(UpTo(e)) <= Cardinality(S)
    BY <2>1, FS_Subset
  <2>3. Cardinality(UpTo(e)) \in Nat /\ Cardinality(UpTo(e)) # 0
    BY <2>1, <2>2, FS_CardinalityType, FS_EmptySet
  <2> QED BY <1>1, <2>2, <2>3
<1>3. ASSUME NEW e \in S, NEW f \in S, key[e] < key[f]
      PROVE  Cardinality(UpTo(e)) < Cardinality(UpTo(f))
  <2>1. UpTo(e) \in SUBSET UpTo(f) /\ f \in UpTo(f) /\ f \notin UpTo(e)
    BY <1>3
  <2>2. Cardinality(UpTo(e)) <= Cardinality(UpTo(f)) /\ Cardinality(UpTo(e)) # Cardinality(UpTo(f))
    <3>1. UpTo(e) # UpTo(f)
      BY <2>1
    <3>2. IsFiniteSet(UpTo(f))
      BY <1>2
    <3> HIDE DEF UpTo
    <3> QED BY <2>1, <3>1, <3>2, FS_Subset
  <2> QED BY <2>2, <1>2
<1>4. rank \in Injection(S, 1..Cardinality(S))
  <2>1. rank \in [S -> 1..Cardinality(S)]
    BY <1>2
  <2>2. ASSUME NEW e \in S, NEW f \in S, rank[e] = rank[f] PROVE e = f
    <3>1. Cardinality(UpTo(e)) = Cardinality(UpTo(f))
      BY <2>2
    <3>2. Cardinality(UpTo(e)) \in Nat
      BY <1>2
    <3> HIDE DEF UpTo
    <3>3. ~(key[e] < key[f]) /\ ~(key[f] < key[e])
      BY <1>3, <3>1, <3>2
    <3> QED BY <3>3
  <2> HIDE DEF rank
  <2> QED BY <2>1, <2>2 DEF Injection, IsInjective
<1>5. rank \in Surjection(S, 1..Cardinality(S))
  <2>1. IsFiniteSet(1..Cardinality(S)) /\ Cardinality(1..Cardinality(S)) = Cardinality(S)
    BY <1>1, FS_Interval
  <2> HIDE DEF rank
  <2> QED BY <1>4, <2>1, FS_Injection
<1>6. \A i \in 1..Cardinality(S) : \E e \in S : rank[e] = i
  <2> HIDE DEF rank
  <2> QED BY <1>5 DEF Surjection
<1> QED BY <1>1, <1>2, <1>3, <1>6 DEF Rank

(***************************************************************************)
(* Rows in the order of their positions                                    *)
(***************************************************************************)

(* A finite set of rows no two of which share a position. *)
Ordered(S) ==
  /\ IsFiniteSet(S)
  /\ S \subseteq EntryType
  /\ \A e, f \in S : e.position = f.position => e = f

Place(S, e) == Cardinality({f \in S : f.position <= e.position})

(* Each place of such a set is taken by one row. *)
LEMMA Places ==
  ASSUME NEW S, Ordered(S)
  PROVE  /\ Cardinality(S) \in Nat
         /\ \A e \in S : Place(S, e) \in 1..Cardinality(S)
         /\ \A e, f \in S : Place(S, e) = Place(S, f) => e = f
         /\ \A i \in 1..Cardinality(S) : \E e \in S : Place(S, e) = i
<1> DEFINE key == [e \in S |-> e.position]
<1>1. key \in [S -> Nat] /\ \A e, f \in S : key[e] = key[f] => e = f
  BY DEF Ordered, EntryType
<1>2. \A e \in S : Rank(S, key, e) = Place(S, e)
  <2> SUFFICES ASSUME NEW e \in S PROVE Rank(S, key, e) = Place(S, e)
    OBVIOUS
  <2>1. {f \in S : key[f] <= key[e]} = {f \in S : f.position <= e.position}
    OBVIOUS
  <2> QED BY <2>1 DEF Rank, Place
<1>3. IsFiniteSet(S)
  BY DEF Ordered
<1> HIDE DEF key
<1>4. /\ Cardinality(S) \in Nat
      /\ \A e \in S : Rank(S, key, e) \in 1..Cardinality(S)
      /\ \A e, f \in S : key[e] < key[f] => Rank(S, key, e) < Rank(S, key, f)
      /\ \A i \in 1..Cardinality(S) : \E e \in S : Rank(S, key, e) = i
  BY <1>1, <1>3, Ranks
<1>5. \A e, f \in S : Rank(S, key, e) = Rank(S, key, f) => e = f
  <2> SUFFICES ASSUME NEW e \in S, NEW f \in S, Rank(S, key, e) = Rank(S, key, f) PROVE e = f
    OBVIOUS
  <2>1. ~(key[e] < key[f]) /\ ~(key[f] < key[e])
    BY <1>4
  <2>2. key[e] \in Nat /\ key[f] \in Nat
    BY <1>1
  <2>3. key[e] = key[f]
    BY <2>1, <2>2
  <2> QED BY <1>1, <2>3
<1> QED BY <1>2, <1>4, <1>5

(* What is appended after every row of S leaves the places of S alone. *)
LEMMA PlacesStay ==
  ASSUME NEW S, NEW A, Ordered(S), Ordered(S \union A), \A e \in S, a \in A : e.position < a.position
  PROVE  /\ \A e \in S : Place(S \union A, e) = Place(S, e)
         /\ \A a \in A : Place(S \union A, a) > Cardinality(S)
<1> DEFINE T == S \union A
<1>1. ASSUME NEW e \in S PROVE Place(S \union A, e) = Place(S, e)
  <2>1. \A a \in A : ~(a.position <= e.position)
    BY DEF Ordered, EntryType
  <2>2. {f \in S \union A : f.position <= e.position} = {f \in S : f.position <= e.position}
    BY <2>1
  <2> QED BY <2>2 DEF Place
<1>2. ASSUME NEW a \in A PROVE Place(S \union A, a) > Cardinality(S)
  <2> DEFINE U == {f \in S \union A : f.position <= a.position}
  <2>1. S \in SUBSET U /\ a \in U /\ a \notin S
    BY DEF Ordered, EntryType
  <2>2. IsFiniteSet(U)
    BY FS_Subset DEF Ordered
  <2>3. U # S
    BY <2>1
  <2> HIDE DEF U
  <2>4. Cardinality(S) <= Cardinality(U) /\ Cardinality(U) # Cardinality(S)
    BY <2>1, <2>2, <2>3, FS_Subset
  <2>5. Cardinality(S) \in Nat /\ Cardinality(U) \in Nat
    BY <2>2, FS_CardinalityType DEF Ordered
  <2>6. Place(S \union A, a) = Cardinality(U)
    BY DEF Place, U
  <2> QED BY <2>4, <2>5, <2>6
<1> QED BY <1>1, <1>2

(***************************************************************************)
(* The log                                                                 *)
(***************************************************************************)

LogOf(S) == [i \in 1..Cardinality(S) |-> CHOOSE e \in S : Cardinality({f \in S : f.position <= e.position}) = i]

(* The log of a set of rows is a sequence of them, each at its place. *)
LEMMA LogType ==
  ASSUME NEW S, Ordered(S)
  PROVE  /\ LogOf(S) \in Seq(S)
         /\ Len(LogOf(S)) = Cardinality(S)
         /\ \A i \in 1..Cardinality(S) : LogOf(S)[i] \in S /\ Place(S, LogOf(S)[i]) = i
<1>1. ASSUME NEW i \in 1..Cardinality(S)
      PROVE  LogOf(S)[i] \in S /\ Place(S, LogOf(S)[i]) = i
  <2>1. \E e \in S : Place(S, e) = i
    BY Places
  <2>2. LogOf(S)[i] = CHOOSE e \in S : Place(S, e) = i
    BY DEF LogOf, Place
  <2> QED BY <2>1, <2>2
<1>2. Cardinality(S) \in Nat
  BY Places
<1>3. LogOf(S) \in [1..Cardinality(S) -> S]
  BY <1>1 DEF LogOf
<1> QED BY <1>1, <1>2, <1>3

(* Rows that come after every row of S extend its log at the end. *)
LEMMA LogGrows ==
  ASSUME NEW S, NEW A, Ordered(S), Ordered(S \union A), \A e \in S, a \in A : e.position < a.position,
         A # {}
  PROVE  /\ Len(LogOf(S \union A)) > Len(LogOf(S))
         /\ SubSeq(LogOf(S \union A), 1, Len(LogOf(S))) = LogOf(S)
<1> DEFINE T == S \union A
           n == Cardinality(S)
<1>1. n \in Nat /\ Cardinality(T) \in Nat
  BY Places
<1>2. n < Cardinality(T)
  <2>1. PICK a \in A : TRUE
    OBVIOUS
  <2>2. Place(T, a) > n /\ Place(T, a) \in 1..Cardinality(T)
    BY PlacesStay, Places
  <2> QED BY <1>1, <2>2
<1>3. /\ LogOf(S) \in Seq(S) /\ Len(LogOf(S)) = n
      /\ LogOf(T) \in Seq(T) /\ Len(LogOf(T)) = Cardinality(T)
  BY LogType
<1>4. ASSUME NEW i \in 1..n PROVE LogOf(T)[i] = LogOf(S)[i]
  <2>1. i \in 1..Cardinality(T)
    BY <1>1, <1>2
  <2>2. LogOf(S)[i] \in S /\ Place(S, LogOf(S)[i]) = i
    BY LogType
  <2>3. LogOf(T)[i] \in T /\ Place(T, LogOf(T)[i]) = i
    BY LogType, <2>1
  <2>4. Place(T, LogOf(S)[i]) = i
    BY <2>2, PlacesStay
  <2> QED BY <2>2, <2>3, <2>4, Places
<1>5. SubSeq(LogOf(T), 1, n) = LogOf(S)
  <2> HIDE DEF T, n
  <2>1. SubSeq(LogOf(T), 1, n) = [i \in 1..n |-> LogOf(T)[i]]
    BY <1>1, <1>2, <1>3
  <2>2. LogOf(S) = [i \in 1..n |-> LogOf(S)[i]]
    BY <1>1, <1>3
  <2> QED BY <1>4, <2>1, <2>2
<1> QED BY <1>1, <1>2, <1>3, <1>5

(***************************************************************************)
(* The invariant                                                           *)
(***************************************************************************)

(* What a transaction has appended and not committed. *)
Batch(t) == IF tx[t].open THEN tx[t].entries ELSE {}

(* One transaction at a time stands between its first append and its end. *)
OneAppends ==
  /\ \A s, t \in Tx : Batch(s) # {} /\ Batch(t) # {} => s = t
  /\ boot.entries # {} => \A t \in Tx : Batch(t) = {}

(* What it will commit comes after everything committed. *)
Later(B) == Ordered(B) /\ \A e \in B : e.position <= drawn /\ \A f \in outbox : f.position < e.position

CommitsExtend ==
  /\ Ordered(outbox)
  /\ \A e \in outbox : e.position <= drawn
  /\ Later(boot.entries)
  /\ \A t \in Tx : Later(Batch(t))

(* The cursor stands on a committed row, and so does what it will move to. *)
ReaderOnARow ==
  /\ cursor = 0 \/ \E e \in outbox : e.position = cursor
  /\ answer.open => cursor < answer.next /\ \E e \in outbox : e.position = answer.next

FeedInv == OutboxTypeOK /\ OneAppends /\ CommitsExtend /\ ReaderOnARow

(* The invariant holds of an empty outbox. *)
LEMMA OutboxInitInvariant == OutboxInit => FeedInv
<1> SUFFICES ASSUME OutboxInit PROVE FeedInv
  OBVIOUS
<1>1. OutboxTypeOK
  <2>1. row \in [User -> RowType]
    BY DEF OutboxInit, RowType
  <2>2. tx \in [Tx -> TxType]
    BY DEF OutboxInit, TxType
  <2>3. boot \in BootType
    BY BoundsAssumption DEF OutboxInit, BootType, Quiet
  <2>4. answer \in AnswerType
    BY DEF OutboxInit, AnswerType
  <2>5. mirror \in [User -> [sequence : Nat, frozen : BOOLEAN]]
    BY DEF OutboxInit
  <2>6. drawn \in Nat /\ outbox \subseteq EntryType /\ meaning \in 0..MaxGeneration /\ cursor \in Nat
    BY BoundsAssumption DEF OutboxInit
  <2> QED BY <2>1, <2>2, <2>3, <2>4, <2>5, <2>6 DEF OutboxTypeOK
<1>2. \A t \in Tx : Batch(t) = {}
  BY DEF OutboxInit, Batch, Idle
<1>3. boot.entries = {} /\ outbox = {} /\ cursor = 0 /\ ~answer.open
  BY DEF OutboxInit, Quiet, Nobody
<1>4. Ordered({})
  BY FS_EmptySet DEF Ordered
<1> QED BY <1>1, <1>2, <1>3, <1>4 DEF FeedInv, OneAppends, CommitsExtend, ReaderOnARow, Later

(* An open transaction, field by field. *)
LEMMA OpenTx ==
  ASSUME OutboxTypeOK, NEW t \in Tx, tx[t].open
  PROVE  /\ tx[t] \in [open : {TRUE}, user : User, row : RowType, kind : Kind \union {"none"}, entries : SUBSET EntryType]
         /\ Batch(t) = tx[t].entries
<1>1. tx[t] \in TxType
  BY DEF OutboxTypeOK
<1>2. tx[t] # Idle
  BY DEF Idle
<1> QED BY <1>1, <1>2 DEF TxType, Batch

(* A page being worked through, field by field. *)
LEMMA OpenAnswer ==
  ASSUME OutboxTypeOK, answer.open
  PROVE  answer \in [open : {TRUE}, left : SUBSET EntryType, next : Nat]
<1>1. answer # Nobody
  BY DEF Nobody
<1> QED BY <1>1 DEF OutboxTypeOK, AnswerType

(* Types, one account's transaction at a time. *)
LEMMA TxTypes ==
  ASSUME OutboxTypeOK, NEW t \in Tx,
         (\E u \in User : Begin(t, u)) \/ AppendEvent(t) \/ Commit(t) \/ Rollback(t)
  PROVE  OutboxTypeOK'
<1>1. ASSUME NEW u \in User, Begin(t, u) PROVE OutboxTypeOK'
  <2>1. PICK o \in Outcome(row[u]) :
          tx' = [tx EXCEPT ![t] = [open |-> TRUE, user |-> u, row |-> o.row, kind |-> o.kind, entries |-> {}]]
    BY <1>1 DEF Begin
  <2>2. row[u].version \in Nat /\ row[u] = [version |-> row[u].version, active |-> row[u].active] /\ row[u].active \in BOOLEAN
    BY DEF OutboxTypeOK, RowType
  <2>3. o.row \in RowType /\ o.kind \in Kind \union {"none"}
    <3> DEFINE r == row[u]
    <3> HIDE DEF r
    <3>1. r.version \in Nat /\ r = [version |-> r.version, active |-> r.active] /\ r.active \in BOOLEAN
      BY <2>2 DEF r
    <3> DEFINE flipped == ~r.active
               bumped == [r EXCEPT !.version = @ + 1]
    <3>2. bumped \in RowType /\ flipped \in BOOLEAN
      BY <3>1 DEF RowType
    <3>3. \/ o = [row |-> [version |-> 1, active |-> TRUE], kind |-> "CREATED"]
          \/ o = [row |-> bumped, kind |-> "SESSIONS_REVOKED"]
          \/ o = [row |-> bumped, kind |-> "none"]
          \/ o = [row |-> [version |-> r.version + 1, active |-> flipped],
                  kind |-> IF r.active THEN "SUSPENDED" ELSE "REINSTATED"]
      BY <2>1, Zenon DEF r, Outcome
    <3> HIDE DEF flipped, bumped
    <3>4. [version |-> r.version + 1, active |-> flipped] \in RowType /\ [version |-> 1, active |-> TRUE] \in RowType
      BY <3>1, <3>2 DEF RowType
    <3>5. o.row \in RowType
      <4>1. CASE o = [row |-> [version |-> 1, active |-> TRUE], kind |-> "CREATED"]
        BY <3>4, <4>1
      <4>2. CASE o.row = bumped
        BY <3>2, <4>2
      <4>3. ASSUME NEW k, o = [row |-> [version |-> r.version + 1, active |-> flipped], kind |-> k]
            PROVE  o.row \in RowType
        BY <3>4, <4>3
      <4> QED BY <3>3, <4>1, <4>2, <4>3
    <3>6. o.kind \in Kind \union {"none"}
      BY <3>3 DEF Kind
    <3> QED BY <3>5, <3>6
  <2>4. [open |-> TRUE, user |-> u, row |-> o.row, kind |-> o.kind, entries |-> {}] \in TxType
    BY <2>3 DEF TxType
  <2>5. tx' \in [Tx -> TxType]
    BY <2>1, <2>4 DEF OutboxTypeOK
  <2> QED BY <1>1, <2>5 DEF Begin, consumer, OutboxTypeOK
<1>2. CASE AppendEvent(t)
  <2> DEFINE e == Entry(drawn + 1, tx[t].user, tx[t].kind, Stamp(t), meaning)
  <2>1. /\ tx' = [tx EXCEPT ![t].entries = {e}] /\ drawn' = drawn + 1
        /\ tx[t].open /\ tx[t].kind # "none"
    BY <1>2 DEF AppendEvent
  <2>2. tx[t] \in [open : {TRUE}, user : User, row : RowType, kind : Kind \union {"none"}, entries : SUBSET EntryType]
    BY <2>1, OpenTx
  <2>3. e \in EntryType
    BY <2>1, <2>2 DEF OutboxTypeOK, EntryType, Entry, Stamp, RowType
  <2> HIDE DEF e
  <2>4. [tx[t] EXCEPT !.entries = {e}] \in TxType
    BY <2>2, <2>3 DEF TxType
  <2>5. tx' = [tx EXCEPT ![t] = [tx[t] EXCEPT !.entries = {e}]]
    BY <2>1
  <2>6. tx' \in [Tx -> TxType] /\ drawn' \in Nat
    BY <2>1, <2>4, <2>5 DEF OutboxTypeOK
  <2> QED BY <1>2, <2>6 DEF AppendEvent, consumer, OutboxTypeOK
<1>3. CASE Commit(t)
  <2>1. tx[t] \in [open : {TRUE}, user : User, row : RowType, kind : Kind \union {"none"}, entries : SUBSET EntryType]
    BY <1>3, OpenTx DEF Commit
  <2>2. row' \in [User -> RowType] /\ outbox' \subseteq EntryType
    BY <1>3, <2>1 DEF Commit, OutboxTypeOK
  <2>3. tx' \in [Tx -> TxType]
    BY <1>3 DEF Commit, OutboxTypeOK, TxType
  <2> QED BY <1>3, <2>2, <2>3 DEF Commit, consumer, OutboxTypeOK
<1>4. CASE Rollback(t)
  <2>1. tx' \in [Tx -> TxType]
    BY <1>4 DEF Rollback, OutboxTypeOK, TxType
  <2> QED BY <1>4, <2>1 DEF Rollback, consumer, OutboxTypeOK
<1> QED BY <1>1, <1>2, <1>3, <1>4

Announces ==
  Announce \/ (\E u \in User : AnnounceLocks(u)) \/ AnnounceAppends \/ AnnounceCommits \/ AnnounceFails

Reads == Pull \/ Apply \/ Advance \/ Lose

(* The batch of an announcement: one row for each account it has locked. *)
Announced ==
  {Entry(drawn + Cardinality({v \in boot.mine : v <= u}), u, "PERMISSIONS_CHANGED",
         row[u].version + 1, boot.states) : u \in boot.mine}

(* Its positions are the ones drawn for it, each once. *)
LEMMA AnnouncedOrdered ==
  ASSUME OutboxTypeOK
  PROVE  /\ Ordered(Announced)
         /\ \A e \in Announced : drawn < e.position /\ e.position <= drawn + Cardinality(boot.mine)
<1> DEFINE mine == boot.mine
           key == [u \in mine |-> u]
           place(u) == Cardinality({v \in mine : v <= u})
           entry(u) == Entry(drawn + place(u), u, "PERMISSIONS_CHANGED", row[u].version + 1, boot.states)
<1>1. mine \in SUBSET User /\ boot.states \in 0..MaxGeneration /\ drawn \in Nat
  BY DEF OutboxTypeOK, BootType
<1>2. IsFiniteSet(mine) /\ mine \subseteq Nat
  BY <1>1, UserAssumption, FS_Subset
<1>3. key \in [mine -> Nat] /\ \A u, v \in mine : key[u] = key[v] => u = v
  BY <1>2
<1>4. \A u \in mine : Rank(mine, key, u) = place(u)
  <2> SUFFICES ASSUME NEW u \in mine PROVE Rank(mine, key, u) = place(u)
    OBVIOUS
  <2>1. {v \in mine : key[v] <= key[u]} = {v \in mine : v <= u}
    OBVIOUS
  <2> QED BY <2>1 DEF Rank
<1> HIDE DEF key
<1>5. /\ Cardinality(mine) \in Nat
      /\ \A u \in mine : Rank(mine, key, u) \in 1..Cardinality(mine)
      /\ \A u, v \in mine : key[u] < key[v] => Rank(mine, key, u) < Rank(mine, key, v)
  BY <1>2, <1>3, Ranks
<1>6. \A u \in mine : place(u) \in 1..Cardinality(mine)
  BY <1>4, <1>5
<1>7. \A u, v \in mine : place(u) = place(v) => u = v
  <2> SUFFICES ASSUME NEW u \in mine, NEW v \in mine, place(u) = place(v) PROVE u = v
    OBVIOUS
  <2>1. ~(key[u] < key[v]) /\ ~(key[v] < key[u])
    <3>1. Rank(mine, key, u) = Rank(mine, key, v)
      BY <1>4
    <3>2. Rank(mine, key, u) \in Nat
      BY <1>5
    <3> HIDE DEF place
    <3> QED BY <1>5, <3>1, <3>2
  <2>2. key[u] \in Nat /\ key[v] \in Nat
    BY <1>3
  <2> QED BY <1>3, <2>1, <2>2
<1> HIDE DEF place
<1>8. Announced = {entry(u) : u \in mine}
  BY DEF Announced, place
<1>9. ASSUME NEW u \in mine PROVE entry(u) \in EntryType /\ entry(u).position = drawn + place(u)
  <2>1. row[u].version + 1 \in Nat
    BY <1>1 DEF OutboxTypeOK, RowType
  <2> QED BY <1>1, <1>5, <1>6, <2>1 DEF EntryType, Entry, Kind
<1> HIDE DEF entry, mine
<1>10. IsFiniteSet(Announced)
  <2>1. [u \in mine |-> entry(u)] \in Surjection(mine, {entry(u) : u \in mine})
    BY DEF Surjection
  <2> QED BY <1>2, <1>8, <2>1, FS_Surjection
<1>11. ASSUME NEW e \in Announced, NEW f \in Announced, e.position = f.position PROVE e = f
  <2>1. PICK u \in mine, v \in mine : e = entry(u) /\ f = entry(v)
    BY <1>8
  <2>2. place(u) = place(v)
    BY <1>1, <1>5, <1>6, <1>9, <1>11, <2>1
  <2> QED BY <1>7, <2>1, <2>2
<1>12. ASSUME NEW e \in Announced
       PROVE  e \in EntryType /\ drawn < e.position /\ e.position <= drawn + Cardinality(boot.mine)
  <2>1. PICK u \in mine : e = entry(u)
    BY <1>8
  <2> QED BY <1>1, <1>5, <1>6, <1>9, <2>1 DEF mine
<1> QED BY <1>10, <1>11, <1>12 DEF Ordered

(* Types, the announcement. *)
LEMMA AnnounceTypes ==
  ASSUME OutboxTypeOK, Announces
  PROVE  OutboxTypeOK'
<1>0. Quiet \in BootType
  BY BoundsAssumption DEF Quiet, BootType
<1>1. CASE Announce
  <2>1. PICK states \in meaning .. meaning + 1 :
          /\ states <= MaxGeneration
          /\ boot' = [open |-> TRUE, states |-> states, left |-> {u \in User : Stale(u, states)},
                      mine |-> {}, entries |-> {}]
    BY <1>1 DEF Announce
  <2>2. states \in 0..MaxGeneration
    BY <2>1, BoundsAssumption DEF OutboxTypeOK
  <2>3. {u \in User : Stale(u, states)} \in SUBSET User
    OBVIOUS
  <2>4. boot' \in BootType
    BY <2>1, <2>2, <2>3 DEF BootType
  <2> QED BY <1>1, <2>4 DEF Announce, consumer, OutboxTypeOK
<1>2. CASE \E u \in User : AnnounceLocks(u)
  <2>1. PICK u \in User : boot' = [boot EXCEPT !.left = boot.left \ {u}, !.mine = boot.mine \union {u}]
    BY <1>2 DEF AnnounceLocks
  <2>2. boot.left \ {u} \in SUBSET User /\ boot.mine \union {u} \in SUBSET User
    BY DEF OutboxTypeOK, BootType
  <2>3. boot' \in BootType
    BY <2>1, <2>2 DEF OutboxTypeOK, BootType
  <2> QED BY <1>2, <2>3 DEF AnnounceLocks, consumer, OutboxTypeOK
<1>3. CASE AnnounceAppends
  <2>1. boot' = [boot EXCEPT !.entries = Announced] /\ drawn' = drawn + Cardinality(boot.mine)
    BY <1>3 DEF AnnounceAppends, Announced
  <2>2. boot' \in BootType
    BY <2>1, AnnouncedOrdered DEF Ordered, OutboxTypeOK, BootType
  <2>3. Cardinality(boot.mine) \in Nat
    BY UserAssumption, FS_Subset, FS_CardinalityType DEF OutboxTypeOK, BootType
  <2>4. drawn' \in Nat
    BY <2>1, <2>3 DEF OutboxTypeOK
  <2> QED BY <1>3, <2>2, <2>4 DEF AnnounceAppends, consumer, OutboxTypeOK
<1>4. CASE AnnounceCommits
  <2>1. row' \in [User -> RowType]
    BY <1>4 DEF AnnounceCommits, OutboxTypeOK, RowType
  <2>2. outbox' \subseteq EntryType /\ meaning' \in 0..MaxGeneration
    BY <1>4 DEF AnnounceCommits, OutboxTypeOK, BootType
  <2> QED BY <1>0, <1>4, <2>1, <2>2 DEF AnnounceCommits, consumer, OutboxTypeOK
<1>5. CASE AnnounceFails
  BY <1>0, <1>5 DEF AnnounceFails, consumer, OutboxTypeOK
<1> QED BY <1>1, <1>2, <1>3, <1>4, <1>5 DEF Announces

(* What a pull hands out ends on a committed row ahead of the cursor. *)
LEMMA PullEnds ==
  ASSUME OutboxTypeOK, Ordered(outbox), Pull
  PROVE  /\ answer' = [open |-> TRUE, left |-> Served, next |-> answer'.next]
         /\ \E e \in Served : e.position = answer'.next /\ \A f \in Served : f.position <= e.position
<1>1. Ordered(Ahead)
  BY FS_Subset DEF Ahead, Ordered
<1>2. Cardinality(Ahead) \in Nat /\ Cardinality(Ahead) # 0
  BY <1>1, FS_EmptySet, FS_CardinalityType DEF Pull, Ordered
<1>3. PICK d \in Ahead : Place(Ahead, d) = 1
  BY <1>1, <1>2, Places
<1>4. d \in Served
  BY <1>3, PageAssumption DEF Served, Place
<1>5. Ordered(Served)
  BY <1>1, FS_Subset DEF Served, Ordered
<1>6. Cardinality(Served) \in Nat /\ Cardinality(Served) # 0
  BY <1>4, <1>5, FS_EmptySet, FS_CardinalityType DEF Ordered
<1>7. PICK e \in Served : Place(Served, e) = Cardinality(Served)
  BY <1>5, <1>6, Places
<1>8. \A f \in Served : f.position <= e.position
  <2> DEFINE U == {f \in Served : f.position <= e.position}
  <2>1. U \in SUBSET Served /\ Cardinality(U) = Cardinality(Served)
    BY <1>7 DEF Place
  <2> HIDE DEF U
  <2>2. U = Served
    BY <1>5, <2>1, FS_Subset DEF Ordered
  <2> QED BY <2>2 DEF U
<1>9. answer'.next \in {f.position : f \in Served} /\ \A f \in Served : f.position <= answer'.next
  <2> DEFINE P(n) == n \in {f.position : f \in Served} /\ \A f \in Served : f.position <= n
  <2>1. P(e.position)
    BY <1>8
  <2>2. answer'.next = CHOOSE n \in {f.position : f \in Served} : \A f \in Served : f.position <= n
    BY DEF Pull
  <2> QED BY <2>1, <2>2
<1>10. answer' = [open |-> TRUE, left |-> Served, next |-> answer'.next]
  BY DEF Pull
<1> QED BY <1>9, <1>10

(* Types, the money plane. *)
LEMMA ReadTypes ==
  ASSUME OutboxTypeOK, Ordered(outbox), Reads
  PROVE  OutboxTypeOK'
<1>0. Nobody \in AnswerType
  BY DEF AnswerType
<1>1. CASE Pull
  <2>1. answer' = [open |-> TRUE, left |-> Served, next |-> answer'.next] /\ \E e \in Served : e.position = answer'.next
    BY <1>1, PullEnds
  <2>2. Served \subseteq EntryType
    BY DEF Served, Ahead, OutboxTypeOK
  <2>3. answer'.next \in Nat
    BY <2>1, <2>2 DEF EntryType
  <2>4. \A n \in Nat : [open |-> TRUE, left |-> Served, next |-> n] \in AnswerType
    BY <2>2 DEF AnswerType
  <2>5. answer' \in AnswerType
    BY <2>1, <2>3, <2>4
  <2> QED BY <1>1, <2>5 DEF Pull, OutboxTypeOK
<1>2. CASE Apply
  <2>1. answer \in [open : {TRUE}, left : SUBSET EntryType, next : Nat]
    BY <1>2, OpenAnswer DEF Apply
  <2>2. PICK e \in answer.left :
          /\ answer' = [answer EXCEPT !.left = @ \ {e}]
          /\ mirror' = IF e.sequence > mirror[e.user].sequence
                       THEN [mirror EXCEPT ![e.user] =
                              [sequence |-> e.sequence, frozen |-> Freezes(e, @.frozen)]]
                       ELSE mirror
    BY <1>2 DEF Apply
  <2>3. e \in EntryType
    BY <2>1
  <2>4. answer' \in AnswerType
    BY <2>1, <2>2 DEF AnswerType
  <2>5. mirror[e.user].frozen \in BOOLEAN
    BY <2>3 DEF EntryType, OutboxTypeOK
  <2>6. Freezes(e, mirror[e.user].frozen) \in BOOLEAN
    BY <2>5 DEF Freezes
  <2>7. mirror' \in [User -> [sequence : Nat, frozen : BOOLEAN]]
    BY <2>2, <2>3, <2>6 DEF EntryType, OutboxTypeOK
  <2> QED BY <1>2, <2>4, <2>7 DEF Apply, OutboxTypeOK
<1>3. CASE Advance
  <2>1. cursor' \in Nat
    BY <1>3, OpenAnswer DEF Advance
  <2> QED BY <1>0, <1>3, <2>1 DEF Advance, OutboxTypeOK
<1>4. CASE Lose
  BY <1>0, <1>4 DEF Lose, OutboxTypeOK
<1> QED BY <1>1, <1>2, <1>3, <1>4 DEF Reads

(***************************************************************************)
(* The invariant, step by step                                             *)
(***************************************************************************)

(* While the lock is free nothing is on its way. *)
LEMMA FreeIsEmpty ==
  ASSUME OutboxFree
  PROVE  boot.entries = {} /\ \A t \in Tx : Batch(t) = {}
BY DEF OutboxFree, Batch

(* A transaction that takes another's place leaves the others as they are. *)
LEMMA OtherBatches ==
  ASSUME OutboxTypeOK, NEW t \in Tx, NEW x, tx' = [tx EXCEPT ![t] = x]
  PROVE  /\ \A s \in Tx \ {t} : Batch(s)' = Batch(s)
         /\ Batch(t)' = IF x.open THEN x.entries ELSE {}
BY DEF OutboxTypeOK, Batch

(* A transaction that has appended nothing commits nothing. *)
LEMMA EmptyIsLater == Ordered({}) /\ Later({})
BY FS_EmptySet DEF Ordered, Later

(* The lock admits one appender, whatever one transaction does. *)
LEMMA OneAppendsStep ==
  ASSUME OutboxTypeOK, OneAppends, NEW t \in Tx,
         (\E u \in User : Begin(t, u)) \/ AppendEvent(t) \/ Commit(t) \/ Rollback(t)
  PROVE  /\ OneAppends'
         /\ \A s \in Tx \ {t} : Batch(s)' = Batch(s)
         /\ boot' = boot
         /\ ~AppendEvent(t) => Batch(t)' = {} /\ drawn' = drawn
         /\ ~Commit(t) => outbox' = outbox
<1>1. CASE AppendEvent(t)
  <2>1. \A s \in Tx : Batch(s) = {}
    BY <1>1, FreeIsEmpty DEF AppendEvent
  <2>2. \A s \in Tx \ {t} : Batch(s)' = Batch(s)
    BY <1>1 DEF AppendEvent, OutboxTypeOK, Batch
  <2>3. boot' = boot /\ boot.entries = {} /\ outbox' = outbox
    BY <1>1, FreeIsEmpty DEF AppendEvent
  <2>4. OneAppends'
    BY <2>1, <2>2, <2>3 DEF OneAppends
  <2> QED BY <1>1, <2>2, <2>3, <2>4
<1>2. CASE ~AppendEvent(t)
  <2>1. PICK x : tx' = [tx EXCEPT ![t] = x] /\ (x.open => x.entries = {})
    <3>1. CASE \E u \in User : Begin(t, u)
      <4>1. PICK u \in User : Begin(t, u)
        BY <3>1
      <4>2. PICK o \in Outcome(row[u]) :
              tx' = [tx EXCEPT ![t] = [open |-> TRUE, user |-> u, row |-> o.row, kind |-> o.kind, entries |-> {}]]
        BY <4>1 DEF Begin
      <4> DEFINE begun == [open |-> TRUE, user |-> u, row |-> o.row, kind |-> o.kind, entries |-> {}]
      <4>3. begun.entries = {}
        OBVIOUS
      <4> HIDE DEF begun
      <4>4. tx' = [tx EXCEPT ![t] = begun]
        BY <4>2 DEF begun
      <4> QED BY <4>3, <4>4
    <3>2. CASE Commit(t) \/ Rollback(t)
      <4>1. tx' = [tx EXCEPT ![t] = Idle] /\ ~Idle.open
        BY <3>2 DEF Commit, Rollback, Idle
      <4> QED BY <4>1
    <3> QED BY <1>2, <3>1, <3>2
  <2>2. /\ \A s \in Tx \ {t} : Batch(s)' = Batch(s)
        /\ Batch(t)' = {}
    BY <2>1, OtherBatches
  <2>3. boot' = boot /\ drawn' = drawn
    BY <1>2 DEF Begin, Commit, Rollback
  <2>4. ~Commit(t) => outbox' = outbox
    BY <1>2 DEF Begin, Rollback
  <2>5. OneAppends'
    BY <2>2, <2>3 DEF OneAppends
  <2> QED BY <1>2, <2>2, <2>3, <2>4, <2>5
<1> QED BY <1>1, <1>2

(* Rows that came after the log extend it in order. *)
LEMMA CommitKeepsOrder ==
  ASSUME OutboxTypeOK, CommitsExtend, NEW B, Later(B)
  PROVE  Ordered(outbox \union B) /\ \A e \in outbox \union B : e.position <= drawn
<1>1. IsFiniteSet(outbox \union B)
  BY FS_Union DEF CommitsExtend, Later, Ordered
<1>2. outbox \union B \subseteq EntryType
  BY DEF CommitsExtend, Later, Ordered
<1>3. ASSUME NEW e \in outbox \union B, NEW f \in outbox \union B, e.position = f.position PROVE e = f
  <2>1. e.position \in Nat /\ f.position \in Nat
    BY <1>2 DEF EntryType
  <2>2. \A x \in B, y \in outbox : y.position < x.position
    BY DEF Later
  <2>3. CASE e \in outbox /\ f \in outbox
    BY <1>3, <2>3 DEF CommitsExtend, Ordered
  <2>4. CASE e \in B /\ f \in B
    BY <1>3, <2>4 DEF Later, Ordered
  <2>5. ~(e \in B /\ f \in outbox) /\ ~(f \in B /\ e \in outbox)
    BY <1>3, <2>1, <2>2
  <2> QED BY <2>3, <2>4, <2>5
<1> QED BY <1>1, <1>2, <1>3 DEF CommitsExtend, Later, Ordered

(* One account's transaction extends the log at its end or leaves it alone. *)
LEMMA TxExtends ==
  ASSUME OutboxTypeOK, OneAppends, CommitsExtend, NEW t \in Tx,
         (\E u \in User : Begin(t, u)) \/ AppendEvent(t) \/ Commit(t) \/ Rollback(t)
  PROVE  /\ CommitsExtend'
         /\ outbox' = outbox \/ (Batch(t) # {} /\ outbox' = outbox \union Batch(t))
<1>0. /\ \A s \in Tx \ {t} : Batch(s)' = Batch(s)
      /\ boot' = boot
      /\ ~AppendEvent(t) => Batch(t)' = {} /\ drawn' = drawn
      /\ ~Commit(t) => outbox' = outbox
  BY OneAppendsStep
<1>1. CASE AppendEvent(t)
  <2>0. PICK e : e = Entry(drawn + 1, tx[t].user, tx[t].kind, Stamp(t), meaning)
    OBVIOUS
  <2>1. /\ tx' = [tx EXCEPT ![t].entries = {e}] /\ drawn' = drawn + 1 /\ outbox' = outbox
        /\ tx[t].open /\ OutboxFree
    BY <1>1, <2>0 DEF AppendEvent
  <2>2. OutboxTypeOK' /\ drawn \in Nat
    BY TxTypes DEF OutboxTypeOK
  <2>3. tx'[t].entries = {e} /\ tx'[t].open
    BY <2>1, OpenTx DEF OutboxTypeOK
  <2>4. Batch(t)' = {e}
    BY <2>3 DEF Batch
  <2>5. e \in EntryType /\ e.position = drawn + 1
    <3>1. tx'[t] \in TxType /\ tx'[t] # Idle
      BY <2>2, <2>3 DEF OutboxTypeOK, Idle
    <3>2. {e} \in SUBSET EntryType
      BY <2>3, <3>1 DEF TxType
    <3> QED BY <2>0, <3>2 DEF Entry
  <2>6. Ordered({e})
    BY <2>5, FS_Singleton DEF Ordered
  <2>7. Later({e})'
    BY <2>1, <2>2, <2>5, <2>6 DEF Later, CommitsExtend, Ordered, EntryType
  <2>8. \A s \in Tx \ {t} : Later(Batch(s))'
    <3>1. \A s \in Tx \ {t} : Batch(s)' = {}
      BY <1>0, <2>1, FreeIsEmpty
    <3>2. Later({})'
      BY EmptyIsLater DEF Later
    <3> QED BY <3>1, <3>2 DEF Later
  <2>9. Later(boot.entries)'
    <3>1. boot.entries' = {}
      BY <1>0, <2>1, FreeIsEmpty
    <3> QED BY <3>1, EmptyIsLater DEF Later
  <2>10. Later(Batch(t))'
    BY <2>4, <2>7 DEF Later
  <2>11. Ordered(outbox)' /\ (\A f \in outbox : f.position <= drawn)'
    BY <2>1, <2>2 DEF CommitsExtend, Ordered, EntryType
  <2> QED BY <2>1, <2>8, <2>9, <2>10, <2>11 DEF CommitsExtend
<1>2. CASE ~AppendEvent(t) /\ ~Commit(t)
  <2>1. outbox' = outbox /\ drawn' = drawn /\ boot' = boot
    BY <1>0, <1>2
  <2>2. \A s \in Tx : Batch(s)' = Batch(s) \/ Batch(s)' = {}
    BY <1>0, <1>2
  <2>3. \A s \in Tx : Later(Batch(s))'
    BY <2>1, <2>2, EmptyIsLater DEF CommitsExtend, Later
  <2> QED BY <2>1, <2>3 DEF CommitsExtend, Later
<1>3. CASE Commit(t)
  <2>1. tx[t].open /\ outbox' = outbox \union Batch(t)
    BY <1>3, OpenTx DEF Commit
  <2>2. ~AppendEvent(t)
    <3>1. tx' = [tx EXCEPT ![t] = Idle]
      BY <1>3 DEF Commit
    <3>2. ~tx'[t].open
      BY <3>1 DEF OutboxTypeOK, Idle
    <3>3. AppendEvent(t) => tx'[t].open
      BY OpenTx DEF AppendEvent, OutboxTypeOK
    <3> QED BY <3>2, <3>3
  <2>3. drawn' = drawn /\ boot' = boot /\ Batch(t)' = {}
    BY <1>0, <2>2
  <2>4. Later(Batch(t))
    BY DEF CommitsExtend
  <2>5. Ordered(outbox)' /\ (\A e \in outbox : e.position <= drawn)'
    BY <2>1, <2>3, <2>4, CommitKeepsOrder
  <2>6. CASE Batch(t) = {}
    <3>1. outbox' = outbox
      BY <2>1, <2>6
    <3>2. \A s \in Tx : Batch(s)' = Batch(s)
      BY <1>0, <2>3, <2>6
    <3> QED BY <2>3, <3>1, <3>2 DEF CommitsExtend, Later
  <2>7. CASE Batch(t) # {}
    <3>1. boot.entries = {} /\ \A s \in Tx : Batch(s)' = {}
      BY <1>0, <2>3, <2>7 DEF OneAppends
    <3>2. Later(boot.entries)' /\ \A s \in Tx : Later(Batch(s))'
      BY <2>3, <3>1, EmptyIsLater DEF Later
    <3> QED BY <2>1, <2>5, <2>7, <3>2 DEF CommitsExtend
  <2> QED BY <2>6, <2>7
<1> QED BY <1>1, <1>2, <1>3

(* So does an announcement. *)
LEMMA BootExtends ==
  ASSUME OutboxTypeOK, OneAppends, CommitsExtend, Announces
  PROVE  /\ OneAppends' /\ CommitsExtend'
         /\ outbox' = outbox \/ (boot.entries # {} /\ outbox' = outbox \union boot.entries)
<1>0. \A t \in Tx : Batch(t)' = Batch(t)
  BY DEF Announces, Announce, AnnounceLocks, AnnounceAppends, AnnounceCommits, AnnounceFails, Batch
<1>1. CASE Announce \/ AnnounceFails \/ \E u \in User : AnnounceLocks(u)
  <2>1. outbox' = outbox /\ drawn' = drawn
    BY <1>1 DEF Announce, AnnounceFails, AnnounceLocks
  <2>2. boot.entries' = boot.entries \/ boot.entries' = {}
    <3>1. Announce => boot.entries' = {}
      BY DEF Announce
    <3>2. AnnounceFails => boot.entries' = {}
      BY DEF AnnounceFails, Quiet
    <3>3. (\E u \in User : AnnounceLocks(u)) => boot.entries' = boot.entries
      BY DEF AnnounceLocks, OutboxTypeOK, BootType
    <3> QED BY <1>1, <3>1, <3>2, <3>3
  <2>3. CommitsExtend'
    BY <1>0, <2>1, <2>2, EmptyIsLater DEF CommitsExtend, Later
  <2>4. OneAppends'
    BY <1>0, <2>2 DEF OneAppends
  <2> QED BY <2>1, <2>3, <2>4
<1>2. CASE AnnounceAppends
  <2>0. PICK batch : batch = Announced
    OBVIOUS
  <2>1. /\ boot' = [boot EXCEPT !.entries = batch] /\ drawn' = drawn + Cardinality(boot.mine) /\ outbox' = outbox
        /\ OutboxFree
    BY <1>2, <2>0 DEF AnnounceAppends, Announced
  <2>2. boot.entries' = batch
    BY <2>1 DEF OutboxTypeOK, BootType
  <2>3. \A t \in Tx : Batch(t)' = {}
    BY <1>0, <2>1, FreeIsEmpty
  <2>4. OneAppends'
    BY <2>3 DEF OneAppends
  <2>5. drawn \in Nat /\ drawn' \in Nat /\ Cardinality(boot.mine) \in Nat
    BY <2>1, UserAssumption, FS_Subset, FS_CardinalityType DEF OutboxTypeOK, BootType
  <2>6. Ordered(batch) /\ \A e \in batch : drawn < e.position /\ e.position <= drawn + Cardinality(boot.mine)
    BY <2>0, AnnouncedOrdered
  <2>7. \A e \in batch : e.position <= drawn' /\ \A f \in outbox' : f.position < e.position
    BY <2>1, <2>5, <2>6 DEF CommitsExtend, Ordered, EntryType
  <2>8. Later(boot.entries)'
    BY <2>2, <2>6, <2>7 DEF Later, Ordered
  <2>9. \A t \in Tx : Later(Batch(t))'
    BY <2>3, EmptyIsLater DEF Later
  <2>10. Ordered(outbox)' /\ (\A f \in outbox : f.position <= drawn)'
    BY <2>1, <2>5 DEF CommitsExtend, Ordered, EntryType
  <2> QED BY <2>1, <2>4, <2>8, <2>9, <2>10 DEF CommitsExtend
<1>3. CASE AnnounceCommits
  <2>1. outbox' = outbox \union boot.entries /\ drawn' = drawn /\ boot.entries' = {}
    BY <1>3 DEF AnnounceCommits, Quiet
  <2>2. OneAppends'
    BY <1>0, <2>1 DEF OneAppends
  <2>3. Later(boot.entries)
    BY DEF CommitsExtend
  <2>4. Ordered(outbox)' /\ (\A e \in outbox : e.position <= drawn)'
    BY <2>1, <2>3, CommitKeepsOrder
  <2>5. Later(boot.entries)'
    BY <2>1, EmptyIsLater DEF Later
  <2>6. CASE boot.entries = {}
    <3>1. outbox' = outbox
      BY <2>1, <2>6
    <3> QED BY <1>0, <2>1, <2>2, <2>5, <3>1 DEF CommitsExtend, Later
  <2>7. CASE boot.entries # {}
    <3>1. \A t \in Tx : Batch(t)' = {}
      BY <1>0, <2>7 DEF OneAppends
    <3>2. \A t \in Tx : Later(Batch(t))'
      BY <3>1, EmptyIsLater DEF Later
    <3> QED BY <2>1, <2>2, <2>4, <2>5, <2>7, <3>2 DEF CommitsExtend
  <2> QED BY <2>6, <2>7
<1> QED BY <1>1, <1>2, <1>3 DEF Announces

(* The reader's steps leave the log and what is on its way alone, and move *)
(* the cursor to a committed row or not at all.                            *)
LEMMA ReadStep ==
  ASSUME FeedInv, Reads
  PROVE  /\ FeedInv'
         /\ outbox' = outbox
         /\ cursor' = cursor \/ (cursor < cursor' /\ \E e \in outbox : e.position = cursor')
<1>0. OutboxTypeOK /\ Ordered(outbox) /\ ReaderOnARow
  BY DEF FeedInv, CommitsExtend
<1>1. OutboxTypeOK'
  BY <1>0, ReadTypes
<1>2. UNCHANGED <<outbox, drawn, tx, boot>>
  BY DEF Reads, Pull, Apply, Advance, Lose
<1>3. OneAppends' /\ CommitsExtend'
  BY <1>2 DEF FeedInv, OneAppends, CommitsExtend, Later, Batch
<1>4. CASE Pull
  <2>1. cursor' = cursor /\ cursor \in Nat
    BY <1>0, <1>4 DEF Pull, OutboxTypeOK
  <2>2. PICK e \in Served : e.position = answer'.next
    BY <1>0, <1>4, PullEnds
  <2>3. e \in outbox /\ cursor < answer'.next
    BY <2>2 DEF Served, Ahead
  <2>4. ReaderOnARow'
    BY <1>0, <1>2, <2>1, <2>2, <2>3 DEF ReaderOnARow
  <2> QED BY <1>1, <1>2, <1>3, <2>1, <2>4 DEF FeedInv
<1>5. CASE Apply
  <2>1. cursor' = cursor /\ answer.open /\ answer'.next = answer.next
    BY <1>0, <1>5, OpenAnswer DEF Apply
  <2>2. ReaderOnARow'
    BY <1>0, <1>2, <2>1 DEF ReaderOnARow
  <2> QED BY <1>1, <1>2, <1>3, <2>1, <2>2 DEF FeedInv
<1>6. CASE Advance
  <2>1. cursor' = answer.next /\ answer.open /\ ~answer'.open
    BY <1>6 DEF Advance, Nobody
  <2>2. cursor < cursor' /\ \E e \in outbox : e.position = cursor'
    BY <1>0, <2>1 DEF ReaderOnARow
  <2>3. ReaderOnARow'
    BY <1>2, <2>1, <2>2 DEF ReaderOnARow
  <2> QED BY <1>1, <1>2, <1>3, <2>2, <2>3 DEF FeedInv
<1>7. CASE Lose
  <2>1. cursor' = cursor /\ ~answer'.open
    BY <1>7 DEF Lose, Nobody
  <2>2. ReaderOnARow'
    BY <1>0, <1>2, <2>1 DEF ReaderOnARow
  <2> QED BY <1>1, <1>2, <1>3, <2>1, <2>2 DEF FeedInv
<1> QED BY <1>4, <1>5, <1>6, <1>7 DEF Reads

(* The other steps leave the reader alone, and append to the log or not.   *)
LEMMA WriteStep ==
  ASSUME FeedInv,
         (\E t \in Tx : (\E u \in User : Begin(t, u)) \/ AppendEvent(t) \/ Commit(t) \/ Rollback(t)) \/ Announces
  PROVE  /\ FeedInv'
         /\ UNCHANGED <<cursor, mirror, answer>>
         /\ outbox' = outbox \/ \E B : B # {} /\ Later(B) /\ outbox' = outbox \union B
<1>1. UNCHANGED <<cursor, mirror, answer>>
  BY DEF Begin, AppendEvent, Commit, Rollback, Announces, Announce, AnnounceLocks, AnnounceAppends,
         AnnounceCommits, AnnounceFails, consumer
<1>2. OutboxTypeOK' /\ OneAppends' /\ CommitsExtend'
  BY TxTypes, AnnounceTypes, OneAppendsStep, TxExtends, BootExtends DEF FeedInv
<1>3. outbox' = outbox \/ \E B : B # {} /\ Later(B) /\ outbox' = outbox \union B
  BY TxExtends, BootExtends DEF FeedInv, CommitsExtend
<1>4. outbox \subseteq outbox'
  BY <1>3
<1>5. ReaderOnARow'
  BY <1>1, <1>4 DEF FeedInv, ReaderOnARow
<1> QED BY <1>1, <1>2, <1>3, <1>5 DEF FeedInv

(* Every step keeps the invariant. *)
LEMMA FeedStep == FeedInv /\ [OutboxNext]_outboxVars => FeedInv'
<1> SUFFICES ASSUME FeedInv, [OutboxNext]_outboxVars PROVE FeedInv'
  OBVIOUS
<1>1. CASE UNCHANGED outboxVars
  BY <1>1 DEF outboxVars, FeedInv, OutboxTypeOK, OneAppends, CommitsExtend, ReaderOnARow, Later, Batch
<1>2. CASE OutboxNext
  BY <1>2, ReadStep, WriteStep DEF OutboxNext, Announces, Reads
<1> QED BY <1>1, <1>2

(***************************************************************************)
(* The log is ordered, its appends are serialised, and the cursor stands   *)
(* on it.                                                                  *)
(***************************************************************************)
THEOREM FeedInvariance == OutboxSpec => []FeedInv
BY OutboxInitInvariant, FeedStep, PTL DEF OutboxSpec

(***************************************************************************)
(* The refinement                                                          *)
(***************************************************************************)

Done == Cardinality({e \in outbox : e.position <= cursor})

(* The log the module speaks of is the log of the committed rows. *)
LEMMA LogIsLogOf == Log = LogOf(outbox) /\ Log' = LogOf(outbox')
BY DEF Log, LogOf

(* A cursor that moves on comes by at least one row, and by none that is not there. *)
LEMMA ReadMaps ==
  ASSUME FeedInv, FeedInv', outbox' = outbox, cursor < cursor', \E e \in outbox : e.position = cursor'
  PROVE  Done' \in Done + 1 .. Len(Log)
<1> DEFINE before == {e \in outbox : e.position <= cursor}
           after == {e \in outbox : e.position <= cursor'}
<1>1. cursor \in Nat /\ cursor' \in Nat /\ Ordered(outbox) /\ IsFiniteSet(outbox)
  BY DEF FeedInv, OutboxTypeOK, CommitsExtend, Ordered
<1>2. before \in SUBSET after /\ after \in SUBSET outbox /\ before # after
  <2>1. \A e \in outbox : e.position \in Nat
    BY <1>1 DEF Ordered, EntryType
  <2>2. PICK e \in outbox : e.position = cursor'
    OBVIOUS
  <2>3. e \in after /\ e \notin before
    BY <1>1, <2>2
  <2> QED BY <1>1, <2>1, <2>3
<1> HIDE DEF before, after
<1>3. IsFiniteSet(after) /\ Cardinality(after) <= Cardinality(outbox)
  BY <1>1, <1>2, FS_Subset
<1>4. Cardinality(before) <= Cardinality(after) /\ Cardinality(before) # Cardinality(after) /\ IsFiniteSet(before)
  BY <1>2, <1>3, FS_Subset
<1>5. Cardinality(before) \in Nat /\ Cardinality(after) \in Nat /\ Cardinality(outbox) \in Nat
  BY <1>1, <1>3, <1>4, FS_CardinalityType
<1>6. Len(Log) = Cardinality(outbox)
  BY <1>1, LogIsLogOf, LogType
<1>7. Done = Cardinality(before) /\ Done' = Cardinality(after)
  BY DEF Done, before, after
<1> QED BY <1>3, <1>4, <1>5, <1>6, <1>7

(* A commit extends the log, and none of it is behind the cursor. *)
LEMMA PublishMaps ==
  ASSUME FeedInv, FeedInv', cursor' = cursor, NEW B, B # {}, Later(B), outbox' = outbox \union B
  PROVE  /\ Len(Log') > Len(Log)
         /\ SubSeq(Log', 1, Len(Log)) = Log
         /\ Done' = Done
<1>1. Ordered(outbox) /\ Ordered(outbox \union B)
  BY DEF FeedInv, CommitsExtend, Ordered
<1>2. \A e \in outbox, a \in B : e.position < a.position
  BY DEF Later
<1>3. /\ Len(LogOf(outbox \union B)) > Len(LogOf(outbox))
      /\ SubSeq(LogOf(outbox \union B), 1, Len(LogOf(outbox))) = LogOf(outbox)
  BY <1>1, <1>2, LogGrows
<1>4. \A a \in B : ~(a.position <= cursor)
  BY <1>2 DEF FeedInv, ReaderOnARow, Later, Ordered, EntryType, OutboxTypeOK
<1>5. {e \in outbox \union B : e.position <= cursor} = {e \in outbox : e.position <= cursor}
  BY <1>4
<1> QED BY <1>3, <1>5, LogIsLogOf DEF Done

(* Every step of the outbox is one of the feed, or none. *)
LEMMA BridgeStep == FeedInv /\ FeedInv' /\ [OutboxNext]_outboxVars => [Bridge!Next]_<<Log, Done>>
<1> SUFFICES ASSUME FeedInv, FeedInv', [OutboxNext]_outboxVars PROVE [Bridge!Next]_<<Log, Done>>
  OBVIOUS
<1>1. CASE outbox' = outbox /\ cursor' = cursor
  BY <1>1 DEF Log, Done
<1>2. CASE outbox' = outbox /\ cursor < cursor' /\ \E e \in outbox : e.position = cursor'
  <2>1. Done' \in Done + 1 .. Len(Log) /\ Log' = Log
    BY <1>2, ReadMaps, LogIsLogOf
  <2>2. Bridge!Consume
    BY <2>1 DEF Bridge!Consume, Done
  <2> QED BY <2>2 DEF Bridge!Next
<1>3. ASSUME NEW B, B # {}, Later(B), outbox' = outbox \union B, cursor' = cursor
      PROVE  [Bridge!Next]_<<Log, Done>>
  <2>1. Bridge!Publish
    BY <1>3, PublishMaps DEF Bridge!Publish, Done
  <2> QED BY <2>1 DEF Bridge!Next
<1>4. CASE UNCHANGED outboxVars
  BY <1>1, <1>4 DEF outboxVars
<1>5. CASE OutboxNext
  BY <1>1, <1>2, <1>3, <1>5, ReadStep, WriteStep DEF OutboxNext, Announces, Reads
<1> QED BY <1>4, <1>5

(***************************************************************************)
(* The outbox is a feed: what is committed is only ever appended to, and   *)
(* the cursor comes by every row of it in order.                           *)
(***************************************************************************)
THEOREM OutboxIsAFeed == OutboxSpec => FeedSpec
<1>1. OutboxInit => Bridge!Init
  <2> SUFFICES ASSUME OutboxInit PROVE Bridge!Init
    OBVIOUS
  <2>1. outbox = {} /\ Cardinality({}) = 0
    BY FS_EmptySet DEF OutboxInit
  <2>2. Cardinality({e \in outbox : e.position <= cursor}) = 0
    BY <2>1
  <2>3. Log = <<>>
    BY <2>1 DEF Log
  <2> QED BY <2>2, <2>3 DEF Bridge!Init
<1>2. FeedInv /\ FeedInv' /\ [OutboxNext]_outboxVars => [Bridge!Next]_<<Log, Cardinality({e \in outbox : e.position <= cursor})>>
  BY BridgeStep DEF Done
<1> QED BY <1>1, <1>2, FeedInvariance, PTL DEF OutboxSpec, FeedSpec, Bridge!Spec

(***************************************************************************)
(* The mirror                                                              *)
(***************************************************************************)

(* What an event does to an account that was active or not. *)
Effect(kind, before, after) ==
  /\ kind = "SUSPENDED"  => ~after
  /\ kind = "REINSTATED" => after
  /\ kind \notin {"SUSPENDED", "REINSTATED"} => (after <=> before)

(* One transaction at a time is on a row, and moves the version it read by one. *)
RowsAreLocked ==
  /\ \A s, t \in Tx : tx[s].open /\ tx[t].open /\ tx[s].user = tx[t].user => s = t
  /\ \A t \in Tx : tx[t].open =>
       /\ tx[t].user \notin boot.mine
       /\ tx[t].row.version = row[tx[t].user].version + 1
       /\ Effect(tx[t].kind, row[tx[t].user].active, tx[t].row.active)
  /\ \A u \in User : row[u].version = 0 => row[u].active

(* What is on its way tells of each row as it will be, once. *)
BatchesTell ==
  /\ \A t \in Tx : \A e \in Batch(t) :
       /\ e.user = tx[t].user /\ e.kind = tx[t].kind /\ e.sequence = tx[t].row.version
       /\ \A f \in Batch(t) : f = e
  /\ \A e \in boot.entries :
       /\ e.user \in boot.mine /\ e.kind = "PERMISSIONS_CHANGED" /\ e.sequence = row[e.user].version + 1
       /\ \A f \in boot.entries : f.user = e.user => f = e

(* Of one account, later rows carry greater sequences. *)
SequencesRise ==
  /\ \A e \in outbox : e.sequence <= row[e.user].version
  /\ \A e, f \in outbox : e.user = f.user /\ e.position < f.position => e.sequence < f.sequence

(* The events of u up to a sequence that freeze or thaw it, and what they leave. *)
Brakes(u, s) == {e \in outbox : e.user = u /\ e.sequence <= s /\ e.kind \in {"SUSPENDED", "REINSTATED"}}
Leaves(S, frozen) ==
  /\ S = {} => ~frozen
  /\ \A e \in S : (\A f \in S : f.sequence <= e.sequence) => (frozen <=> e.kind = "SUSPENDED")

(* Both the account and its mirror are what the events they know of make them. *)
AsTold ==
  \A u \in User :
    /\ Leaves(Brakes(u, row[u].version), ~row[u].active)
    /\ Leaves(Brakes(u, mirror[u].sequence), mirror[u].frozen)
    /\ mirror[u].sequence <= row[u].version

(* Whatever the reader is done with is in the mirror. *)
ReadIsKnown ==
  /\ \A e \in outbox : e.position <= cursor => e.sequence <= mirror[e.user].sequence
  /\ answer.open =>
       /\ answer.left \subseteq outbox
       /\ \A e \in answer.left : e.position <= answer.next
       /\ \A e \in outbox \ answer.left : e.position <= answer.next => e.sequence <= mirror[e.user].sequence

MirrorInv == RowsAreLocked /\ BatchesTell /\ SequencesRise /\ AsTold /\ ReadIsKnown

(* An empty mirror knows all there is of accounts that are not there. *)
LEMMA MirrorInit == OutboxInit => MirrorInv
<1> SUFFICES ASSUME OutboxInit PROVE MirrorInv
  OBVIOUS
<1>1. \A t \in Tx : ~tx[t].open /\ Batch(t) = {}
  BY DEF OutboxInit, Idle, Batch
<1>2. boot.entries = {} /\ outbox = {} /\ ~answer.open
  BY DEF OutboxInit, Quiet, Nobody
<1>3. \A u \in User : row[u].active /\ row[u].version = 0 /\ mirror[u].sequence = 0 /\ ~mirror[u].frozen
  BY DEF OutboxInit
<1>4. \A u, s : Brakes(u, s) = {}
  BY <1>2 DEF Brakes
<1>5. AsTold
  BY <1>3, <1>4 DEF AsTold, Leaves
<1> QED BY <1>1, <1>2, <1>3, <1>5 DEF MirrorInv, RowsAreLocked, BatchesTell, SequencesRise, ReadIsKnown

(* A newer event decides, or leaves things as they were. *)
LEMMA NewerDecides ==
  ASSUME NEW S, NEW a, S \subseteq EntryType, a \in EntryType, \A f \in S : f.sequence < a.sequence,
         NEW frozen, frozen <=> a.kind = "SUSPENDED"
  PROVE  Leaves(S \union {a}, frozen)
<1>1. a.sequence \in Nat /\ \A f \in S : f.sequence \in Nat
  BY DEF EntryType
<1>2. ASSUME NEW e \in S \union {a}, \A f \in S \union {a} : f.sequence <= e.sequence PROVE e = a
  BY <1>1, <1>2
<1> QED BY <1>2 DEF Leaves

(***************************************************************************)
(* A commit of the rows A, each of which tells of its account as it now    *)
(* is, or of nothing.                                                      *)
(***************************************************************************)
LEMMA CommitTells ==
  ASSUME FeedInv, FeedInv', MirrorInv, NEW A, Later(A), outbox' = outbox \union A,
         UNCHANGED <<cursor, mirror, answer>>,
         \A u \in User :
           \/ /\ \A e \in A : e.user # u
              /\ row'[u].version >= row[u].version /\ (row'[u].active <=> row[u].active)
           \/ \E a \in A :
                /\ a.user = u /\ \A e \in A : e.user = u => e = a
                /\ a.sequence = row[u].version + 1 /\ row'[u].version = a.sequence
                /\ Effect(a.kind, row[u].active, row'[u].active)
  PROVE  SequencesRise' /\ AsTold' /\ ReadIsKnown'
<1>1. /\ outbox \subseteq EntryType /\ A \subseteq EntryType
      /\ \A u \in User : row[u].version \in Nat /\ row'[u].version \in Nat /\ mirror[u].sequence \in Nat
      /\ cursor \in Nat
  BY DEF FeedInv, OutboxTypeOK, RowType, Later, Ordered
<1>2. /\ \A e \in outbox : e.user \in User /\ e.sequence \in Nat /\ e.position \in Nat
      /\ \A e \in A : e.user \in User /\ e.sequence \in Nat /\ e.position \in Nat \ {0}
  BY <1>1 DEF EntryType
<1>3. \A u \in User : row[u].version <= row'[u].version
  BY <1>1
<1>4. \A e \in A : e.sequence = row[e.user].version + 1 /\ e.sequence = row'[e.user].version
  BY <1>2
<1>5. \A e, f \in A : e.user = f.user => e = f
  BY <1>2
<1>6. \A e \in A, f \in outbox : f.position < e.position
  BY DEF Later
<1>7. SequencesRise'
  <2>1. ASSUME NEW e \in outbox' PROVE e.sequence <= row'[e.user].version
    BY <1>1, <1>2, <1>3, <1>4 DEF MirrorInv, SequencesRise
  <2>2. ASSUME NEW e \in outbox', NEW f \in outbox', e.user = f.user, e.position < f.position
        PROVE  e.sequence < f.sequence
    <3>1. CASE e \in outbox /\ f \in outbox
      BY <2>2, <3>1 DEF MirrorInv, SequencesRise
    <3>2. CASE e \in outbox /\ f \in A
      BY <1>1, <1>2, <1>4, <2>2, <3>2 DEF MirrorInv, SequencesRise
    <3>3. ~(e \in A /\ f \in outbox)
      BY <1>2, <1>6, <2>2
    <3>4. ~(e \in A /\ f \in A)
      BY <1>2, <1>5, <2>2
    <3> QED BY <3>1, <3>2, <3>3, <3>4
  <2> QED BY <2>1, <2>2 DEF SequencesRise
<1>8. ASSUME NEW u \in User, NEW s \in Nat, s <= row[u].version PROVE Brakes(u, s)' = Brakes(u, s)
  <2>1. \A e \in A : e.user = u => ~(e.sequence <= s)
    BY <1>1, <1>2, <1>4, <1>8
  <2> QED BY <2>1 DEF Brakes
<1>9. ASSUME NEW u \in User PROVE Leaves(Brakes(u, row[u].version), ~row[u].active)'
  <2> DEFINE S == Brakes(u, row[u].version)
  <2>1. Leaves(S, ~row[u].active) /\ S \subseteq EntryType
    BY <1>1 DEF MirrorInv, AsTold, Brakes
  <2>2. \A e \in outbox : e.user = u => e.sequence <= row[u].version /\ e.sequence <= row'[u].version
    BY <1>1, <1>2, <1>3 DEF MirrorInv, SequencesRise
  <2>3. CASE /\ \A e \in A : e.user # u
             /\ row'[u].active <=> row[u].active
    <3>1. {e \in outbox' : e.user = u /\ e.sequence <= row'[u].version /\ e.kind \in {"SUSPENDED", "REINSTATED"}} = S
      BY <2>2, <2>3 DEF Brakes
    <3> QED BY <2>1, <2>3, <3>1 DEF Brakes, Leaves
  <2>4. CASE \E a \in A :
                /\ a.user = u /\ \A e \in A : e.user = u => e = a
                /\ a.sequence = row[u].version + 1 /\ row'[u].version = a.sequence
                /\ Effect(a.kind, row[u].active, row'[u].active)
    <3>1. PICK a \in A :
                /\ a.user = u /\ \A e \in A : e.user = u => e = a
                /\ a.sequence = row[u].version + 1 /\ row'[u].version = a.sequence
                /\ Effect(a.kind, row[u].active, row'[u].active)
      BY <2>4
    <3> DEFINE T == {e \in outbox' : e.user = u /\ e.sequence <= row'[u].version /\ e.kind \in {"SUSPENDED", "REINSTATED"}}
    <3>2. a \in EntryType /\ \A f \in S : f.sequence < a.sequence
      BY <1>1, <1>2, <3>1 DEF Brakes
    <3>3. CASE a.kind \in {"SUSPENDED", "REINSTATED"}
      <4>1. T = S \union {a}
        BY <1>1, <1>2, <2>2, <3>1, <3>3 DEF Brakes
      <4>2. (~row'[u].active) <=> a.kind = "SUSPENDED"
        BY <3>1, <3>3 DEF Effect
      <4> HIDE DEF S, T
      <4>3. Leaves(S \union {a}, ~row'[u].active)
        BY <2>1, <3>2, <4>2, NewerDecides
      <4> QED BY <4>1, <4>3 DEF T, Brakes, Leaves
    <3>4. CASE a.kind \notin {"SUSPENDED", "REINSTATED"}
      <4>1. T = S
        BY <1>1, <1>2, <2>2, <3>1, <3>4 DEF Brakes
      <4>2. row'[u].active <=> row[u].active
        BY <3>1, <3>4 DEF Effect
      <4> QED BY <2>1, <4>1, <4>2 DEF Brakes, Leaves
    <3> QED BY <3>3, <3>4
  <2> QED BY <2>3, <2>4
<1>10. AsTold'
  <2>1. ASSUME NEW u \in User
        PROVE  mirror'[u].sequence <= row'[u].version /\ Leaves(Brakes(u, mirror[u].sequence), mirror[u].frozen)'
    <3>1. mirror[u].sequence <= row[u].version /\ Leaves(Brakes(u, mirror[u].sequence), mirror[u].frozen)
      BY DEF MirrorInv, AsTold
    <3>2. {e \in outbox' : e.user = u /\ e.sequence <= mirror[u].sequence /\ e.kind \in {"SUSPENDED", "REINSTATED"}}
            = Brakes(u, mirror[u].sequence)
      BY <1>1, <1>2, <1>4, <3>1 DEF Brakes
    <3> QED BY <1>1, <1>3, <3>1, <3>2 DEF Brakes, Leaves
  <2> QED BY <1>9, <2>1 DEF AsTold
<1>11. ReadIsKnown'
  <2>1. \A e \in A : ~(e.position <= cursor)
    BY <1>1, <1>2, <1>6 DEF FeedInv, ReaderOnARow
  <2>2. answer.open => \A e \in A : ~(e.position <= answer.next)
    BY <1>1, <1>2, <1>6 DEF FeedInv, ReaderOnARow
  <2> QED BY <2>1, <2>2 DEF MirrorInv, ReadIsKnown
<1> QED BY <1>7, <1>10, <1>11

(* A command run on row r: the version it read and one, and the event's effect. *)
LEMMA OutcomeIsNext ==
  ASSUME NEW r \in RowType, r.version = 0 => r.active, NEW o \in Outcome(r)
  PROVE  o.row.version = r.version + 1 /\ Effect(o.kind, r.active, o.row.active)
<1> DEFINE flipped == ~r.active
           bumped == [r EXCEPT !.version = @ + 1]
<1>1. bumped.version = r.version + 1 /\ bumped.active = r.active /\ r.version \in Nat
  BY DEF RowType
<1>2. CASE r.version = 0
  <2>1. o = [row |-> [version |-> 1, active |-> TRUE], kind |-> "CREATED"]
    BY <1>2, Zenon DEF Outcome
  <2> QED BY <1>2, <2>1 DEF Effect
<1>3. CASE r.version # 0
  <2>1. \/ o = [row |-> bumped, kind |-> "SESSIONS_REVOKED"]
        \/ o = [row |-> bumped, kind |-> "none"]
        \/ o = [row |-> [version |-> r.version + 1, active |-> flipped],
                kind |-> IF r.active THEN "SUSPENDED" ELSE "REINSTATED"]
    BY <1>3, Zenon DEF Outcome
  <2>2. CASE o = [row |-> bumped, kind |-> "SESSIONS_REVOKED"] \/ o = [row |-> bumped, kind |-> "none"]
    <3> HIDE DEF bumped
    <3> QED BY <1>1, <2>2 DEF Effect
  <2>3. CASE o = [row |-> [version |-> r.version + 1, active |-> flipped],
                 kind |-> IF r.active THEN "SUSPENDED" ELSE "REINSTATED"]
    <3>1. o.row.version = r.version + 1 /\ o.row.active = flipped
      <4> HIDE DEF flipped
      <4> QED BY <2>3
    <3>2. o.kind = IF r.active THEN "SUSPENDED" ELSE "REINSTATED"
      BY <2>3
    <3> QED BY <3>1, <3>2 DEF Effect
  <2> QED BY <2>1, <2>2, <2>3
<1> QED BY <1>2, <1>3

(* A lock taken, a row appended or everything dropped: nothing is committed. *)
LEMMA TxTells ==
  ASSUME FeedInv, FeedInv', MirrorInv, NEW t \in Tx,
         (\E u \in User : Begin(t, u)) \/ AppendEvent(t) \/ Commit(t) \/ Rollback(t)
  PROVE  MirrorInv'
<1>0. OutboxTypeOK /\ OutboxTypeOK'
  BY DEF FeedInv
<1>1. ASSUME NEW u \in User, Begin(t, u) PROVE MirrorInv'
  <2>1. PICK o \in Outcome(row[u]) :
          tx' = [tx EXCEPT ![t] = [open |-> TRUE, user |-> u, row |-> o.row, kind |-> o.kind, entries |-> {}]]
    BY <1>1 DEF Begin
  <2>2. /\ UNCHANGED <<row, outbox, drawn, meaning, boot, cursor, mirror, answer>>
        /\ ~tx[t].open /\ u \notin boot.mine /\ \A s \in Tx : tx[s].open => tx[s].user # u
    BY <1>1 DEF Begin, RowFree, consumer
  <2>3. o.row.version = row[u].version + 1 /\ Effect(o.kind, row[u].active, o.row.active)
    BY <1>0, OutcomeIsNext DEF OutboxTypeOK, MirrorInv, RowsAreLocked
  <2>4. /\ tx'[t].open /\ tx'[t].user = u /\ tx'[t].row = o.row /\ tx'[t].kind = o.kind /\ tx'[t].entries = {}
        /\ \A s \in Tx \ {t} : tx'[s] = tx[s]
    BY <1>0, <2>1 DEF OutboxTypeOK
  <2>5. RowsAreLocked'
    BY <2>2, <2>3, <2>4 DEF MirrorInv, RowsAreLocked
  <2>6. BatchesTell'
    <3>1. Batch(t)' = {} /\ \A s \in Tx \ {t} : Batch(s)' = Batch(s)
      BY <2>4 DEF Batch
    <3> QED BY <2>2, <2>4, <3>1 DEF MirrorInv, BatchesTell
  <2> QED BY <2>2, <2>5, <2>6 DEF MirrorInv, SequencesRise, AsTold, Brakes, Leaves, ReadIsKnown
<1>2. CASE AppendEvent(t)
  <2>1. PICK e : e = Entry(drawn + 1, tx[t].user, tx[t].kind, Stamp(t), meaning)
    OBVIOUS
  <2>2. /\ tx' = [tx EXCEPT ![t].entries = {e}] /\ tx[t].open
        /\ UNCHANGED <<row, outbox, meaning, boot, cursor, mirror, answer>>
    BY <1>2, <2>1 DEF AppendEvent, consumer
  <2>3. /\ tx'[t].open /\ tx'[t].user = tx[t].user /\ tx'[t].row = tx[t].row /\ tx'[t].kind = tx[t].kind
        /\ tx'[t].entries = {e}
        /\ \A s \in Tx \ {t} : tx'[s] = tx[s]
    BY <1>0, <2>2, OpenTx DEF OutboxTypeOK
  <2>4. RowsAreLocked'
    BY <2>2, <2>3 DEF MirrorInv, RowsAreLocked
  <2>5. BatchesTell'
    <3>1. Batch(t)' = {e} /\ \A s \in Tx \ {t} : Batch(s)' = Batch(s)
      BY <2>3 DEF Batch
    <3>2. e.user = tx[t].user /\ e.kind = tx[t].kind /\ e.sequence = tx[t].row.version
      BY <2>1 DEF Entry, Stamp
    <3> QED BY <2>2, <2>3, <3>1, <3>2 DEF MirrorInv, BatchesTell
  <2> QED BY <2>2, <2>4, <2>5 DEF MirrorInv, SequencesRise, AsTold, Brakes, Leaves, ReadIsKnown
<1>3. CASE Commit(t) \/ Rollback(t)
  <2>1. /\ tx' = [tx EXCEPT ![t] = Idle] /\ tx[t].open
        /\ UNCHANGED <<drawn, meaning, boot, cursor, mirror, answer>>
    BY <1>3 DEF Commit, Rollback, consumer
  <2>2. ~tx'[t].open /\ \A s \in Tx \ {t} : tx'[s] = tx[s]
    BY <1>0, <2>1 DEF OutboxTypeOK, Idle
  <2>3. Batch(t)' = {} /\ \A s \in Tx \ {t} : Batch(s)' = Batch(s)
    BY <2>2 DEF Batch
  <2>4. /\ tx[t].user \in User /\ Batch(t) = tx[t].entries /\ tx[t].user \notin boot.mine
        /\ tx[t].row.version = row[tx[t].user].version + 1
        /\ Effect(tx[t].kind, row[tx[t].user].active, tx[t].row.active)
        /\ \A s \in Tx \ {t} : tx[s].open => tx[s].user # tx[t].user
        /\ row[tx[t].user].version \in Nat
    BY <1>0, <2>1, OpenTx DEF OutboxTypeOK, RowType, MirrorInv, RowsAreLocked
  <2>5. CASE Rollback(t)
    <3>1. row' = row /\ outbox' = outbox
      BY <2>5 DEF Rollback
    <3>2. RowsAreLocked'
      BY <2>1, <2>2, <3>1 DEF MirrorInv, RowsAreLocked
    <3>3. BatchesTell'
      BY <2>1, <2>2, <2>3, <3>1 DEF MirrorInv, BatchesTell
    <3> QED BY <2>1, <3>1, <3>2, <3>3 DEF MirrorInv, SequencesRise, AsTold, Brakes, Leaves, ReadIsKnown
  <2>6. CASE Commit(t)
    <3>0. PICK u \in User : u = tx[t].user
      BY <2>4
    <3>1. PICK A : u = tx[t].user /\ A = Batch(t)
      BY <3>0
    <3>2. /\ outbox' = outbox \union A /\ row' = [row EXCEPT ![u] = tx[t].row]
          /\ tx[t].kind = "none" \/ A # {}
      BY <2>4, <2>6, <3>1 DEF Commit
    <3>3. row'[u] = tx[t].row /\ \A v \in User \ {u} : row'[v] = row[v]
      BY <1>0, <3>2 DEF OutboxTypeOK
    <3>4. Later(A)
      BY <3>1 DEF FeedInv, CommitsExtend
    <3>5. \A e \in A : /\ e.user = u /\ e.kind = tx[t].kind /\ e.sequence = tx[t].row.version
                       /\ \A f \in A : f = e
      BY <3>1 DEF MirrorInv, BatchesTell
    <3>6. ASSUME NEW v \in User
          PROVE  \/ /\ \A e \in A : e.user # v
                    /\ row'[v].version >= row[v].version /\ (row'[v].active <=> row[v].active)
                 \/ \E a \in A :
                      /\ a.user = v /\ \A e \in A : e.user = v => e = a
                      /\ a.sequence = row[v].version + 1 /\ row'[v].version = a.sequence
                      /\ Effect(a.kind, row[v].active, row'[v].active)
      <4>1. CASE v # u
        <5>1. row[v].version \in Nat
          BY <1>0 DEF OutboxTypeOK, RowType
        <5> QED BY <3>3, <3>5, <4>1, <5>1
      <4>2. CASE v = u /\ A = {}
        <5>1. tx[t].kind = "none"
          BY <3>2, <4>2
        <5>2. row'[v].active <=> row[v].active
          BY <2>4, <3>1, <3>3, <4>2, <5>1 DEF Effect
        <5> QED BY <2>4, <3>1, <3>3, <4>2, <5>2
      <4>3. CASE v = u /\ A # {}
        <5>1. PICK a \in A : TRUE
          BY <4>3
        <5>2. /\ a.user = v /\ \A e \in A : e.user = v => e = a
              /\ a.sequence = row[v].version + 1 /\ row'[v].version = a.sequence
          BY <2>4, <3>1, <3>3, <3>5, <4>3
        <5>3. Effect(a.kind, row[v].active, row'[v].active)
          BY <2>4, <3>1, <3>3, <3>5, <4>3
        <5> QED BY <5>2, <5>3
      <4> QED BY <4>1, <4>2, <4>3
    <3>7. SequencesRise' /\ AsTold' /\ ReadIsKnown'
      BY <2>1, <3>2, <3>4, <3>6, CommitTells
    <3>8. RowsAreLocked'
      <4>1. \A s \in Tx \ {t} : tx[s].open => row'[tx[s].user] = row[tx[s].user]
        BY <1>0, <2>4, <3>1, <3>3, OpenTx
      <4>2. \A v \in User : row'[v].version = 0 => row'[v].active
        BY <2>4, <3>1, <3>3 DEF MirrorInv, RowsAreLocked
      <4> QED BY <2>1, <2>2, <4>1, <4>2 DEF MirrorInv, RowsAreLocked
    <3>9. BatchesTell'
      <4>1. \A e \in boot.entries : e.user \in User /\ e.user # u
        BY <1>0, <2>4, <3>1 DEF MirrorInv, BatchesTell, OutboxTypeOK, BootType
      <4>2. \A e \in boot.entries : row'[e.user] = row[e.user]
        BY <3>3, <4>1
      <4> QED BY <2>1, <2>2, <2>3, <4>2 DEF MirrorInv, BatchesTell
    <3> QED BY <3>7, <3>8, <3>9 DEF MirrorInv
  <2> QED BY <1>3, <2>5, <2>6
<1> QED BY <1>1, <1>2, <1>3

(* What the mirror is compared with, and the mirror. *)
Committed == <<row, outbox, cursor, mirror, answer>>

(* What is said of committed rows and the mirror stays while they do. *)
LEMMA CommittedStays ==
  ASSUME SequencesRise, AsTold, ReadIsKnown, UNCHANGED Committed
  PROVE  SequencesRise' /\ AsTold' /\ ReadIsKnown'
BY DEF Committed, SequencesRise, AsTold, Brakes, Leaves, ReadIsKnown

(* The announcement: events that freeze nobody, each newer than its account's last. *)
LEMMA BootTells ==
  ASSUME FeedInv, FeedInv', MirrorInv, Announces
  PROVE  MirrorInv'
<1>0. /\ OutboxTypeOK /\ OutboxTypeOK'
      /\ boot.mine \in SUBSET User
      /\ \A u \in User : row[u].version \in Nat
      /\ \A t \in Tx : tx[t].open => tx[t].user \in User
  BY OpenTx DEF FeedInv, OutboxTypeOK, BootType, RowType
<1>1. tx' = tx /\ UNCHANGED <<cursor, mirror, answer>> /\ \A t \in Tx : Batch(t)' = Batch(t)
  BY DEF Announces, Announce, AnnounceLocks, AnnounceAppends, AnnounceCommits, AnnounceFails, consumer, Batch
<1>2. CASE Announce \/ AnnounceFails
  <2>1. boot'.mine = {} /\ boot'.entries = {}
    BY <1>2 DEF Announce, AnnounceFails, Quiet
  <2>2. row' = row /\ outbox' = outbox
    BY <1>2 DEF Announce, AnnounceFails
  <2>3. RowsAreLocked' /\ BatchesTell'
    BY <1>1, <2>1, <2>2 DEF MirrorInv, RowsAreLocked, BatchesTell
  <2> QED BY <1>1, <2>2, <2>3, CommittedStays DEF MirrorInv, Committed
<1>3. ASSUME NEW u \in User, AnnounceLocks(u) PROVE MirrorInv'
  <2>1. /\ boot'.mine = boot.mine \union {u} /\ boot'.entries = boot.entries
        /\ row' = row /\ outbox' = outbox
        /\ \A t \in Tx : tx[t].open => tx[t].user # u
    BY <1>0, <1>3 DEF AnnounceLocks, RowFree, OutboxTypeOK, BootType
  <2>2. RowsAreLocked' /\ BatchesTell'
    BY <1>1, <2>1 DEF MirrorInv, RowsAreLocked, BatchesTell
  <2> QED BY <1>1, <2>1, <2>2, CommittedStays DEF MirrorInv, Committed
<1>4. CASE AnnounceAppends
  <2>1. /\ boot'.mine = boot.mine /\ boot'.entries = Announced
        /\ row' = row /\ outbox' = outbox
    BY <1>0, <1>4 DEF AnnounceAppends, Announced, OutboxTypeOK, BootType
  <2>2. RowsAreLocked'
    BY <1>1, <2>1 DEF MirrorInv, RowsAreLocked
  <2>3. ASSUME NEW e \in Announced
        PROVE  /\ e.user \in boot.mine /\ e.kind = "PERMISSIONS_CHANGED" /\ e.sequence = row[e.user].version + 1
               /\ \A f \in Announced : f.user = e.user => f = e
    <3> DEFINE entry(u) == Entry(drawn + Cardinality({v \in boot.mine : v <= u}), u, "PERMISSIONS_CHANGED",
                                 row[u].version + 1, boot.states)
    <3>1. Announced = {entry(u) : u \in boot.mine}
      BY DEF Announced
    <3>2. \A u \in boot.mine : /\ entry(u).user = u /\ entry(u).kind = "PERMISSIONS_CHANGED"
                              /\ entry(u).sequence = row[u].version + 1
      BY DEF Entry
    <3> HIDE DEF entry
    <3>3. \A f \in Announced : f.user \in boot.mine /\ f = entry(f.user)
      BY <3>1, <3>2
    <3> QED BY <3>2, <3>3
  <2>4. BatchesTell'
    BY <1>1, <2>1, <2>3 DEF MirrorInv, BatchesTell
  <2> QED BY <1>1, <2>1, <2>2, <2>4, CommittedStays DEF MirrorInv, Committed
<1>5. CASE AnnounceCommits
  <2>1. PICK A : A = boot.entries
    OBVIOUS
  <2>2. /\ outbox' = outbox \union A /\ boot'.mine = {} /\ boot'.entries = {}
        /\ row' = [u \in User |-> IF u \in boot.mine THEN [row[u] EXCEPT !.version = @ + 1] ELSE row[u]]
    BY <1>5, <2>1 DEF AnnounceCommits, Quiet
  <2>3. /\ \A u \in boot.mine : row'[u].version = row[u].version + 1 /\ row'[u].active = row[u].active
        /\ \A u \in User \ boot.mine : row'[u] = row[u]
    BY <1>0, <2>2 DEF OutboxTypeOK, RowType
  <2>4. \A e \in A : /\ e.user \in boot.mine /\ e.kind = "PERMISSIONS_CHANGED" /\ e.sequence = row[e.user].version + 1
                     /\ \A f \in A : f.user = e.user => f = e
    BY <2>1 DEF MirrorInv, BatchesTell
  <2>5. Later(A)
    BY <2>1 DEF FeedInv, CommitsExtend
  <2>6. ASSUME NEW u \in User
        PROVE  \/ /\ \A e \in A : e.user # u
                  /\ row'[u].version >= row[u].version /\ (row'[u].active <=> row[u].active)
               \/ \E a \in A :
                    /\ a.user = u /\ \A e \in A : e.user = u => e = a
                    /\ a.sequence = row[u].version + 1 /\ row'[u].version = a.sequence
                    /\ Effect(a.kind, row[u].active, row'[u].active)
    <3>1. row'[u].version >= row[u].version /\ (row'[u].active <=> row[u].active)
      BY <1>0, <2>3
    <3>2. CASE \A e \in A : e.user # u
      BY <3>1, <3>2
    <3>3. CASE \E e \in A : e.user = u
      <4>1. PICK a \in A : a.user = u
        BY <3>3
      <4>2. /\ \A e \in A : e.user = u => e = a
            /\ a.sequence = row[u].version + 1 /\ row'[u].version = a.sequence
        BY <2>3, <2>4, <4>1
      <4>3. Effect(a.kind, row[u].active, row'[u].active)
        BY <2>4, <3>1 DEF Effect
      <4> QED BY <4>1, <4>2, <4>3
    <3> QED BY <3>2, <3>3
  <2>7. SequencesRise' /\ AsTold' /\ ReadIsKnown'
    BY <1>1, <2>2, <2>5, <2>6, CommitTells
  <2>8. \A t \in Tx : tx[t].open => row'[tx[t].user] = row[tx[t].user]
    BY <1>0, <2>3 DEF MirrorInv, RowsAreLocked
  <2>9. \A u \in User : row'[u].version = 0 => row'[u].active
    BY <1>0, <2>3 DEF MirrorInv, RowsAreLocked
  <2>10. RowsAreLocked'
    <3>1. \A s, t \in Tx : tx[s].open /\ tx[t].open /\ tx[s].user = tx[t].user => s = t
      BY DEF MirrorInv, RowsAreLocked
    <3>2. \A t \in Tx : tx[t].open =>
            /\ tx[t].row.version = row'[tx[t].user].version + 1
            /\ Effect(tx[t].kind, row'[tx[t].user].active, tx[t].row.active)
      BY <2>8 DEF MirrorInv, RowsAreLocked
    <3> QED BY <1>1, <2>2, <2>9, <3>1, <3>2 DEF RowsAreLocked
  <2>11. BatchesTell'
    BY <1>1, <2>2 DEF MirrorInv, BatchesTell
  <2> QED BY <2>7, <2>10, <2>11 DEF MirrorInv
<1> QED BY <1>2, <1>3, <1>4, <1>5 DEF Announces

(* A page is the beginning of what lies ahead: whatever it ends before is in it. *)
LEMMA PageIsPrefix ==
  ASSUME OutboxTypeOK, Ordered(outbox), NEW e \in Ahead, NEW g \in Served, e.position <= g.position
  PROVE  e \in Served
<1> DEFINE below == {f \in Ahead : f.position <= e.position}
           page == {f \in Ahead : f.position <= g.position}
<1>1. \A f \in Ahead : f.position \in Nat
  BY DEF Ahead, OutboxTypeOK, EntryType
<1>2. g \in Ahead /\ Cardinality(page) <= Page
  BY DEF Served
<1>3. below \in SUBSET page
  BY <1>1, <1>2
<1>4. IsFiniteSet(page)
  BY FS_Subset DEF Ahead, Ordered
<1>5. Cardinality(below) <= Cardinality(page) /\ IsFiniteSet(below)
  <2> HIDE DEF below, page
  <2> QED BY <1>3, <1>4, FS_Subset
<1>6. Cardinality(below) \in Nat /\ Cardinality(page) \in Nat
  BY <1>4, <1>5, FS_CardinalityType
<1>7. Cardinality(below) <= Page
  <2> HIDE DEF below, page
  <2> QED BY <1>2, <1>5, <1>6, PageAssumption
<1> QED BY <1>7 DEF Served

(* The event that is applied next is newer than everything the mirror knows *)
(* or is known already.                                                     *)
LEMMA ApplyTells ==
  ASSUME FeedInv, MirrorInv, NEW e \in answer.left, answer.open,
         \A f \in answer.left : e.position <= f.position,
         e.sequence > mirror[e.user].sequence
  PROVE  Leaves(Brakes(e.user, e.sequence), Freezes(e, mirror[e.user].frozen))
<1> DEFINE u == e.user
           S == Brakes(u, mirror[u].sequence)
<1>1. /\ e \in outbox /\ e \in EntryType /\ u \in User /\ outbox \subseteq EntryType /\ mirror[u].sequence \in Nat
      /\ answer.next \in Nat /\ answer.left \subseteq outbox
  BY OpenAnswer DEF FeedInv, OutboxTypeOK, MirrorInv, ReadIsKnown, EntryType
<1>2. \A f \in outbox : f.sequence \in Nat /\ f.position \in Nat
  BY <1>1 DEF EntryType
<1>3. ASSUME NEW f \in outbox, f.user = u, f.sequence <= e.sequence, f # e PROVE f.sequence <= mirror[u].sequence
  <2>1. f.position # e.position
    BY <1>1, <1>3 DEF FeedInv, CommitsExtend, Ordered
  <2>2. ~(e.position < f.position)
    BY <1>1, <1>2, <1>3 DEF MirrorInv, SequencesRise
  <2>3. f.position < e.position
    BY <1>1, <1>2, <2>1, <2>2
  <2>4. f \notin answer.left
    BY <1>1, <1>2, <2>3
  <2>5. f.position <= answer.next
    BY <1>1, <1>2, <2>3 DEF FeedInv, MirrorInv, ReadIsKnown
  <2> QED BY <1>3, <2>4, <2>5 DEF MirrorInv, ReadIsKnown
<1>4. Leaves(S, mirror[u].frozen) /\ S \subseteq EntryType
  BY <1>1 DEF MirrorInv, AsTold, Brakes
<1>5. \A f \in S : f.sequence < e.sequence
  BY <1>1, <1>2 DEF Brakes
<1>6. CASE e.kind \in {"SUSPENDED", "REINSTATED"}
  <2>1. Brakes(u, e.sequence) = S \union {e}
    BY <1>1, <1>2, <1>3, <1>6 DEF Brakes
  <2> DEFINE after == Freezes(e, mirror[u].frozen)
  <2>2. after <=> e.kind = "SUSPENDED"
    BY <1>6 DEF Freezes
  <2> HIDE DEF S, u, after
  <2>3. Leaves(S \union {e}, after)
    BY <1>1, <1>4, <1>5, <2>2, NewerDecides
  <2> QED BY <2>1, <2>3 DEF u, after
<1>7. CASE e.kind \notin {"SUSPENDED", "REINSTATED"}
  <2>1. Brakes(u, e.sequence) = S
    BY <1>1, <1>2, <1>3, <1>7 DEF Brakes
  <2>2. Freezes(e, mirror[u].frozen) = mirror[u].frozen
    BY <1>7 DEF Freezes
  <2> QED BY <1>4, <2>1, <2>2
<1> QED BY <1>6, <1>7

(* The reader's steps: a page in order, each event into the mirror before the cursor. *)
LEMMA ReadTells ==
  ASSUME FeedInv, FeedInv', MirrorInv, Reads
  PROVE  MirrorInv'
<1>0. /\ OutboxTypeOK /\ OutboxTypeOK' /\ Ordered(outbox) /\ outbox \subseteq EntryType
      /\ \A e \in outbox : e.user \in User /\ e.position \in Nat /\ e.sequence \in Nat
      /\ \A u \in User : mirror[u].sequence \in Nat /\ row[u].version \in Nat
      /\ cursor \in Nat
  BY DEF FeedInv, CommitsExtend, OutboxTypeOK, EntryType, RowType
<1>1. UNCHANGED <<row, outbox, tx, boot>>
  BY DEF Reads, Pull, Apply, Advance, Lose
<1>2. RowsAreLocked' /\ BatchesTell' /\ SequencesRise'
  BY <1>1 DEF MirrorInv, RowsAreLocked, BatchesTell, SequencesRise, Batch
<1>3. CASE Pull
  <2>1. /\ answer' = [open |-> TRUE, left |-> Served, next |-> answer'.next]
        /\ \E g \in Served : g.position = answer'.next /\ \A f \in Served : f.position <= g.position
    BY <1>0, <1>3, PullEnds
  <2>2. PICK g \in Served : g.position = answer'.next /\ \A f \in Served : f.position <= g.position
    BY <2>1
  <2>3. cursor' = cursor /\ mirror' = mirror /\ answer'.left = Served
    BY <1>3 DEF Pull
  <2>4. ASSUME NEW e \in outbox \ Served, e.position <= answer'.next PROVE e.sequence <= mirror[e.user].sequence
    <3>1. e \notin Ahead
      BY <1>0, <2>2, <2>4, PageIsPrefix
    <3>2. e.position <= cursor
      BY <1>0, <3>1 DEF Ahead
    <3> QED BY <3>2 DEF MirrorInv, ReadIsKnown
  <2>5. Served \subseteq outbox
    BY DEF Served, Ahead
  <2>6. ReadIsKnown'
    BY <1>1, <2>2, <2>3, <2>4, <2>5 DEF MirrorInv, ReadIsKnown
  <2>7. AsTold'
    BY <1>1, <2>3 DEF MirrorInv, AsTold, Brakes, Leaves
  <2> QED BY <1>2, <2>6, <2>7 DEF MirrorInv
<1>4. CASE Apply
  <2>1. PICK e \in answer.left :
          /\ \A f \in answer.left : e.position <= f.position
          /\ answer' = [answer EXCEPT !.left = @ \ {e}]
          /\ mirror' = IF e.sequence > mirror[e.user].sequence
                       THEN [mirror EXCEPT ![e.user] =
                              [sequence |-> e.sequence, frozen |-> Freezes(e, @.frozen)]]
                       ELSE mirror
    BY <1>4 DEF Apply
  <2>2. /\ cursor' = cursor /\ answer.open
        /\ answer'.open /\ answer'.left = answer.left \ {e} /\ answer'.next = answer.next
    BY <1>0, <1>4, <2>1, OpenAnswer DEF Apply
  <2>3. e \in outbox
    BY <2>2 DEF MirrorInv, ReadIsKnown
  <2>4. /\ \A u \in User : mirror[u].sequence <= mirror'[u].sequence
        /\ e.sequence <= mirror'[e.user].sequence
        /\ \A u \in User : mirror'[u].sequence \in Nat
    <3>1. CASE e.sequence > mirror[e.user].sequence
      <4>1. /\ mirror'[e.user].sequence = e.sequence
            /\ \A u \in User \ {e.user} : mirror'[u] = mirror[u]
        BY <1>0, <2>1, <2>3, <3>1 DEF OutboxTypeOK
      <4> QED BY <1>0, <2>3, <3>1, <4>1
    <3>2. CASE ~(e.sequence > mirror[e.user].sequence)
      BY <1>0, <2>1, <2>3, <3>2
    <3> QED BY <3>1, <3>2
  <2>5. ReadIsKnown'
    <3>1. \A f \in outbox : f.sequence <= mirror[f.user].sequence => f.sequence <= mirror'[f.user].sequence
      BY <1>0, <2>4
    <3> QED BY <1>1, <2>2, <2>4, <3>1 DEF MirrorInv, ReadIsKnown
  <2>6. AsTold'
    <3>1. CASE ~(e.sequence > mirror[e.user].sequence)
      <4>1. mirror' = mirror
        BY <2>1, <3>1
      <4> QED BY <1>1, <4>1 DEF MirrorInv, AsTold, Brakes, Leaves
    <3>2. CASE e.sequence > mirror[e.user].sequence
      <4> DEFINE after == Freezes(e, mirror[e.user].frozen)
      <4>1. Leaves(Brakes(e.user, e.sequence), after)
        BY <2>1, <2>2, <3>2, ApplyTells
      <4> HIDE DEF after
      <4>2. mirror' = [mirror EXCEPT ![e.user] = [sequence |-> e.sequence, frozen |-> after]]
        BY <2>1, <3>2 DEF after
      <4>3. /\ mirror'[e.user].sequence = e.sequence /\ mirror'[e.user].frozen = after
            /\ \A u \in User \ {e.user} : mirror'[u] = mirror[u]
        BY <1>0, <2>3, <4>2 DEF OutboxTypeOK
      <4>4. e.sequence <= row[e.user].version
        BY <2>3 DEF MirrorInv, SequencesRise
      <4>5. ASSUME NEW u \in User
            PROVE  /\ Leaves(Brakes(u, row[u].version), ~row[u].active)'
                   /\ Leaves(Brakes(u, mirror[u].sequence), mirror[u].frozen)'
                   /\ mirror'[u].sequence <= row'[u].version
        <5>1. Leaves(Brakes(u, row[u].version), ~row[u].active)'
          BY <1>1 DEF MirrorInv, AsTold, Brakes, Leaves
        <5>2. CASE u # e.user
          BY <1>1, <4>3, <5>1, <5>2 DEF MirrorInv, AsTold, Brakes, Leaves
        <5>3. CASE u = e.user
          BY <1>1, <4>1, <4>3, <4>4, <5>1, <5>3 DEF Brakes, Leaves
        <5> QED BY <5>2, <5>3
      <4> QED BY <4>5 DEF AsTold
    <3> QED BY <3>1, <3>2
  <2> QED BY <1>2, <2>5, <2>6 DEF MirrorInv
<1>5. CASE Advance
  <2>1. /\ cursor' = answer.next /\ answer.left = {} /\ answer.open /\ ~answer'.open /\ mirror' = mirror
    BY <1>5 DEF Advance, Nobody
  <2>2. ReadIsKnown'
    BY <1>1, <2>1 DEF MirrorInv, ReadIsKnown
  <2>3. AsTold'
    BY <1>1, <2>1 DEF MirrorInv, AsTold, Brakes, Leaves
  <2> QED BY <1>2, <2>2, <2>3 DEF MirrorInv
<1>6. CASE Lose
  <2>1. cursor' = cursor /\ ~answer'.open /\ mirror' = mirror
    BY <1>6 DEF Lose, Nobody
  <2>2. ReadIsKnown'
    BY <1>1, <2>1 DEF MirrorInv, ReadIsKnown
  <2>3. AsTold'
    BY <1>1, <2>1 DEF MirrorInv, AsTold, Brakes, Leaves
  <2> QED BY <1>2, <2>2, <2>3 DEF MirrorInv
<1> QED BY <1>3, <1>4, <1>5, <1>6 DEF Reads

(* Every step keeps what the mirror rests on. *)
LEMMA MirrorStep == FeedInv /\ FeedInv' /\ MirrorInv /\ [OutboxNext]_outboxVars => MirrorInv'
<1> SUFFICES ASSUME FeedInv, FeedInv', MirrorInv, [OutboxNext]_outboxVars PROVE MirrorInv'
  OBVIOUS
<1>1. CASE UNCHANGED outboxVars
  <2>1. UNCHANGED Committed
    BY <1>1 DEF outboxVars, Committed
  <2>2. RowsAreLocked' /\ BatchesTell'
    BY <1>1 DEF outboxVars, MirrorInv, RowsAreLocked, BatchesTell, Batch
  <2> QED BY <2>1, <2>2, CommittedStays DEF MirrorInv
<1>2. CASE OutboxNext
  BY <1>2, TxTells, BootTells, ReadTells DEF OutboxNext, Announces, Reads
<1> QED BY <1>1, <1>2

(* What is left of a finite set of events is decided by one of them. *)
LEMMA OneIsLast ==
  ASSUME FeedInv, MirrorInv, NEW u \in User, NEW s, NEW S, S = Brakes(u, s), S # {}
  PROVE  \E e \in S : \A f \in S : f.sequence <= e.sequence
<1> DEFINE key == [e \in S |-> e.sequence]
<1>1. S \in SUBSET outbox /\ outbox \subseteq EntryType /\ \A e \in S : e.user = u
  BY DEF Brakes, FeedInv, OutboxTypeOK
<1>2. IsFiniteSet(S)
  BY <1>1, FS_Subset DEF FeedInv, CommitsExtend, Ordered
<1>3. key \in [S -> Nat]
  BY <1>1 DEF EntryType
<1>4. ASSUME NEW e \in S, NEW f \in S, key[e] = key[f] PROVE e = f
  <2>1. e \in outbox /\ f \in outbox /\ e.user = f.user /\ e.sequence = f.sequence
        /\ e.position \in Nat /\ f.position \in Nat /\ e.sequence \in Nat
    BY <1>1, <1>4 DEF EntryType
  <2>2. ~(e.position < f.position) /\ ~(f.position < e.position)
    BY <2>1 DEF MirrorInv, SequencesRise
  <2>3. e.position = f.position
    BY <2>1, <2>2
  <2> QED BY <2>1, <2>3 DEF FeedInv, CommitsExtend, Ordered
<1> HIDE DEF key
<1>5. /\ Cardinality(S) \in Nat
      /\ \A e \in S : Rank(S, key, e) \in 1..Cardinality(S)
      /\ \A e, f \in S : key[e] < key[f] => Rank(S, key, e) < Rank(S, key, f)
      /\ \A i \in 1..Cardinality(S) : \E e \in S : Rank(S, key, e) = i
  BY <1>2, <1>3, <1>4, Ranks
<1>6. Cardinality(S) # 0
  BY <1>2, FS_EmptySet
<1>7. PICK e \in S : Rank(S, key, e) = Cardinality(S)
  BY <1>5, <1>6
<1>8. ASSUME NEW f \in S PROVE f.sequence <= e.sequence
  <2>1. ~(key[e] < key[f])
    BY <1>5, <1>7
  <2>2. key[e] \in Nat /\ key[f] \in Nat
    BY <1>3
  <2>3. key[f] <= key[e]
    BY <2>1, <2>2
  <2> QED BY <2>3 DEF key
<1> QED BY <1>8

(* Account and mirror know the same events, and the last of them decides both. *)
LEMMA KnownIsFaithful ==
  ASSUME FeedInv, MirrorInv
  PROVE  MirrorIsFaithful
<1> SUFFICES ASSUME NEW u \in User, \A e \in EntriesOf(u) : e.position <= cursor
             PROVE  mirror[u].frozen = ~row[u].active
  BY DEF MirrorIsFaithful
<1>1. mirror[u].frozen \in BOOLEAN /\ row[u].active \in BOOLEAN
  BY DEF FeedInv, OutboxTypeOK, RowType
<1>2. \A e \in outbox : e.user = u => e.sequence <= mirror[u].sequence /\ e.sequence <= row[u].version
  BY DEF EntriesOf, MirrorInv, ReadIsKnown, SequencesRise
<1>3. PICK S : S = Brakes(u, row[u].version)
  OBVIOUS
<1>4. S = Brakes(u, mirror[u].sequence)
  BY <1>2, <1>3 DEF Brakes
<1>5. Leaves(S, ~row[u].active) /\ Leaves(S, mirror[u].frozen)
  BY <1>3, <1>4 DEF MirrorInv, AsTold
<1>6. CASE S = {}
  BY <1>1, <1>5, <1>6 DEF Leaves
<1>7. CASE S # {}
  <2>1. PICK e \in S : \A f \in S : f.sequence <= e.sequence
    BY <1>3, <1>7, OneIsLast
  <2>2. (~row[u].active <=> e.kind = "SUSPENDED") /\ (mirror[u].frozen <=> e.kind = "SUSPENDED")
    BY <1>5, <2>1 DEF Leaves
  <2> QED BY <1>1, <2>2
<1> QED BY <1>6, <1>7

(***************************************************************************)
(* Whatever repeats, is lost or rolls back: an account none of whose       *)
(* events is ahead of the cursor is frozen there exactly when it is        *)
(* disabled here.                                                          *)
(***************************************************************************)
THEOREM MirrorIsTrue == OutboxSpec => []MirrorIsFaithful
BY OutboxInitInvariant, MirrorInit, FeedStep, MirrorStep, KnownIsFaithful, PTL DEF OutboxSpec

(* Every variable of the outbox keeps its type. *)
THEOREM OutboxTypeCorrect == OutboxSpec => []OutboxTypeOK
BY FeedInvariance, PTL DEF FeedInv
=============================================================================
