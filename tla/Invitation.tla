----------------------------- MODULE Invitation -----------------------------
(***************************************************************************)
(* How the target of a removal answers it: the mailed token names the      *)
(* proposal, the mailed code proves that a human read the message          *)
(* (self_decision in runner/src/infrastructure/governance.rs).             *)
(*                                                                         *)
(* A request takes its own clock reading when it arrives, waits for the    *)
(* governance lock, reads the token and the proposal, and then answers     *)
(* from what it read.  Only the attempt counter is moved by the database,  *)
(* in place, under a CHECK that refuses to let it pass its maximum.  The   *)
(* expiry of the token is that of the proposal (open_removal), so the      *)
(* branch of self_decision that would expire the proposal is never taken.  *)
(***************************************************************************)
EXTENDS Integers, FiniteSets

CONSTANTS
  Request,      \* submissions in flight
  MaxAttempts   \* codes a token takes (MAX_CODE_ATTEMPTS, and the CHECK of the table)

ASSUME AttemptsAssumption == MaxAttempts \in Nat \ {0}

VARIABLES
  removal,    \* the proposal: its state and the target's decision
  token,      \* the token's row
  late,       \* the deadline has passed
  request,    \* the submissions
  misses,     \* history: how many wrong codes were answered as such
  confirmed   \* history: the answers somebody was told had been recorded

vars == <<removal, token, late, request, misses, confirmed>>

Vote    == {"remove", "keep"}
State   == {"open", "executed", "void", "rejected", "expired", "cancelled"}
Answer  == {"unusable", "wrong_code", "decided", "error"}
Removal == [state : State, decision : Vote \union {"pending"}]
Token   == [attempts : 0..MaxAttempts, burned : BOOLEAN, used : BOOLEAN]

Form == [vote : Vote, right : BOOLEAN, late : BOOLEAN]

Init ==
  /\ removal = [state |-> "open", decision |-> "pending"]
  /\ token = [attempts |-> 0, burned |-> FALSE, used |-> FALSE]
  /\ late = FALSE
  /\ request = [r \in Request |-> [phase |-> "none"]]
  /\ misses = 0
  /\ confirmed = {}

Deciding(r) == request[r].phase = "deciding"
Free        == \A r \in Request : ~Deciding(r)

Answered(r, a) == [request EXCEPT ![r] = [phase |-> "answered", form |-> @.form, answer |-> a]]

(* A form is posted, for the first time or again. *)
Submit(r, vote, right) ==
  /\ request[r].phase \in {"none", "answered"}
  /\ request' = [request EXCEPT ![r] =
       [phase |-> "waiting", form |-> [vote |-> vote, right |-> right, late |-> late]]]
  /\ UNCHANGED <<removal, token, late, misses, confirmed>>

(* Mutant: neither the governance row nor the token's is locked. *)
Enter_Unserialised(r) ==
  /\ request[r].phase = "waiting"
  /\ request' = [request EXCEPT ![r] =
       [phase |-> "deciding", form |-> @.form, token |-> token, removal |-> removal]]
  /\ UNCHANGED <<removal, token, late, misses, confirmed>>

(* The governance lock, then the token's row, then the proposal's. *)
Enter(r) ==
  /\ request[r].phase = "waiting"
  /\ Free
  /\ request' = [request EXCEPT ![r] =
       [phase |-> "deciding", form |-> @.form, token |-> token, removal |-> removal]]
  /\ UNCHANGED <<removal, token, late, misses, confirmed>>

(* Mutant: the token outlives the proposal's deadline. *)
Answerable_Late(r) ==
  LET seen == request[r] IN
  /\ ~seen.token.burned
  /\ ~seen.token.used => seen.removal.state = "open"

(* Burned, expired and closed all refuse before anything is counted. *)
Answerable(r) ==
  LET seen == request[r] IN
  /\ ~seen.token.burned
  /\ ~seen.form.late
  /\ ~seen.token.used => seen.removal.state = "open"

Refuse(r) ==
  /\ Deciding(r)
  /\ ~Answerable(r)
  /\ request' = Answered(r, "unusable")
  /\ UNCHANGED <<removal, token, late, misses, confirmed>>

(* The attempt is counted first of all, if the table lets it. *)
Counts(r) == Deciding(r) /\ Answerable(r) /\ token.attempts < MaxAttempts

OneMoreAttempt(burned, used) == [attempts |-> token.attempts + 1, burned |-> burned, used |-> used]

CheckFails(r) ==
  /\ Deciding(r)
  /\ Answerable(r)
  /\ token.attempts = MaxAttempts
  /\ request' = Answered(r, "error")
  /\ UNCHANGED <<removal, token, late, misses, confirmed>>

(* Mutant: the transaction of a wrong answer is rolled back. *)
WrongCode_Forgotten(r) ==
  /\ Counts(r)
  /\ ~request[r].form.right
  /\ misses' = misses + 1
  /\ request' = Answered(r, "wrong_code")
  /\ UNCHANGED <<removal, token, late, confirmed>>

(* The count is committed, and the last one burns the token. *)
WrongCode(r) ==
  /\ Counts(r)
  /\ ~request[r].form.right
  /\ token' = OneMoreAttempt(token.attempts + 1 >= MaxAttempts, token.used)
  /\ misses' = misses + 1
  /\ request' = Answered(r, "wrong_code")
  /\ UNCHANGED <<removal, late, confirmed>>

(* A spent token confirms the answer it was spent on, and only that one. *)
Repeat(r) ==
  LET form == request[r].form IN
  /\ Counts(r)
  /\ form.right
  /\ request[r].token.used
  /\ IF form.vote = request[r].removal.decision
     THEN /\ token' = OneMoreAttempt(token.burned, token.used)
          /\ request' = Answered(r, "decided")
          /\ confirmed' = confirmed \union {form.vote}
     ELSE /\ request' = Answered(r, "unusable")
          /\ UNCHANGED <<token, confirmed>>
  /\ UNCHANGED <<removal, late, misses>>

(***************************************************************************)
(* Consent carries the proposal, or voids it where the seat cannot be      *)
(* taken; a refusal leaves it to the peers, and rejects it if there are    *)
(* none.                                                                   *)
(***************************************************************************)
StateAfter(vote) == IF vote = "remove" THEN {"executed", "void"} ELSE {"open", "rejected"}

Decide(r) ==
  LET form == request[r].form IN
  /\ Counts(r)
  /\ form.right
  /\ ~request[r].token.used
  /\ \E s \in StateAfter(form.vote) : removal' = [state |-> s, decision |-> form.vote]
  /\ token' = OneMoreAttempt(token.burned, TRUE)
  /\ request' = Answered(r, "decided")
  /\ confirmed' = confirmed \union {form.vote}
  /\ UNCHANGED <<late, misses>>

(* The connection or the process dies before the commit. *)
Die(r) ==
  /\ Deciding(r)
  /\ request' = [request EXCEPT ![r] = [phase |-> "none"]]
  /\ UNCHANGED <<removal, token, late, misses, confirmed>>

(* The peers, the initiator or a resignation end it, under the same lock. *)
CloseRemoval ==
  /\ Free
  /\ removal.state = "open"
  /\ \E s \in State \ {"open", "expired"} : removal' = [removal EXCEPT !.state = s]
  /\ UNCHANGED <<token, late, request, misses, confirmed>>

Deadline ==
  /\ ~late
  /\ late' = TRUE
  /\ UNCHANGED <<removal, token, request, misses, confirmed>>

(* Whoever writes the proposal next finds it due. *)
Expire ==
  /\ Free
  /\ late
  /\ removal.state = "open"
  /\ removal' = [removal EXCEPT !.state = "expired"]
  /\ UNCHANGED <<token, late, request, misses, confirmed>>

Next ==
  \/ \E r \in Request :
       \/ \E vote \in Vote, right \in BOOLEAN : Submit(r, vote, right)
       \/ Enter(r) \/ Refuse(r) \/ CheckFails(r) \/ WrongCode(r) \/ Repeat(r) \/ Decide(r) \/ Die(r)
  \/ CloseRemoval \/ Deadline \/ Expire

Spec == Init /\ [][Next]_vars

(***************************************************************************)
(* Correctness                                                             *)
(***************************************************************************)

RequestType ==
  [phase : {"none"}]
    \union [phase : {"waiting"}, form : Form]
    \union [phase : {"deciding"}, form : Form, token : Token, removal : Removal]
    \union [phase : {"answered"}, form : Form, answer : Answer]

(* Types, and the second CHECK of the token's table. *)
TypeOK ==
  /\ removal \in Removal
  /\ token \in Token
  /\ token.burned => token.attempts = MaxAttempts
  /\ late \in BOOLEAN
  /\ request \in [Request -> RequestType]
  /\ misses \in Nat
  /\ confirmed \subseteq Vote

(***************************************************************************)
(* However many submissions race, no more codes are refused than the token *)
(* has attempts, and once they are used up the token is dead: the cap the  *)
(* transaction-bound counter is there for.                                 *)
(***************************************************************************)
GuessesAreCapped ==
  /\ misses <= token.attempts
  /\ misses = MaxAttempts => token.burned

(***************************************************************************)
(* The target decides once, by the right code posted before the deadline,  *)
(* and only a proposal that is open at that moment.                        *)
(***************************************************************************)
DecidesOnce ==
  [][removal'.decision # removal.decision =>
       /\ removal.decision = "pending"
       /\ removal.state = "open"
       /\ ~token.burned
       /\ \E r \in Request :
            Deciding(r) /\ request[r].form = [vote |-> removal'.decision, right |-> TRUE, late |-> FALSE]]_vars

(***************************************************************************)
(* Nobody is ever told that an answer was recorded which was not: what was *)
(* confirmed, to whomever and however often, is the decision.              *)
(***************************************************************************)
ConfirmedIsDecided == confirmed \subseteq {removal.decision}

(***************************************************************************)
(* "A token pointed at a proposal that is no longer answerable costs the   *)
(* holder nothing" (self_decision).                                        *)
(***************************************************************************)
ClosedCostsNothing ==
  [][removal.state # "open" /\ ~token.used => UNCHANGED token]_vars

(***************************************************************************)
(* "a repeat of the SAME answer is a no-op rather than an error - a        *)
(* resubmitted form must not look like a failure"                          *)
(* (runner/src/infrastructure/governance.rs:1455).                         *)
(***************************************************************************)
RepeatIsANoOp ==
  \A r \in Request :
    (request[r].phase = "answered" /\ request[r].form.right /\ request[r].form.vote \in confirmed)
      => request[r].answer # "error"
=============================================================================
