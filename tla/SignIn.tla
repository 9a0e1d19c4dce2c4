------------------------------- MODULE SignIn -------------------------------
(***************************************************************************)
(* Which account a person comes into: provider identities, mailboxes,      *)
(* passwords and mailbox codes (runner/src/infrastructure/users.rs:        *)
(* resolve; runner/src/infrastructure/credentials.rs;                      *)
(* runner/src/web/sign_in.rs).                                             *)
(*                                                                         *)
(* Everything that decides who holds a mailbox is serialized by an         *)
(* advisory lock on it, yet each transaction reads, and only then writes,  *)
(* and the row of an account can move to another mailbox in between under  *)
(* that other mailbox's lock.  A request therefore decides in one step,    *)
(* keeps its locks, and writes in another.  The unique indexes are what    *)
(* refuses a write in the end; a request they refuse is "failed".          *)
(***************************************************************************)
EXTENDS Naturals, FiniteSets

CONSTANTS
  Account,       \* users rows, each provisioned once
  Mailbox,       \* e-mail addresses
  Subject,       \* subjects at the providers
  Request,       \* the requests in flight
  NoSubject,     \* the identity a mailbox code proves has no provider
  Nobody,        \* a subject linked to no account
  MaxAttempts,   \* guesses one code stands (CODE_MAX_ATTEMPTS)
  MaxFailures,   \* wrong passwords before the lock (PASSWORD_MAX_FAILURES)
  SendsPerWindow, \* codes one address is sent in a window (CODE_SENDS_PER_WINDOW)
  MaxWindows     \* bound: windows that pass

ASSUME LimitsAssumption ==
  /\ MaxAttempts \in Nat \ {0} /\ MaxFailures \in Nat \ {0} /\ SendsPerWindow \in Nat \ {0}
  /\ MaxWindows \in Nat
ASSUME NamesAssumption == NoSubject \notin Subject /\ Nobody \notin Account

VARIABLES
  user,      \* users: the address and whether it is proven
  password,  \* password_credentials: failures counted, locked or not
  link,      \* user_identities: subject to account
  code,      \* email_codes: the newest code of each mailbox and purpose
  sent,      \* codes sent to each mailbox in the current window
  windows,   \* windows that passed
  request,   \* what each request is doing
  guesses,   \* history: comparisons made with the newest login code of a mailbox
  wrong      \* history: wrong passwords compared since the last lock, success or change

vars == <<user, password, link, code, sent, windows, request, guesses, wrong>>

NoUser == [email |-> "none"]
NoPassword == [state |-> "none"]
Spent == [state |-> "spent"]   \* burned, expired, or never sent
Idle == [step |-> "idle"]

(* A login code is the mailbox's; a verification code is an account's for one mailbox. *)
Purpose == {"login"} \union Account
Login(e) == <<e, "login">>

Init ==
  /\ user = [a \in Account |-> NoUser]
  /\ password = [a \in Account |-> NoPassword]
  /\ link = [s \in Subject |-> Nobody]
  /\ code = [c \in Mailbox \X Purpose |-> Spent]
  /\ sent = [e \in Mailbox |-> 0]
  /\ windows = 0
  /\ request = [r \in Request |-> Idle]
  /\ guesses = [e \in Mailbox |-> 0]
  /\ wrong = [a \in Account |-> 0]

Exists(a) == user[a] # NoUser
HasPassword(a) == password[a] # NoPassword
Holders(e) == {a \in Account : Exists(a) /\ user[a].email = e /\ user[a].verified}
Squats(e) == {a \in Account : Exists(a) /\ user[a].email = e /\ ~user[a].verified /\ HasPassword(a)}

Starts(r, next) == request[r] = Idle /\ request' = [request EXCEPT ![r] = next]
Becomes(r, next) == request' = [request EXCEPT ![r] = next]
Ends(r) == Becomes(r, Idle)

(* Only a request that has decided keeps its locks over a step. *)
EmailFree(e) == \A r \in Request : request[r].step = "decided" => request[r].id.email # e
SubjectFree(s) ==
  s # NoSubject => \A r \in Request : request[r].step = "decided" => request[r].id.subject # s

(***************************************************************************)
(* Resolution                                                              *)
(***************************************************************************)

(* The account a proven mailbox opens: its holder, else the one that squats on it. *)
Linkable(id) ==
  IF ~id.proven THEN [branch |-> "new"]
  ELSE IF Holders(id.email) # {}
       THEN [branch |-> "holder", account |-> CHOOSE a \in Holders(id.email) : TRUE]
  ELSE CASE Squats(id.email) = {} -> [branch |-> "new"]
         [] Cardinality(Squats(id.email)) = 1 ->
              [branch |-> "squat", account |-> CHOOSE a \in Squats(id.email) : TRUE]
         [] OTHER -> [branch |-> "crowd"]

Found(id) ==
  IF id.subject # NoSubject /\ link[id.subject] # Nobody
  THEN [branch |-> "linked", account |-> link[id.subject]]
  ELSE Linkable(id)

(* Mutant: the mailbox is not locked. *)
Decides_NoEmailLock(r, id) ==
  /\ SubjectFree(id.subject)
  /\ Becomes(r, [step |-> "decided", id |-> id, found |-> Found(id)])
  /\ UNCHANGED <<user, password, link, code, sent, windows, guesses, wrong>>

(* Subject before mailbox: both locks, then the decision. *)
Decides(r, id) ==
  /\ SubjectFree(id.subject)
  /\ EmailFree(id.email)
  /\ Becomes(r, [step |-> "decided", id |-> id, found |-> Found(id)])
  /\ UNCHANGED <<user, password, link, code, sent, windows, guesses, wrong>>

(* A provider vouches for a subject and names a mailbox, proven to it or not. *)
ProviderSignIn(r) ==
  /\ request[r] = Idle
  /\ \E s \in Subject, e \in Mailbox, p \in BOOLEAN :
       Decides(r, [subject |-> s, email |-> e, proven |-> p])

(* A spent code has proven a mailbox. *)
CodeSignIn(r) ==
  /\ request[r].step = "proven"
  /\ Decides(r, [subject |-> NoSubject, email |-> request[r].email, proven |-> TRUE])

(* A proven address is never replaced by one that is not. *)
ChangeEmail(u, id) ==
  IF u.verified /\ ~id.proven THEN u ELSE [email |-> id.email, verified |-> id.proven]

VerifyEmail(u) == [u EXCEPT !.verified = TRUE]

(* Its sessions end too, which is the affair of Sessions. *)
TakeOver(u) == VerifyEmail(u)

(* The unique index on proven addresses, for a write that makes a's row u. *)
IndexAdmits(a, u) == u.verified => Holders(u.email) \subseteq {a}

(* The unique key of user_identities. *)
LinkAdmits(id) == id.subject = NoSubject \/ link[id.subject] = Nobody

Linked(id, a) ==
  IF id.subject = NoSubject THEN link ELSE [link EXCEPT ![id.subject] = a]

(* The row's write commits, or the index takes the whole transaction back. *)
WritesUser(r, a, u) ==
  IF IndexAdmits(a, u)
  THEN user' = [user EXCEPT ![a] = u] /\ Ends(r)
  ELSE /\ Becomes(r, [step |-> "failed", branch |-> request[r].found.branch])
       /\ UNCHANGED user

(* A known subject: its account follows the provider's address, unless another account
   has proven that one. *)
ResolveLinked(r) ==
  LET id == request[r].id
      a == request[r].found.account
  IN  /\ request[r].step = "decided" /\ request[r].found.branch = "linked"
      /\ IF id.proven /\ id.email # user[a].email /\ Holders(id.email) # {}
         THEN Ends(r) /\ UNCHANGED user
         ELSE WritesUser(r, a, ChangeEmail(user[a], id))
      /\ UNCHANGED <<password, link, code, sent, windows, guesses, wrong>>

(* The holder of the mailbox, as it was read: its row is not looked at again. *)
ResolveHolder(r) ==
  LET id == request[r].id
      a == request[r].found.account
  IN  /\ request[r].step = "decided" /\ request[r].found.branch = "holder"
      /\ IF LinkAdmits(id)
         THEN link' = Linked(id, a) /\ Ends(r)
         ELSE Becomes(r, [step |-> "failed", branch |-> "holder"]) /\ UNCHANGED link
      /\ UNCHANGED <<user, password, code, sent, windows, guesses, wrong>>

(* Whoever proves the mailbox takes the account over; the password goes. *)
ResolveSquat(r) ==
  LET id == request[r].id
      a == request[r].found.account
      taken == TakeOver(user[a])
  IN  /\ request[r].step = "decided" /\ request[r].found.branch = "squat"
      /\ IF LinkAdmits(id)
         THEN /\ WritesUser(r, a, taken)
              /\ IF IndexAdmits(a, taken)
                 THEN /\ password' = [password EXCEPT ![a] = NoPassword]
                      /\ wrong' = [wrong EXCEPT ![a] = 0]
                      /\ link' = Linked(id, a)
                 ELSE UNCHANGED <<password, wrong, link>>
         ELSE /\ Becomes(r, [step |-> "failed", branch |-> "squat"])
              /\ UNCHANGED <<user, password, wrong, link>>
      /\ UNCHANGED <<code, sent, windows, guesses>>

(* Nobody has it: a new account, proven or not as the identity is. *)
ResolveNew(r) ==
  LET id == request[r].id
      u == [email |-> id.email, verified |-> id.proven]
  IN  /\ request[r].step = "decided" /\ request[r].found.branch = "new"
      /\ \E a \in Account :
           /\ ~Exists(a)
           /\ IF LinkAdmits(id)
              THEN /\ WritesUser(r, a, u)
                   /\ link' = IF IndexAdmits(a, u) THEN Linked(id, a) ELSE link
              ELSE /\ Becomes(r, [step |-> "failed", branch |-> "new"])
                   /\ UNCHANGED <<user, link>>
      /\ UNCHANGED <<password, code, sent, windows, guesses, wrong>>

(* The failure is answered, and the person may try again. *)
Answered(r) ==
  /\ request[r].step = "failed"
  /\ Ends(r)
  /\ UNCHANGED <<user, password, link, code, sent, windows, guesses, wrong>>

(***************************************************************************)
(* Mailbox codes                                                           *)
(***************************************************************************)

(* The code's row is inserted after its predecessor is burned, within the throttle. *)
Issue(e, purpose) ==
  IF sent[e] >= SendsPerWindow THEN UNCHANGED <<code, sent, guesses>>
  ELSE /\ code' = [code EXCEPT ![<<e, purpose>>] = [state |-> "live", attempts |-> 0]]
       /\ sent' = [sent EXCEPT ![e] = @ + 1]
       /\ guesses' = IF purpose = "login" THEN [guesses EXCEPT ![e] = 0] ELSE guesses

RequestCode(e) ==
  /\ EmailFree(e)
  /\ Issue(e, "login")
  /\ UNCHANGED <<user, password, link, windows, request, wrong>>

(* The account's address is read before its lock is taken. *)
RequestVerification(r) ==
  /\ \E a \in Account : Exists(a) /\ Starts(r, [step |-> "mailing", account |-> a, email |-> user[a].email])
  /\ UNCHANGED <<user, password, link, code, sent, windows, guesses, wrong>>

VerificationIssued(r) ==
  /\ request[r].step = "mailing"
  /\ EmailFree(request[r].email)
  /\ Issue(request[r].email, request[r].account)
  /\ Ends(r)
  /\ UNCHANGED <<user, password, link, windows, wrong>>

WindowRolls ==
  /\ windows < MaxWindows
  /\ windows' = windows + 1
  /\ sent' = [e \in Mailbox |-> 0]
  /\ UNCHANGED <<user, password, link, code, request, guesses, wrong>>

CodeExpires(c) ==
  /\ code[c].state = "live"
  /\ code' = [code EXCEPT ![c] = Spent]
  /\ UNCHANGED <<user, password, link, sent, windows, request, guesses, wrong>>

(* Mutant: a wrong guess is rolled back with the refusal. *)
Redeemed_Uncounted(c, right) == IF right THEN [code EXCEPT ![c] = Spent] ELSE code

(* Counted before it is compared; burned by a match and by the last attempt. *)
Redeemed(c, right) ==
  IF code[c] = Spent THEN code
  ELSE [code EXCEPT ![c] =
         IF right \/ @.attempts + 1 >= MaxAttempts THEN Spent
         ELSE [state |-> "live", attempts |-> @.attempts + 1]]

Accepts(c, right) == code[c].state = "live" /\ right

(* The code is spent in its own transaction; the sign-in follows in another. *)
RedeemLoginCode(r) ==
  /\ \E e \in Mailbox, right \in BOOLEAN :
       /\ IF Accepts(Login(e), right)
          THEN Starts(r, [step |-> "proven", email |-> e])
          ELSE request[r] = Idle /\ UNCHANGED request
       /\ code' = Redeemed(Login(e), right)
       /\ guesses' = IF code[Login(e)].state = "live" THEN [guesses EXCEPT ![e] = @ + 1] ELSE guesses
  /\ UNCHANGED <<user, password, link, sent, windows, wrong>>

(***************************************************************************)
(* Verification and passwords                                              *)
(***************************************************************************)

(* The address backs a password already. *)
BacksPassword(e) == \E a \in Account : Exists(a) /\ user[a].email = e /\ HasPassword(a)

(* Mutant: only a proven address is taken. *)
Taken_OnlyProven(e) == Holders(e) # {}

Taken(e) == BacksPassword(e) \/ Holders(e) # {}

(* A new account, unproven, behind an address that is not taken. *)
SignUp(e) ==
  /\ EmailFree(e)
  /\ ~Taken(e)
  /\ \E a \in Account :
       /\ ~Exists(a)
       /\ user' = [user EXCEPT ![a] = [email |-> e, verified |-> FALSE]]
       /\ password' = [password EXCEPT ![a] = [state |-> "open", failures |-> 0]]
  /\ UNCHANGED <<link, code, sent, windows, request, guesses, wrong>>

(* The address is read without the row's lock: the mailbox's lock comes first. *)
VerifyReads(r) ==
  /\ \E a \in Account, sets \in BOOLEAN :
       /\ Exists(a)
       /\ Starts(r, [step |-> "verifying", account |-> a, email |-> user[a].email, sets |-> sets])
  /\ UNCHANGED <<user, password, link, code, sent, windows, guesses, wrong>>

(* Not proven by another account meanwhile, and not moved since it was read. *)
Verifies(a, e) == Holders(e) \subseteq {a} /\ user[a].email = e

WritePassword(a) ==
  /\ password' = [password EXCEPT ![a] = [state |-> "open", failures |-> 0]]
  /\ wrong' = [wrong EXCEPT ![a] = 0]

(* The code is spent whatever follows; the address is proven, and the password written
   in the same transaction when that was asked. *)
VerifyWrites(r) ==
  LET a == request[r].account
      e == request[r].email
      proves(right) == Accepts(<<e, a>>, right) /\ Verifies(a, e)
      proven == VerifyEmail(user[a])
  IN  /\ request[r].step = "verifying"
      /\ EmailFree(e)
      /\ \E right \in BOOLEAN :
           /\ IF proves(right) /\ ~IndexAdmits(a, proven)
              THEN /\ Becomes(r, [step |-> "failed", branch |-> "verify"])
                   /\ UNCHANGED code
              ELSE Ends(r) /\ code' = Redeemed(<<e, a>>, right)
           /\ user' = IF proves(right) /\ IndexAdmits(a, proven) THEN [user EXCEPT ![a] = proven] ELSE user
           /\ IF proves(right) /\ IndexAdmits(a, proven) /\ request[r].sets
              THEN WritePassword(a) ELSE UNCHANGED <<password, wrong>>
      /\ UNCHANGED <<link, sent, windows, guesses>>

(* The hash is read, and whether it is locked, before the slow comparison. *)
PasswordNamed(r) ==
  /\ \E a \in Account :
       /\ password[a].state = "open"
       /\ Starts(r, [step |-> "comparing", account |-> a])
  /\ UNCHANGED <<user, password, link, code, sent, windows, guesses, wrong>>

(* One UPDATE: a success clears, the last failure locks; nothing if the row is gone. *)
RecordedAttempt(a, right) ==
  IF ~HasPassword(a) THEN NoPassword
  ELSE IF right THEN [state |-> "open", failures |-> 0]
  ELSE IF password[a].failures + 1 >= MaxFailures THEN [state |-> "locked", failures |-> 0]
  ELSE [password[a] EXCEPT !.failures = @ + 1]

RecordPasswordAttempt(r) ==
  LET a == request[r].account
  IN  /\ request[r].step = "comparing"
      /\ \E right \in BOOLEAN :
           /\ password' = [password EXCEPT ![a] = RecordedAttempt(a, right)]
           /\ wrong' = [wrong EXCEPT ![a] = IF right \/ ~HasPassword(a) THEN 0 ELSE @ + 1]
      /\ Ends(r)
      /\ UNCHANGED <<user, link, code, sent, windows, guesses>>

LockPasses(a) ==
  /\ password[a].state = "locked"
  /\ password' = [password EXCEPT ![a].state = "open"]
  /\ wrong' = [wrong EXCEPT ![a] = 0]
  /\ UNCHANGED <<user, link, code, sent, windows, request, guesses>>

Resolve(r) ==
  \/ ProviderSignIn(r) \/ CodeSignIn(r) \/ ResolveLinked(r) \/ ResolveHolder(r) \/ ResolveSquat(r)
  \/ ResolveNew(r) \/ Answered(r)

Next ==
  \/ \E r \in Request :
       \/ Resolve(r) \/ RedeemLoginCode(r)
       \/ RequestVerification(r) \/ VerificationIssued(r) \/ VerifyReads(r) \/ VerifyWrites(r)
       \/ PasswordNamed(r) \/ RecordPasswordAttempt(r)
  \/ \E e \in Mailbox : SignUp(e) \/ RequestCode(e)
  \/ WindowRolls
  \/ \E c \in Mailbox \X Purpose : CodeExpires(c)
  \/ \E a \in Account : LockPasses(a)

Spec == Init /\ [][Next]_vars

(***************************************************************************)
(* What is promised                                                        *)
(***************************************************************************)

(***************************************************************************)
(* Two sign-ins racing for one subject or one mailbox never both decide    *)
(* "nobody has it yet" (users.rs, resolve): no sign-in or verification     *)
(* meets a unique index, except that of a linked account.                  *)
(***************************************************************************)
RacesNeverClash ==
  \A r \in Request : request[r].step = "failed" => request[r].branch = "linked"

(***************************************************************************)
(* What linkable (users.rs) takes over on the strength of an earlier read  *)
(* is never ambiguous, by whatever order of sign-ups, verifications, moves *)
(* and take-overs: an address backs at most one unproven password account, *)
(* so its error branch is dead, and an account that a provider opens and a *)
(* password opens too has proven its address, so it is never a squat.      *)
(***************************************************************************)
SquatsAreUnmistakable ==
  /\ \A e \in Mailbox : Cardinality(Squats(e)) <= 1
  /\ \A s \in Subject : link[s] # Nobody /\ HasPassword(link[s]) => user[link[s]].verified

(***************************************************************************)
(* A code stands no more than its guesses, however many requests guess at  *)
(* once, and a refusal does not give one back (credentials.rs, redeem).    *)
(***************************************************************************)
CodeGuessesAreCapped == \A e \in Mailbox : guesses[e] <= MaxAttempts

(***************************************************************************)
(* Between two locks a password is guessed wrong no more often than the    *)
(* limit, and once more for each comparison that was already running when  *)
(* it locked.                                                              *)
(***************************************************************************)
PasswordGuessesAreCapped ==
  \A a \in Account : wrong[a] < MaxFailures + Cardinality(Request)

(***************************************************************************)
(* "A provider's address moving onto one another account already proved    *)
(* stays theirs; this account keeps the address it had" (users.rs, in      *)
(* resolve): a sign-in through a linked subject never fails on it.         *)
(***************************************************************************)
LinkedSignInSucceeds ==
  \A r \in Request : request[r].step = "failed" => request[r].branch # "linked"
=============================================================================
