---------------------------- MODULE RelyingParties ----------------------------
(***************************************************************************)
(* One account signing in at a client on another origin: the codes that    *)
(* /auth/authorize hands the browser, their redemption by the client's     *)
(* backend, the client's sessions and their rotation, and the sign-out     *)
(* here that must end them there (runner/src/relying_party.rs,             *)
(* runner/src/infrastructure/relying_parties.rs, web/authorize.rs).        *)
(*                                                                         *)
(* A request reads its clock once and runs several transactions.  Those    *)
(* that lock a code's row are taken apart into their statements: what they *)
(* write is seen by the others when they commit, and who needs the row     *)
(* waits.  A secret is the number of rotations before it.                  *)
(***************************************************************************)
EXTENDS Naturals, FiniteSets

CONSTANTS
  Code,          \* authorization codes, each issued at most once
  Family,        \* the account's refresh families at evinvest.ltd
  Worker,        \* requests in flight
  CodeTTL,       \* CODE_TTL_SECS
  MaxTime,       \* bound: the clock
  MaxVersion,    \* bound: revocations of the account's tokens
  MaxRotations   \* bound: rotations of one session

ASSUME BoundsAssumption ==
  CodeTTL \in Nat \ {0} /\ MaxTime \in Nat /\ MaxVersion \in Nat /\ MaxRotations \in Nat

VARIABLES
  now,       \* seconds
  version,   \* users.token_version
  disabled,  \* users.status
  live,      \* the refresh families that have not ended
  code,      \* rp_codes
  session,   \* rp_sessions: the one each code opened
  worker,    \* what each request is doing
  signout,   \* the sign-out that is being passed on to the clients
  told,      \* history: the instant each family's end was passed on with
  handed     \* history: which secret each rotation was paid with

account == <<version, disabled, live>>
vars == <<now, account, code, session, worker, signout, told, handed>>

Unissued == [state |-> "unissued"]
Closed == [state |-> "closed"]
Idle == [step |-> "idle"]
NotTold == MaxTime + 1   \* no instant is that late
WrongSecret == MaxRotations + 1

Init ==
  /\ now = 0
  /\ version = 0 /\ disabled = FALSE
  /\ live = Family
  /\ code = [c \in Code |-> Unissued]
  /\ session = [c \in Code |-> Closed]
  /\ worker = [p \in Worker |-> Idle]
  /\ signout = Idle
  /\ told = [f \in Family |-> NotTold]
  /\ handed = [c \in Code |-> {}]

Issued(c) == code[c] # Unissued
Live(c) == session[c] # Closed /\ ~session[c].revoked
Revoked(ended) == [c \in Code |-> IF c \in ended THEN [session[c] EXCEPT !.revoked = TRUE] ELSE session[c]]

(* The rows a transaction under way has locked. *)
CodeHeld(c) ==
  \/ \E p \in Worker : worker[p].step \in {"replaying", "replayed"} /\ worker[p].code = c
  \/ signout.step \in {"codes", "sessions"} /\ c \in signout.codes
SessionHeld(c) ==
  \/ \E p \in Worker : worker[p].step = "replayed" /\ c \in worker[p].ended
  \/ signout.step = "sessions" /\ c \in signout.ended

Goes(p, next) == worker' = [worker EXCEPT ![p] = next]
Ends(p) == Goes(p, Idle)
At(p, step) == worker[p].step = step

(***************************************************************************)
(* /auth/authorize                                                         *)
(***************************************************************************)

(* The family is asked first-hand whether it is still live. *)
Authorize(p, f) ==
  /\ At(p, "idle")
  /\ f \in live
  /\ Goes(p, [step |-> "authorizing", family |-> f])
  /\ UNCHANGED <<now, account, code, session, signout, told, handed>>

Admit(p) ==
  /\ At(p, "authorizing")
  /\ IF disabled THEN Ends(p)
     ELSE Goes(p, [step |-> "issuing", family |-> worker[p].family, version |-> version])
  /\ UNCHANGED <<now, account, code, session, signout, told, handed>>

IssueCode(p, c) ==
  /\ At(p, "issuing")
  /\ ~Issued(c)
  /\ code' = [code EXCEPT ![c] =
       [state |-> "issued", family |-> worker[p].family, version |-> worker[p].version, issued |-> now,
        expires |-> now + CodeTTL, redeemed |-> FALSE, replayed |-> FALSE]]
  /\ Ends(p)
  /\ UNCHANGED <<now, account, session, signout, told, handed>>

(***************************************************************************)
(* ExchangeCode: redeem_code                                               *)
(***************************************************************************)

RedeemCode(p, c) ==
  /\ At(p, "idle")
  /\ Issued(c)
  /\ Goes(p, [step |-> "claiming", code |-> c, at |-> now])
  /\ UNCHANGED <<now, account, code, session, signout, told, handed>>

(* Burned on every presentation, whether or not it matches and is in time. *)
ClaimCode(p) ==
  LET c == worker[p].code
      admissible == worker[p].at < code[c].expires
  IN  /\ At(p, "claiming")
      /\ ~CodeHeld(c) /\ ~code[c].redeemed
      /\ code' = [code EXCEPT ![c].redeemed = TRUE]
      /\ \/ Ends(p)
         \/ admissible /\ Goes(p, [worker[p] EXCEPT !.step = "admitting"])
      /\ UNCHANGED <<now, account, session, signout, told, handed>>

(* A spent code: the row stays locked until the sessions it bought are ended. *)
ClaimReplayed(p) ==
  LET c == worker[p].code
  IN  /\ At(p, "claiming")
      /\ ~CodeHeld(c) /\ code[c].redeemed
      /\ Goes(p, [step |-> "replaying", code |-> c])
      /\ UNCHANGED <<now, account, code, session, signout, told, handed>>

ReplayRevokes(p) ==
  LET c == worker[p].code
  IN  /\ At(p, "replaying")
      /\ ~SessionHeld(c)
      /\ Goes(p, [step |-> "replayed", code |-> c, ended |-> {d \in {c} : Live(d)}])
      /\ UNCHANGED <<now, account, code, session, signout, told, handed>>

ReplayCommits(p) ==
  /\ At(p, "replayed")
  /\ code' = [code EXCEPT ![worker[p].code].replayed = TRUE]
  /\ session' = Revoked(worker[p].ended)
  /\ Ends(p)
  /\ UNCHANGED <<now, account, signout, told, handed>>

(* The account as it is now, and no older tokens than the code's. *)
RedemptionAdmits(p) ==
  /\ At(p, "admitting")
  /\ IF ~disabled /\ version = code[worker[p].code].version
     THEN Goes(p, [worker[p] EXCEPT !.step = "opening"]) ELSE Ends(p)
  /\ UNCHANGED <<now, account, code, session, signout, told, handed>>

Opened(p) ==
  LET c == worker[p].code
  IN  /\ session' = IF ~code[c].replayed /\ code[c].expires > worker[p].at
                    THEN [session EXCEPT ![c] = [state |-> "open", current |-> 0, version |-> code[c].version,
                                                 created |-> worker[p].at, revoked |-> FALSE]]
                    ELSE session
      /\ Ends(p)

(* Mutant: the code's row is read without FOR SHARE. *)
OpenSession_NoShare(p) ==
  /\ At(p, "opening")
  /\ Opened(p)
  /\ UNCHANGED <<now, account, code, signout, told, handed>>

(* Against the clock the request started with. *)
OpenSession(p) ==
  /\ At(p, "opening")
  /\ ~CodeHeld(worker[p].code)
  /\ Opened(p)
  /\ UNCHANGED <<now, account, code, signout, told, handed>>

(***************************************************************************)
(* RefreshClientToken: rotate_refresh                                      *)
(***************************************************************************)

(* Any secret but the current one, of a live session, ends it. *)
RotateRefresh(p, c, n) ==
  /\ At(p, "idle")
  /\ Live(c)
  /\ n \in 0 .. session[c].current \union {WrongSecret}
  /\ Goes(p, [step |-> IF n = session[c].current THEN "readmitting" ELSE "revoking", code |-> c, secret |-> n])
  /\ UNCHANGED <<now, account, code, session, signout, told, handed>>

RefreshAdmits(p) ==
  LET passes == ~disabled /\ version <= session[worker[p].code].version
  IN  /\ At(p, "readmitting")
      /\ Goes(p, [worker[p] EXCEPT !.step = IF passes THEN "rotating" ELSE "revoking"])
      /\ UNCHANGED <<now, account, code, session, signout, told, handed>>

RotateSession(p) ==
  LET c == worker[p].code
      n == worker[p].secret
  IN  /\ At(p, "rotating")
      /\ ~SessionHeld(c)
      /\ session[c].current < MaxRotations
      /\ IF Live(c) /\ session[c].current = n
         THEN /\ session' = [session EXCEPT ![c].current = n + 1]
              /\ handed' = [handed EXCEPT ![c] = @ \union {<<n, n + 1>>}]
         ELSE UNCHANGED <<session, handed>>
      /\ Ends(p)
      /\ UNCHANGED <<now, account, code, signout, told>>

RevokeSession(p) ==
  LET c == worker[p].code
  IN  /\ At(p, "revoking")
      /\ ~SessionHeld(c)
      /\ session' = Revoked({c})
      /\ Ends(p)
      /\ UNCHANGED <<now, account, code, signout, told, handed>>

(***************************************************************************)
(* Signing out of evinvest.ltd: end_client_sessions, revoke_upstream       *)
(***************************************************************************)

(* One family, or every family of the account; the clock is read here. *)
UpstreamRevoked(ended) ==
  /\ signout = Idle
  /\ ended \in {{f} : f \in Family} \union {Family}
  /\ ended \intersect live # {}
  /\ live' = live \ ended
  /\ signout' = [step |-> "starting", families |-> ended, at |-> now]
  /\ UNCHANGED <<now, version, disabled, code, session, worker, told, handed>>

Theirs(c) == Issued(c) /\ code[c].family \in signout.families

RevokeUpstream ==
  /\ signout.step = "starting"
  /\ \A c \in Code : Theirs(c) => ~CodeHeld(c)
  /\ signout' = [step |-> "codes", families |-> signout.families, at |-> signout.at, codes |-> {c \in Code : Theirs(c)}]
  /\ UNCHANGED <<now, account, code, session, worker, told, handed>>

UpstreamEndsSessions ==
  LET theirs == {c \in Code : Theirs(c) /\ Live(c)}
  IN  /\ signout.step = "codes"
      /\ \A c \in theirs : ~SessionHeld(c)
      /\ signout' = [step |-> "sessions", families |-> signout.families, at |-> signout.at,
                     codes |-> signout.codes, ended |-> theirs]
      /\ UNCHANGED <<now, account, code, session, worker, told, handed>>

Sooner(m, n) == IF m < n THEN m ELSE n

(* Mutant: the codes are left to their own expiry. *)
ExpiredCodes_Kept == code

ExpiredCodes ==
  [c \in Code |-> IF c \in signout.codes THEN [code[c] EXCEPT !.expires = Sooner(@, signout.at)] ELSE code[c]]

UpstreamCommits ==
  /\ signout.step = "sessions"
  /\ code' = ExpiredCodes
  /\ session' = Revoked(signout.ended)
  /\ told' = [f \in Family |-> IF f \in signout.families THEN Sooner(told[f], signout.at) ELSE told[f]]
  /\ signout' = Idle
  /\ UNCHANGED <<now, account, worker, handed>>

(* Best effort: a sign-out that cannot be passed on is only reported. *)
UpstreamFails ==
  /\ signout # Idle
  /\ signout' = Idle
  /\ UNCHANGED <<now, account, code, session, worker, told, handed>>

(***************************************************************************)
(* The account, and time                                                   *)
(***************************************************************************)

RevokeTokens ==
  /\ version < MaxVersion
  /\ version' = version + 1
  /\ UNCHANGED <<now, disabled, live, code, session, worker, signout, told, handed>>

SetStatus ==
  /\ disabled' = ~disabled
  /\ UNCHANGED <<now, version, live, code, session, worker, signout, told, handed>>

Tick ==
  /\ now < MaxTime
  /\ now' = now + 1
  /\ UNCHANGED <<account, code, session, worker, signout, told, handed>>

(* The process ends with the request half done; its transaction rolls back. *)
Crash(p) ==
  /\ ~At(p, "idle")
  /\ Ends(p)
  /\ UNCHANGED <<now, account, code, session, signout, told, handed>>

Next ==
  \/ \E p \in Worker :
       \/ Admit(p) \/ ClaimCode(p) \/ ClaimReplayed(p) \/ ReplayRevokes(p) \/ ReplayCommits(p)
       \/ RedemptionAdmits(p) \/ OpenSession(p)
       \/ RefreshAdmits(p) \/ RotateSession(p) \/ RevokeSession(p) \/ Crash(p)
       \/ \E f \in Family : Authorize(p, f)
       \/ \E c \in Code : IssueCode(p, c) \/ RedeemCode(p, c)
       \/ \E c \in Code, n \in 0 .. WrongSecret : RotateRefresh(p, c, n)
  \/ \E ended \in SUBSET Family : UpstreamRevoked(ended)
  \/ RevokeUpstream \/ UpstreamEndsSessions \/ UpstreamCommits \/ UpstreamFails
  \/ RevokeTokens \/ SetStatus \/ Tick

Spec == Init /\ [][Next]_vars

(***************************************************************************)
(* What is promised                                                        *)
(***************************************************************************)

Request ==
  {Idle}
    \union [step : {"authorizing"}, family : Family]
    \union [step : {"issuing"}, family : Family, version : Nat]
    \union [step : {"claiming", "admitting", "opening"}, code : Code, at : Nat]
    \union [step : {"replaying"}, code : Code]
    \union [step : {"replayed"}, code : Code, ended : SUBSET Code]
    \union [step : {"readmitting", "rotating", "revoking"}, code : Code, secret : Nat]

Signout ==
  {Idle}
    \union [step : {"starting"}, families : SUBSET Family, at : Nat]
    \union [step : {"codes"}, families : SUBSET Family, at : Nat, codes : SUBSET Code]
    \union [step : {"sessions"}, families : SUBSET Family, at : Nat, codes : SUBSET Code, ended : SUBSET Code]

TypeOK ==
  /\ now \in Nat /\ version \in Nat /\ disabled \in BOOLEAN
  /\ live \subseteq Family
  /\ code \in [Code -> {Unissued} \union
       [state : {"issued"}, family : Family, version : Nat, issued : Nat, expires : Nat, redeemed : BOOLEAN, replayed : BOOLEAN]]
  /\ session \in [Code -> {Closed} \union
       [state : {"open"}, current : Nat, version : Nat, created : Nat, revoked : BOOLEAN]]
  /\ worker \in [Worker -> Request]
  /\ signout \in Signout
  /\ told \in [Family -> Nat]
  /\ handed \in [Code -> SUBSET (Nat \X Nat)]

(***************************************************************************)
(* No secret buys twice, however many requests present it at once.  A code *)
(* presented again leaves nobody signed in: "what the first redemption     *)
(* bought is revoked too", and a replay "closes the window between a       *)
(* redemption's burn and its open_session" (claim_code).  And a refresh    *)
(* secret is exchanged for at most one next one (rotate_session).          *)
(***************************************************************************)
ReplayedCodesOpenNothing ==
  \A c \in Code : Issued(c) /\ code[c].replayed => ~Live(c)

NoForks == \A c \in Code : \A g, h \in handed[c] : g[1] = h[1] => g = h

SecretsAreSpentOnce == ReplayedCodesOpenNothing /\ NoForks

(***************************************************************************)
(* A sign-out reaches every code issued before it: one first presented at  *)
(* or after that instant opens no session (revoke_upstream).               *)
(***************************************************************************)
Reached(c) == Issued(c) /\ code[c].issued < told[code[c].family] /\ told[code[c].family] # NotTold
SignOutReachesPresentedLater ==
  \A c \in Code : Reached(c) /\ Live(c) => session[c].created < told[code[c].family]

(***************************************************************************)
(* "A redemption racing this either lands before the sessions UPDATE below *)
(* (which then sees it) or waits for this commit and finds its code        *)
(* expired" (revoke_upstream).                                             *)
(***************************************************************************)
SignOutReachesRedemptions == \A c \in Code : Reached(c) => ~Live(c)
=============================================================================
