------------------------------ MODULE Sessions ------------------------------
(***************************************************************************)
(* The web sessions of one account: the locker that holds a session's      *)
(* refresh token on the server (runner/src/web/session.rs), the refresh    *)
(* families behind it (auth/src/management.rs) and the requests that move  *)
(* both (auth/src/service.rs, runner/src/web/routes.rs).                   *)
(*                                                                         *)
(* Locker and families are two stores.  A refresh reads the locker, asks   *)
(* the family, asks the directory, rotates the family and writes the       *)
(* locker, and only a lock inside this process keeps a second refresh of   *)
(* the same session away.  Signing out does not take that lock.            *)
(*                                                                         *)
(* A refresh secret is the number of rotations before it: a family whose   *)
(* current secret is n was rotated n times and remembers n - 1.            *)
(***************************************************************************)
EXTENDS Naturals, FiniteSets

CONSTANTS
  Web,           \* web sessions, each opened at most once
  Worker,        \* requests in flight
  MaxVersion,    \* bound: revocations of the account's tokens
  MaxRotations,  \* bound: rotations in the life of one family
  MaxFaults      \* bound: lost answers, failed writes and crashes

ASSUME BoundsAssumption == MaxVersion \in Nat /\ MaxRotations \in Nat /\ MaxFaults \in Nat

VARIABLES
  version,   \* users.token_version
  disabled,  \* users.status
  family,    \* refresh families, one behind each web session
  locker,    \* the refresh secret each web session holds
  lapsed,    \* sessions whose access token is about to expire
  worker,    \* what each request is doing
  faults,    \* failures that happened
  lost       \* history: sessions whose rotated secret never reached the locker

sessionVars == <<version, disabled, family, locker, lapsed, worker, faults, lost>>
account == <<version, disabled>>

Unissued == [state |-> "unissued"]
Gone == [state |-> "gone"]
NoSession == MaxRotations + 1   \* no secret has this number
NoRequest == [step |-> "idle"]

SessionsInit ==
  /\ version = 0 /\ disabled = FALSE
  /\ family = [w \in Web |-> Unissued]
  /\ locker = [w \in Web |-> NoSession]
  /\ lapsed = {}
  /\ worker = [p \in Worker |-> NoRequest]
  /\ faults = 0
  /\ lost = {}

Live(w) == family[w].state = "live"
Current(w, n) == Live(w) /\ family[w].current = n
Reuse(w, n) == Live(w) /\ family[w].current = n + 1

(* Every family of the account ends, here and at the relying parties. *)
RevokeUserEverywhere == [w \in Web |-> IF Live(w) THEN Gone ELSE family[w]]

Goes(p, next) == worker' = [worker EXCEPT ![p] = next]
Steps(p, step) == worker' = [worker EXCEPT ![p].step = step]
Finishes(p) == Goes(p, NoRequest)

(* The steps of `fresh`, all under the session's lock. *)
Refreshing == {"inspecting", "looking up", "rotating", "saving", "refused", "viewing"}
Flies(w) == \E p \in Worker : worker[p].step \in Refreshing /\ worker[p].web = w

(***************************************************************************)
(* Signing in                                                              *)
(***************************************************************************)

SignInLooksUp(p, w) ==
  /\ worker[p] = NoRequest
  /\ family[w] = Unissued
  /\ \A q \in Worker : worker[q] # NoRequest => worker[q].web # w
  /\ ~disabled
  /\ Goes(p, [step |-> "signing in", web |-> w, read |-> version])
  /\ UNCHANGED <<account, family, locker, lapsed, faults, lost>>

(* The family remembers the version that was read, not the present one. *)
SignInIssues(p) ==
  /\ worker[p].step = "signing in"
  /\ family' = [family EXCEPT ![worker[p].web] = [state |-> "live", current |-> 0, snapshot |-> worker[p].read]]
  /\ Goes(p, [step |-> "putting", web |-> worker[p].web])
  /\ UNCHANGED <<account, locker, lapsed, faults, lost>>

SignInPuts(p) ==
  /\ worker[p].step = "putting"
  /\ locker' = [locker EXCEPT ![worker[p].web] = 0]
  /\ Finishes(p)
  /\ UNCHANGED <<account, family, lapsed, faults, lost>>

(***************************************************************************)
(* Visiting: WebSessions::fresh and AuthService::refresh                   *)
(***************************************************************************)

Loads(p, w) ==
  /\ worker[p] = NoRequest
  /\ locker[w] # NoSession
  /\ Goes(p, [step |-> IF w \in lapsed THEN "inspecting" ELSE "viewing", web |-> w, secret |-> locker[w]])
  /\ UNCHANGED <<account, family, locker, lapsed, faults, lost>>

(* Mutant: no single flight. *)
Fresh_NoFlight(p, w) == Loads(p, w)

Fresh(p, w) == ~Flies(w) /\ Loads(p, w)

(* Mutant: a refused token is taken for a blip. *)
Inspect_KeepsInvalid(p) ==
  LET w == worker[p].web
      n == worker[p].secret
  IN  /\ worker[p].step = "inspecting"
      /\ family' = IF Reuse(w, n) THEN RevokeUserEverywhere ELSE family
      /\ Steps(p, IF Current(w, n) THEN "looking up" ELSE "viewing")
      /\ UNCHANGED <<account, locker, lapsed, faults, lost>>

(* A rotated-out secret is taken for a theft and ends every session of the account. *)
Inspect(p) ==
  LET w == worker[p].web
      n == worker[p].secret
  IN  /\ worker[p].step = "inspecting"
      /\ family' = IF Reuse(w, n) THEN RevokeUserEverywhere ELSE family
      /\ Steps(p, IF Current(w, n) THEN "looking up" ELSE "refused")
      /\ UNCHANGED <<account, locker, lapsed, faults, lost>>

(* Before the rotation, which cannot be taken back. *)
LookUp(p) ==
  /\ worker[p].step = "looking up"
  /\ IF disabled
     THEN family' = RevokeUserEverywhere /\ Steps(p, "refused")
     ELSE /\ Goes(p, [step |-> "rotating", web |-> worker[p].web, secret |-> worker[p].secret, read |-> version])
          /\ UNCHANGED family
  /\ UNCHANGED <<account, locker, lapsed, faults, lost>>

(* A directory or a store that does not answer keeps the session as it is. *)
RefreshUnavailable(p) ==
  /\ worker[p].step \in {"inspecting", "looking up"}
  /\ faults < MaxFaults
  /\ faults' = faults + 1
  /\ Goes(p, [step |-> "viewing", web |-> worker[p].web, secret |-> worker[p].secret])
  /\ UNCHANGED <<account, family, locker, lapsed, lost>>

(* Mutant: the version the account has now is not compared with the family's. *)
Rotated_AnyVersion(p) ==
  LET w == worker[p].web
  IN  /\ family' = [family EXCEPT ![w].current = @ + 1]
      /\ Goes(p, [step |-> "saving", web |-> w, secret |-> worker[p].secret])

(* The secret moves on; a family older than the last revocation dies instead. *)
Rotated(p) ==
  LET w == worker[p].web
  IN  IF worker[p].read > family[w].snapshot
      THEN family' = RevokeUserEverywhere /\ Goes(p, [step |-> "refused", web |-> w, secret |-> worker[p].secret])
      ELSE /\ family' = [family EXCEPT ![w].current = @ + 1]
           /\ Goes(p, [step |-> "saving", web |-> w, secret |-> worker[p].secret])

(* A rotated-out secret ends its family, and so does the end of the family's life. *)
Rotate(p) ==
  LET w == worker[p].web
      n == worker[p].secret
  IN  /\ worker[p].step = "rotating"
      /\ IF Current(w, n) /\ n < MaxRotations THEN Rotated(p)
         ELSE /\ Goes(p, [step |-> "refused", web |-> w, secret |-> n])
              /\ family' = IF Current(w, n) \/ Reuse(w, n) THEN [family EXCEPT ![w] = Gone] ELSE family
      /\ UNCHANGED <<account, locker, lapsed, faults, lost>>

(* Written whether or not the session is still in the locker. *)
Save(p) ==
  /\ worker[p].step = "saving"
  /\ locker' = [locker EXCEPT ![worker[p].web] = worker[p].secret + 1]
  /\ lapsed' = lapsed \ {worker[p].web}
  /\ Finishes(p)
  /\ UNCHANGED <<account, family, faults, lost>>

Refuse(p) ==
  /\ worker[p].step = "refused"
  /\ locker' = [locker EXCEPT ![worker[p].web] = NoSession]
  /\ lapsed' = lapsed \ {worker[p].web}
  /\ Finishes(p)
  /\ UNCHANGED <<account, family, faults, lost>>

(* The account's summary is read, and the session written back when it changed. *)
View(p) ==
  /\ worker[p].step = "viewing"
  /\ locker' \in {locker, [locker EXCEPT ![worker[p].web] = worker[p].secret]}
  /\ Finishes(p)
  /\ UNCHANGED <<account, family, lapsed, faults, lost>>

(* The process ends, or a write of the locker fails, with the request half done. *)
Crash(p) ==
  /\ worker[p] # NoRequest
  /\ faults < MaxFaults
  /\ faults' = faults + 1
  /\ lost' = IF worker[p].step = "saving" THEN lost \union {worker[p].web} ELSE lost
  /\ Finishes(p)
  /\ UNCHANGED <<account, family, locker, lapsed>>

(***************************************************************************)
(* Signing out                                                             *)
(***************************************************************************)

Forget(p, w) ==
  /\ worker[p] = NoRequest
  /\ locker[w] # NoSession
  /\ locker' = [locker EXCEPT ![w] = NoSession]
  /\ Goes(p, [step |-> "signing out", web |-> w, secret |-> locker[w]])
  /\ UNCHANGED <<account, family, lapsed, faults, lost>>

(* The family is ended on its current secret only; a refusal is not looked at. *)
LogoutInspects(p) ==
  LET w == worker[p].web
  IN  /\ worker[p].step = "signing out"
      /\ IF Current(w, worker[p].secret)
         THEN Steps(p, "revoking") ELSE Finishes(p)
      /\ UNCHANGED <<account, family, locker, lapsed, faults, lost>>

LogoutRevokes(p) ==
  LET w == worker[p].web
  IN  /\ worker[p].step = "revoking"
      /\ family' = [family EXCEPT ![w] = Gone]
      /\ Finishes(p)
      /\ UNCHANGED <<account, locker, lapsed, faults, lost>>

(* From the list of devices, on the strength of a session of one's own. *)
RevokeSession(w) ==
  /\ Live(w)
  /\ \E v \in Web : locker[v] # NoSession /\ Current(v, locker[v])
  /\ family' = [family EXCEPT ![w] = Gone]
  /\ UNCHANGED <<account, locker, lapsed, worker, faults, lost>>

(* Everywhere at once; the account's version may fail to move. *)
LogoutEverywhere ==
  /\ \E v \in Web : locker[v] # NoSession /\ Current(v, locker[v])
  /\ \/ version < MaxVersion /\ version' = version + 1 /\ UNCHANGED faults
     \/ faults < MaxFaults /\ faults' = faults + 1 /\ UNCHANGED version
  /\ family' = RevokeUserEverywhere
  /\ UNCHANGED <<disabled, locker, lapsed, worker, lost>>

(***************************************************************************)
(* The account, and time                                                   *)
(***************************************************************************)

(* From the console, or by a take-over: the families learn of it when they refresh. *)
RevokeTokens ==
  /\ version < MaxVersion
  /\ version' = version + 1
  /\ UNCHANGED <<disabled, family, locker, lapsed, worker, faults, lost>>

(* Held or suspended, and lifted again. *)
SetStatus ==
  /\ disabled' = ~disabled
  /\ UNCHANGED <<version, family, locker, lapsed, worker, faults, lost>>

AccessLapses(w) ==
  /\ locker[w] # NoSession
  /\ lapsed' = lapsed \union {w}
  /\ UNCHANGED <<account, family, locker, worker, faults, lost>>

(* Past its idle, sliding or absolute bound. *)
FamilyExpires(w) ==
  /\ Live(w)
  /\ family' = [family EXCEPT ![w] = Gone]
  /\ UNCHANGED <<account, locker, lapsed, worker, faults, lost>>

Proceeds(p) ==
  \/ SignInIssues(p) \/ SignInPuts(p)
  \/ Inspect(p) \/ LookUp(p) \/ Rotate(p) \/ Save(p) \/ Refuse(p) \/ View(p)
  \/ LogoutInspects(p) \/ LogoutRevokes(p)

SessionsNext ==
  \/ \E p \in Worker :
       \/ Proceeds(p) \/ RefreshUnavailable(p) \/ Crash(p)
       \/ \E w \in Web : SignInLooksUp(p, w) \/ Fresh(p, w) \/ Forget(p, w)
  \/ \E w \in Web : RevokeSession(w) \/ AccessLapses(w) \/ FamilyExpires(w)
  \/ LogoutEverywhere \/ RevokeTokens \/ SetStatus

SessionsSpec == SessionsInit /\ [][SessionsNext]_sessionVars

(***************************************************************************)
(* A request runs to its end.  The lock of a session is a fair queue, so a *)
(* browser that keeps visiting gets its turn; access tokens do lapse.      *)
(***************************************************************************)
Fairness ==
  /\ \A p \in Worker : WF_sessionVars(Proceeds(p))
  /\ \A w \in Web : WF_sessionVars(AccessLapses(w)) /\ SF_sessionVars(\E p \in Worker : Fresh(p, w))

FairSpec == SessionsSpec /\ Fairness

(***************************************************************************)
(* What is promised                                                        *)
(***************************************************************************)

TypeOK ==
  /\ version \in Nat /\ disabled \in BOOLEAN /\ faults \in Nat
  /\ family \in [Web -> {Unissued, Gone} \union [state : {"live"}, current : Nat, snapshot : Nat]]
  /\ locker \in [Web -> Nat]
  /\ lapsed \subseteq Web /\ lost \subseteq Web
  /\ worker \in [Worker ->
       {NoRequest} \union [step : {"signing in"}, web : Web, read : Nat] \union [step : {"putting"}, web : Web]
         \union [step : {"rotating"}, web : Web, secret : Nat, read : Nat]
         \union [step : (Refreshing \ {"rotating"}) \union {"signing out", "revoking"}, web : Web, secret : Nat]]

(***************************************************************************)
(* A session dies for a reason, never for a race and never for a blip.     *)
(* "Two racing rotations of one refresh token read as theft upstream and   *)
(* revoke the family" (web/session.rs): the lock, and the lookup before    *)
(* the rotation, see to it that only a rotated secret that never reached   *)
(* the locker is mistaken for a theft; and a refresh drops a session only  *)
(* when its family has ended or the account is disabled (fresh).           *)
(***************************************************************************)
SessionsDieForAReason ==
  \A p \in Worker :
    /\ worker[p].step \in {"inspecting", "rotating"} /\ Reuse(worker[p].web, worker[p].secret)
         => worker[p].web \in lost
    /\ worker[p].step = "refused" => ~Live(worker[p].web)

(***************************************************************************)
(* Tokens revoked from the console, or by a take-over, are not renewed: a  *)
(* family older than the account's version dies when it is next refreshed, *)
(* unless the directory was asked before the version moved                 *)
(* (auth/src/service.rs, refresh).                                         *)
(***************************************************************************)
RevokedTokensAreNotRenewed ==
  [][\A w \in Web :
       Live(w) /\ family[w].snapshot < version /\ family'[w] # family[w]
         => \/ family'[w] = Gone
            \/ \E p \in Worker :
                 worker[p].step = "rotating" /\ worker[p].web = w /\ worker[p].read < version]_sessionVars

(***************************************************************************)
(* Revoked, signed out elsewhere or on a disabled account, a session that  *)
(* is still visited leaves the locker, whatever races with the visit       *)
(* (web/session.rs, fresh; auth/src/service.rs, refresh).                  *)
(***************************************************************************)
Ended(w) == family[w] = Gone \/ (Live(w) /\ family[w].snapshot < version)
EndedSessionsLeaveTheLocker == \A w \in Web : Ended(w) ~> locker[w] = NoSession

(***************************************************************************)
(* "Drop a session and revoke its refresh family upstream" (web/routes.rs, *)
(* close): a session dropped from the locker never comes back usable, save *)
(* while the sign-out that dropped it has its family still to revoke.      *)
(***************************************************************************)
Usable(w) == locker[w] # NoSession /\ Current(w, locker[w])
Engaged(w, steps) == \E p \in Worker : worker[p].step \in steps /\ worker[p].web = w
LoggedOutStaysOut ==
  [][\A w \in Web :
       locker[w] = NoSession /\ ~Engaged(w, {"putting", "signing out", "revoking"}) => ~Usable(w)']_sessionVars
=============================================================================
