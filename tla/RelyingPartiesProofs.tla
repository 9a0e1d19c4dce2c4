------------------------ MODULE RelyingPartiesProofs ------------------------
(***************************************************************************)
(* Theorems about RelyingParties, for any codes, families, requests in     *)
(* flight, lifetime of a code and bounds.                                  *)
(*                                                                         *)
(* What the statements of two transactions leave to chance, the row locks  *)
(* decide: a session that is not yet seen by a replay, or by a sign-out,   *)
(* can only open once they have committed, and then reads what they wrote  *)
(* (Replaying, Ending).  A code that a sign-out was late for was issued    *)
(* after the instant it was passed on with (Spared).                       *)
(***************************************************************************)
EXTENDS RelyingParties, TLAPS

IssuedCode == [state : {"issued"}, family : Family, version : Nat, issued : Nat, expires : Nat,
               redeemed : BOOLEAN, replayed : BOOLEAN]
OpenedSession == [state : {"open"}, current : Nat, version : Nat, created : Nat, revoked : BOOLEAN]

OfCode == {"claiming", "admitting", "opening", "replaying", "replayed", "readmitting", "rotating", "revoking"}

(* Requests and sessions are about codes that were issued. *)
AboutIssued ==
  /\ \A p \in Worker : worker[p].step \in OfCode => Issued(worker[p].code)
  /\ \A c \in Code : session[c] # Closed => Issued(c)
  /\ signout.step \in {"codes", "sessions"} => \A c \in signout.codes : Theirs(c)

(* What is rotated, revoked or ended is a session. *)
AboutSessions ==
  /\ \A p \in Worker : worker[p].step \in {"readmitting", "rotating", "revoking"} => session[worker[p].code] # Closed
  /\ \A p \in Worker : At(p, "replayed") => \A c \in worker[p].ended : session[c] # Closed
  /\ signout.step = "sessions" => \A c \in signout.ended : session[c] # Closed

(* A replay that has read the sessions it ends has read every one there is. *)
Replaying ==
  \A p \in Worker : At(p, "replayed") /\ Live(worker[p].code) => worker[p].code \in worker[p].ended

(* So has a sign-out. *)
Ending ==
  signout.step = "sessions" => \A c \in signout.codes : Live(c) => c \in signout.ended

(* The codes a sign-out does not see were issued at or after its instant. *)
Spared ==
  signout.step \in {"codes", "sessions"} =>
    \A c \in Code : Theirs(c) /\ c \notin signout.codes => code[c].issued >= signout.at

(* A sign-out is passed on with an instant of the past. *)
InThePast ==
  /\ signout # Idle => signout.at <= now
  /\ \A f \in Family : told[f] # NotTold => told[f] <= now
  /\ now <= MaxTime

(* The codes it reaches have ended with it. *)
ReachedHaveEnded == \A c \in Code : Reached(c) => code[c].expires <= told[code[c].family]

(* A code is claimed once, by the one request that may open its session. *)
Opens(p) == worker[p].step \in {"admitting", "opening"}

ClaimedOnce ==
  /\ \A c \in Code : session[c] # Closed => code[c].redeemed
  /\ \A p \in Worker : Opens(p) => code[worker[p].code].redeemed /\ session[worker[p].code] = Closed
  /\ \A p, q \in Worker : p # q /\ Opens(p) /\ Opens(q) => worker[p].code # worker[q].code

(* The secrets that were exchanged lie before the current one. *)
PastSecrets == \A c \in Code : \A g \in handed[c] : session[c] # Closed /\ g[1] < session[c].current

IInv ==
  /\ TypeOK /\ AboutIssued /\ AboutSessions /\ Replaying /\ Ending /\ Spared /\ InThePast /\ ReachedHaveEnded
  /\ ClaimedOnce /\ PastSecrets
  /\ ReplayedCodesOpenNothing /\ SignOutReachesPresentedLater /\ NoForks

(***************************************************************************)
(* What is typed how                                                       *)
(***************************************************************************)

LEMMA CodeTyped ==
  ASSUME TypeOK, NEW c \in Code, Issued(c)
  PROVE  code[c] \in IssuedCode
BY DEF TypeOK, Issued, IssuedCode

LEMMA SessionTyped ==
  ASSUME TypeOK, NEW c \in Code, session[c] # Closed
  PROVE  session[c] \in OpenedSession
BY DEF TypeOK, OpenedSession

LEMMA WorkerTyped ==
  ASSUME TypeOK, NEW p \in Worker
  PROVE  /\ worker[p] \in Request
         /\ worker[p].step \in OfCode => worker[p].code \in Code
         /\ worker[p].step = "issuing" =>
              worker[p] \in [step : {"issuing"}, family : Family, version : Nat]
         /\ worker[p].step = "authorizing" => worker[p].family \in Family
         /\ worker[p].step \in {"claiming", "admitting", "opening"} =>
              worker[p] \in [step : {"claiming", "admitting", "opening"}, code : Code, at : Nat]
         /\ worker[p].step = "replayed" => worker[p].ended \in SUBSET Code
         /\ worker[p].step \in {"readmitting", "rotating", "revoking"} =>
              worker[p] \in [step : {"readmitting", "rotating", "revoking"}, code : Code, secret : Nat]
<1>1. worker[p] \in Request
  BY DEF TypeOK
<1> QED BY <1>1 DEF Request, OfCode, Idle

LEMMA SignoutTyped ==
  ASSUME TypeOK
  PROVE  /\ signout # Idle => signout.at \in Nat /\ signout.families \in SUBSET Family
         /\ signout.step \in {"starting", "codes", "sessions"} <=> signout # Idle
         /\ signout.step \in {"codes", "sessions"} => signout.codes \in SUBSET Code
         /\ signout.step = "sessions" => signout.ended \in SUBSET Code
BY DEF TypeOK, Signout, Idle

(***************************************************************************)
(* A step of one request that touches no table                             *)
(***************************************************************************)

LEMMA LocalStep ==
  ASSUME IInv, NEW p \in Worker, NEW next \in Request,
         worker' = [worker EXCEPT ![p] = next],
         UNCHANGED <<now, account, code, session, signout, told, handed>>,
         next.step \in OfCode => Issued(next.code),
         next.step \in {"readmitting", "rotating", "revoking"} => session[next.code] # Closed,
         next.step = "replayed" => \A c \in next.ended : session[c] # Closed,
         next.step = "replayed" /\ Live(next.code) => next.code \in next.ended,
         next.step \in {"admitting", "opening"} => Opens(p) /\ next.code = worker[p].code
  PROVE  IInv'
<1> USE DEF IInv
<1>1. TypeOK'
  BY DEF TypeOK, account
<1>2. worker'[p] = next /\ \A q \in Worker \ {p} : worker'[q] = worker[q]
  BY DEF TypeOK
<1>3. AboutIssued' /\ AboutSessions'
  BY <1>2 DEF AboutIssued, AboutSessions, Issued, Theirs, At
<1>4. Replaying'
  BY <1>2 DEF Replaying, At, Live
<1>5. Ending' /\ Spared' /\ InThePast' /\ ReachedHaveEnded'
  BY DEF Ending, Spared, InThePast, ReachedHaveEnded, Live, Theirs, Issued, Reached
<1>6. ClaimedOnce'
  BY <1>2 DEF ClaimedOnce, Opens
<1>7. PastSecrets' /\ NoForks'
  BY DEF PastSecrets, NoForks
<1>8. ReplayedCodesOpenNothing' /\ SignOutReachesPresentedLater'
  BY DEF ReplayedCodesOpenNothing, SignOutReachesPresentedLater, Issued, Live, Reached
<1> QED BY <1>1, <1>3, <1>4, <1>5, <1>6, <1>7, <1>8

(***************************************************************************)
(* Requests that only read                                                 *)
(***************************************************************************)

LEMMA ReadingSteps ==
  ASSUME IInv, NEW p \in Worker,
         \/ Admit(p) \/ ClaimReplayed(p) \/ ReplayRevokes(p) \/ RedemptionAdmits(p) \/ RefreshAdmits(p) \/ Crash(p)
         \/ \E f \in Family : Authorize(p, f)
         \/ \E c \in Code : RedeemCode(p, c)
         \/ \E c \in Code, n \in 0 .. WrongSecret : RotateRefresh(p, c, n)
  PROVE  IInv'
<1> USE DEF Goes, Ends, At
<1>a. TypeOK /\ AboutIssued /\ AboutSessions
  BY DEF IInv
<1>b. /\ worker[p].step \in OfCode => worker[p].code \in Code /\ Issued(worker[p].code)
      /\ worker[p].step \in {"readmitting", "rotating", "revoking"} => session[worker[p].code] # Closed
  BY <1>a, WorkerTyped DEF AboutIssued, AboutSessions
<1>i. Idle \in Request /\ Idle.step = "idle"
  BY DEF Request, Idle
<1>e. ASSUME Ends(p), UNCHANGED <<now, account, code, session, signout, told, handed>>
      PROVE  IInv'
  BY <1>e, <1>i, LocalStep DEF OfCode
<1>1. CASE Admit(p)
  <2>1. CASE disabled
    BY <1>1, <1>e, <2>1 DEF Admit
  <2>2. CASE ~disabled
    <3> DEFINE next == [step |-> "issuing", family |-> worker[p].family, version |-> version]
    <3>1. next \in Request
      BY <1>a, <1>1, WorkerTyped DEF Request, Admit, TypeOK
    <3> QED BY <1>1, <2>2, <3>1, LocalStep DEF Admit, OfCode
  <2> QED BY <2>1, <2>2
<1>2. CASE ClaimReplayed(p)
  <2> DEFINE next == [step |-> "replaying", code |-> worker[p].code]
  <2>1. next \in Request
    BY <1>b, <1>2 DEF Request, ClaimReplayed, OfCode
  <2> QED BY <1>b, <1>2, <2>1, LocalStep DEF ClaimReplayed, OfCode
<1>3. CASE ReplayRevokes(p)
  <2> DEFINE c == worker[p].code
             next == [step |-> "replayed", code |-> c, ended |-> {d \in {c} : Live(d)}]
  <2>1. next \in Request
    BY <1>b, <1>3 DEF Request, ReplayRevokes, OfCode
  <2> QED BY <1>b, <1>3, <2>1, LocalStep DEF ReplayRevokes, OfCode, Live
<1>4. CASE RedemptionAdmits(p)
  <2>1. CASE Ends(p)
    BY <1>4, <1>e, <2>1 DEF RedemptionAdmits
  <2>2. CASE Goes(p, [worker[p] EXCEPT !.step = "opening"])
    <3> DEFINE next == [worker[p] EXCEPT !.step = "opening"]
    <3>1. next \in Request /\ next.step = "opening" /\ next.code = worker[p].code
      BY <1>a, <1>4, WorkerTyped DEF Request, RedemptionAdmits
    <3>2. Opens(p)
      BY <1>4 DEF RedemptionAdmits, Opens
    <3>3. worker' = [worker EXCEPT ![p] = next]
      BY <2>2
    <3> HIDE DEF next
    <3> QED BY <1>b, <1>4, <3>1, <3>2, <3>3, LocalStep DEF RedemptionAdmits, OfCode
  <2> QED BY <1>4, <2>1, <2>2 DEF RedemptionAdmits
<1>5. CASE RefreshAdmits(p)
  <2> DEFINE passes == ~disabled /\ version <= session[worker[p].code].version
             next == [worker[p] EXCEPT !.step = IF passes THEN "rotating" ELSE "revoking"]
  <2>1. next \in Request /\ next.step \in {"rotating", "revoking"} /\ next.code = worker[p].code
    BY <1>a, <1>5, WorkerTyped DEF Request, RefreshAdmits
  <2>2. worker' = [worker EXCEPT ![p] = next]
    BY <1>5 DEF RefreshAdmits
  <2> HIDE DEF next
  <2> QED BY <1>b, <1>5, <2>1, <2>2, LocalStep DEF RefreshAdmits, OfCode
<1>6. CASE Crash(p)
  BY <1>6, <1>e DEF Crash
<1>7. ASSUME NEW f \in Family, Authorize(p, f) PROVE IInv'
  <2> DEFINE next == [step |-> "authorizing", family |-> f]
  <2>1. next \in Request
    BY DEF Request
  <2> QED BY <1>7, <2>1, LocalStep DEF Authorize, OfCode
<1>8. ASSUME NEW c \in Code, RedeemCode(p, c) PROVE IInv'
  <2> DEFINE next == [step |-> "claiming", code |-> c, at |-> now]
  <2>1. next \in Request
    BY <1>a DEF Request, TypeOK
  <2> QED BY <1>8, <2>1, LocalStep DEF RedeemCode, OfCode
<1>9. ASSUME NEW c \in Code, NEW n \in 0 .. WrongSecret, RotateRefresh(p, c, n) PROVE IInv'
  <2> DEFINE next == [step |-> IF n = session[c].current THEN "readmitting" ELSE "revoking", code |-> c, secret |-> n]
  <2>1. next \in Request
    BY DEF Request
  <2>2. Issued(c) /\ session[c] # Closed
    BY <1>a, <1>9 DEF RotateRefresh, Live, AboutIssued
  <2> QED BY <1>9, <2>1, <2>2, LocalStep DEF RotateRefresh, OfCode
<1> QED BY <1>1, <1>2, <1>3, <1>4, <1>5, <1>6, <1>7, <1>8, <1>9

(***************************************************************************)
(* Codes                                                                   *)
(***************************************************************************)

LEMMA IssueCodeStep ==
  ASSUME IInv, NEW p \in Worker, NEW c \in Code, IssueCode(p, c)
  PROVE  IInv'
<1> USE DEF IInv, Goes, Ends, At
<1> DEFINE row == [state |-> "issued", family |-> worker[p].family, version |-> worker[p].version, issued |-> now,
                   expires |-> now + CodeTTL, redeemed |-> FALSE, replayed |-> FALSE]
<1>1. row \in IssuedCode
  BY BoundsAssumption, WorkerTyped DEF IssueCode, IssuedCode, TypeOK
<1>2. /\ code' = [code EXCEPT ![c] = row]
      /\ ~Issued(c)
      /\ worker' = [worker EXCEPT ![p] = Idle]
      /\ UNCHANGED <<now, version, disabled, live, session, signout, told, handed>>
  BY DEF IssueCode, account
<1>u. UNCHANGED <<now, version, disabled, live, session, signout, told, handed>>
  BY <1>2
<1>3. TypeOK'
  BY <1>1, <1>2 DEF TypeOK, IssuedCode, Request
<1>4. code'[c] = row /\ \A d \in Code \ {c} : code'[d] = code[d]
  BY <1>2 DEF TypeOK
<1>5. \A q \in Worker : worker'[q] = IF q = p THEN Idle ELSE worker[q]
  BY <1>2 DEF TypeOK
<1>6. /\ \A q \in Worker : worker[q].step \in OfCode => worker[q].code \in Code \ {c}
      /\ session[c] = Closed
      /\ signout.step \in {"codes", "sessions"} => signout.codes \subseteq Code \ {c}
  BY <1>2, WorkerTyped, SignoutTyped DEF AboutIssued, Theirs
<1>7. row # Unissued
  BY DEF Unissued
<1>8. /\ row.family = worker[p].family /\ row.issued = now /\ row.expires = now + CodeTTL
      /\ row.redeemed = FALSE /\ row.replayed = FALSE
  OBVIOUS
<1> HIDE DEF row
<1>9. \A d \in Code : Issued(d)' <=> Issued(d) \/ d = c
  BY <1>4, <1>7 DEF Issued
<1>10. \A d \in Code \ {c} : /\ Theirs(d)' <=> Theirs(d)
                             /\ Reached(d)' <=> Reached(d)
  BY <1>u, <1>4, <1>9 DEF Theirs, Reached, NotTold
<1>11. ~Reached(c)'
  <2>1. row.family \in Family
    BY <1>1 DEF IssuedCode
  <2>2. told[row.family] = NotTold \/ told[row.family] <= now
    BY <2>1 DEF InThePast
  <2> QED BY <1>2, <1>4, <1>8, <2>1, <2>2 DEF Reached, TypeOK
<1>12. \A d \in Code : Live(d)' <=> Live(d)
  BY <1>2 DEF Live
<1>13. AboutIssued'
  <2>1. \A q \in Worker : worker'[q].step \in OfCode => q # p /\ worker'[q] = worker[q]
    BY <1>5 DEF OfCode, Idle
  <2>2. (\A q \in Worker : worker[q].step \in OfCode => Issued(worker[q].code))'
    BY <1>6, <1>9, <2>1 DEF AboutIssued
  <2> QED BY <1>u, <1>6, <1>9, <1>10, <2>2 DEF AboutIssued
<1>14. AboutSessions' /\ Replaying'
  BY <1>2, <1>5, <1>6, <1>12 DEF AboutSessions, Replaying, Idle, OfCode
<1>15. Ending'
  BY <1>2, <1>12, SignoutTyped DEF Ending
<1>16. Spared'
  <2> SUFFICES ASSUME signout.step \in {"codes", "sessions"}, NEW d \in Code, Theirs(d)', d \notin signout.codes
               PROVE  code'[d].issued >= signout.at
    BY <1>2 DEF Spared
  <2>1. CASE d = c
    BY <1>2, <1>4, <1>8, <2>1, SignoutTyped DEF InThePast, TypeOK
  <2>2. CASE d # c
    <3>1. d \in Code \ {c} /\ Theirs(d)
      BY <1>10, <2>2
    <3> QED BY <1>4, <3>1 DEF Spared
  <2> QED BY <2>1, <2>2
<1>17. InThePast' /\ PastSecrets' /\ NoForks'
  BY <1>2 DEF InThePast, PastSecrets, NoForks
<1>18. ReachedHaveEnded'
  BY <1>u, <1>4, <1>10, <1>11 DEF ReachedHaveEnded
<1>19. ClaimedOnce'
  <2>1. \A d \in Code : session'[d] # Closed => code'[d].redeemed
    BY <1>2, <1>4, <1>6 DEF ClaimedOnce
  <2>2. \A q \in Worker : Opens(q)' => Opens(q) /\ q # p /\ worker[q].code \in Code \ {c}
    BY <1>5, <1>6 DEF Opens, Idle, OfCode
  <2> QED BY <1>2, <1>4, <1>5, <2>1, <2>2 DEF ClaimedOnce
<1>20. ReplayedCodesOpenNothing'
  BY <1>4, <1>8, <1>9, <1>12 DEF ReplayedCodesOpenNothing
<1>21. SignOutReachesPresentedLater'
  BY <1>u, <1>4, <1>10, <1>11, <1>12 DEF SignOutReachesPresentedLater
<1> QED BY <1>3, <1>13, <1>14, <1>15, <1>16, <1>17, <1>18, <1>19, <1>20, <1>21

LEMMA ClaimCodeStep ==
  ASSUME IInv, NEW p \in Worker, ClaimCode(p)
  PROVE  IInv'
<1> USE DEF IInv, Goes, Ends, At
<1> DEFINE c == worker[p].code
<1>1. /\ c \in Code /\ Issued(c) /\ code[c] \in IssuedCode
      /\ worker[p] \in [step : {"claiming", "admitting", "opening"}, code : Code, at : Nat]
      /\ ~code[c].redeemed
      /\ code' = [code EXCEPT ![c].redeemed = TRUE]
      /\ UNCHANGED <<now, version, disabled, live, session, signout, told, handed>>
  BY WorkerTyped, CodeTyped DEF ClaimCode, OfCode, AboutIssued, account
<1>2. PICK next \in Request :
         /\ worker' = [worker EXCEPT ![p] = next]
         /\ next = Idle \/ (next.step = "admitting" /\ next.code = c)
  <2>1. CASE Ends(p)
    BY <2>1 DEF Request
  <2>2. CASE Goes(p, [worker[p] EXCEPT !.step = "admitting"])
    <3> DEFINE n == [worker[p] EXCEPT !.step = "admitting"]
    <3>1. n \in Request /\ n.step = "admitting" /\ n.code = c
      BY <1>1 DEF Request
    <3> QED BY <2>2, <3>1
  <2> QED BY <2>1, <2>2 DEF ClaimCode
<1> HIDE DEF c
<1>3. code' \in [Code -> {Unissued} \union IssuedCode]
  BY <1>1 DEF TypeOK, IssuedCode
<1>4. TypeOK'
  BY <1>1, <1>2, <1>3 DEF TypeOK, IssuedCode
<1>5. \A d \in Code : /\ code'[d] = Unissued <=> code[d] = Unissued
                      /\ code[d] # Unissued =>
                           /\ code'[d].family = code[d].family /\ code'[d].issued = code[d].issued
                           /\ code'[d].expires = code[d].expires /\ code'[d].replayed = code[d].replayed
                           /\ code'[d].redeemed <=> code[d].redeemed \/ d = c
  BY <1>1 DEF TypeOK, IssuedCode, Unissued, Issued
<1>6. \A q \in Worker : worker'[q] = IF q = p THEN next ELSE worker[q]
  BY <1>2 DEF TypeOK
<1>7. \A d \in Code : /\ Issued(d)' <=> Issued(d)
                      /\ Live(d)' <=> Live(d)
                      /\ Theirs(d)' <=> Theirs(d)
                      /\ Reached(d)' <=> Reached(d)
  BY <1>1, <1>5 DEF Issued, Live, Theirs, Reached
<1>8. AboutIssued'
  <2>1. \A q \in Worker : worker'[q].step \in OfCode =>
                             worker'[q].code \in Code /\ Issued(worker'[q].code)
    BY <1>1, <1>2, <1>6, WorkerTyped DEF AboutIssued, OfCode, Idle
  <2>2. (\A q \in Worker : worker[q].step \in OfCode => Issued(worker[q].code))'
    BY <1>7, <2>1
  <2> QED BY <1>1, <1>7, <2>2, SignoutTyped DEF AboutIssued
<1>9. AboutSessions' /\ Replaying' /\ Ending'
  BY <1>1, <1>2, <1>6, <1>7, SignoutTyped, WorkerTyped DEF AboutSessions, Replaying, Ending, Idle, OfCode
<1>10. Spared'
  BY <1>1, <1>5, <1>7 DEF Spared, Theirs, Issued
<1>11. InThePast' /\ PastSecrets' /\ NoForks'
  BY <1>1 DEF InThePast, PastSecrets, NoForks
<1>12. ReachedHaveEnded' /\ ReplayedCodesOpenNothing' /\ SignOutReachesPresentedLater'
  BY <1>1, <1>5, <1>7 DEF ReachedHaveEnded, ReplayedCodesOpenNothing, SignOutReachesPresentedLater, Reached, Issued
<1>13. ClaimedOnce'
  <2>1. \A d \in Code : session'[d] # Closed => code'[d].redeemed
    BY <1>1, <1>5 DEF ClaimedOnce, AboutIssued, Issued
  <2>2. session[c] = Closed
    BY <1>1 DEF ClaimedOnce
  <2>3. \A q \in Worker : Opens(q)' => (q = p /\ worker'[q].code = c) \/ (q # p /\ Opens(q) /\ worker[q].code \in Code \ {c})
    BY <1>1, <1>2, <1>6, WorkerTyped DEF Opens, Idle, OfCode, ClaimedOnce
  <2>4. \A q \in Worker : Opens(q)' => code'[worker'[q].code].redeemed /\ session'[worker'[q].code] = Closed
    BY <1>1, <1>5, <1>6, <2>2, <2>3 DEF ClaimedOnce, Issued, AboutIssued, Opens, OfCode
  <2> QED BY <1>6, <2>1, <2>3, <2>4 DEF ClaimedOnce
<1> QED BY <1>4, <1>8, <1>9, <1>10, <1>11, <1>12, <1>13

(***************************************************************************)
(* Sessions                                                                *)
(***************************************************************************)

LEMMA RevokedSessions ==
  ASSUME TypeOK, NEW ended \in SUBSET Code, \A c \in ended : session[c] # Closed, session' = Revoked(ended)
  PROVE  /\ session' \in [Code -> {Closed} \union OpenedSession]
         /\ \A c \in Code : session'[c] = Closed <=> session[c] = Closed
         /\ \A c \in Code : session[c] # Closed =>
              session'[c].current = session[c].current /\ session'[c].created = session[c].created
         /\ \A c \in Code : Live(c)' <=> Live(c) /\ c \notin ended
<1>1. \A c \in Code : session[c] # Closed => session[c] \in OpenedSession
  BY SessionTyped
<1>2. \A c \in Code : session'[c] = IF c \in ended THEN [session[c] EXCEPT !.revoked = TRUE] ELSE session[c]
  BY DEF Revoked
<1>3. \A c \in Code : session'[c] \in {Closed} \union OpenedSession
  BY <1>1, <1>2 DEF OpenedSession
<1>4. session' \in [Code -> {Closed} \union OpenedSession]
  BY <1>3 DEF Revoked
<1>5. Closed \notin OpenedSession
  BY DEF Closed, OpenedSession
<1>6. \A c \in Code : session[c] # Closed =>
        /\ [session[c] EXCEPT !.revoked = TRUE] \in OpenedSession
        /\ [session[c] EXCEPT !.revoked = TRUE].current = session[c].current
        /\ [session[c] EXCEPT !.revoked = TRUE].created = session[c].created
        /\ [session[c] EXCEPT !.revoked = TRUE].revoked = TRUE
  BY <1>1 DEF OpenedSession
<1> QED BY <1>2, <1>4, <1>5, <1>6 DEF Live

(* A request revokes sessions, and may mark the code it was about as replayed. *)
LEMMA RevokingStep ==
  ASSUME IInv, NEW p \in Worker, NEW c \in Code, NEW ended \in SUBSET Code,
         Issued(c),
         \A d \in ended : session[d] # Closed,
         session' = Revoked(ended),
         \/ code' = code
         \/ code' = [code EXCEPT ![c].replayed = TRUE] /\ (Live(c) => c \in ended),
         worker' = [worker EXCEPT ![p] = Idle],
         UNCHANGED <<now, account, signout, told, handed>>
  PROVE  IInv'
<1> USE DEF IInv
<1>1. /\ session' \in [Code -> {Closed} \union OpenedSession]
      /\ \A d \in Code : session'[d] = Closed <=> session[d] = Closed
      /\ \A d \in Code : session[d] # Closed =>
           session'[d].current = session[d].current /\ session'[d].created = session[d].created
      /\ \A d \in Code : Live(d)' <=> Live(d) /\ d \notin ended
  BY RevokedSessions
<1>2. code' \in [Code -> {Unissued} \union IssuedCode]
  <2>1. CASE code' = code
    BY <2>1 DEF TypeOK, IssuedCode
  <2>2. CASE code' = [code EXCEPT ![c].replayed = TRUE]
    <3>1. code[c] \in IssuedCode
      BY CodeTyped
    <3>2. [code[c] EXCEPT !.replayed = TRUE] \in IssuedCode
      BY <3>1 DEF IssuedCode
    <3> QED BY <2>2, <3>2 DEF TypeOK, IssuedCode
  <2> QED BY <2>1, <2>2
<1>u. UNCHANGED <<now, version, disabled, live, signout, told, handed>>
  BY DEF account
<1>3. TypeOK'
  BY <1>1, <1>2, <1>u DEF TypeOK, IssuedCode, OpenedSession, Request
<1>4. \A d \in Code : /\ code'[d] = Unissued <=> code[d] = Unissued
                      /\ code[d] # Unissued =>
                           /\ code'[d].family = code[d].family /\ code'[d].issued = code[d].issued
                           /\ code'[d].expires = code[d].expires /\ code'[d].redeemed = code[d].redeemed
                           /\ code'[d].replayed => code[d].replayed \/ ~Live(d)'
  <2>1. CASE code' = code
    BY <2>1
  <2>2. CASE code' = [code EXCEPT ![c].replayed = TRUE] /\ (Live(c) => c \in ended)
    BY <1>1, <2>2 DEF TypeOK, IssuedCode, Unissued, Issued
  <2> QED BY <2>1, <2>2
<1>5. \A q \in Worker : worker'[q] = IF q = p THEN Idle ELSE worker[q]
  BY DEF TypeOK
<1>6. \A d \in Code : /\ Issued(d)' <=> Issued(d)
                      /\ Theirs(d)' <=> Theirs(d)
                      /\ Reached(d)' <=> Reached(d)
  BY <1>u, <1>4 DEF Issued, Theirs, Reached
<1>7. \A q \in Worker : worker'[q].step \in OfCode => worker'[q] = worker[q] /\ worker[q].code \in Code
  BY <1>5, WorkerTyped DEF Idle, OfCode
<1>8. AboutIssued'
  <2>1. (\A q \in Worker : worker[q].step \in OfCode => Issued(worker[q].code))'
    BY <1>6, <1>7 DEF AboutIssued
  <2> QED BY <1>u, <1>1, <1>6, <2>1, SignoutTyped DEF AboutIssued
<1>9. AboutSessions'
  BY <1>u, <1>1, <1>7, SignoutTyped, WorkerTyped DEF AboutSessions, OfCode, At
<1>10. Replaying'
  BY <1>1, <1>7 DEF Replaying, OfCode, At
<1>11. Ending'
  BY <1>u, <1>1, SignoutTyped DEF Ending
<1>12. Spared'
  BY <1>u, <1>4, <1>6 DEF Spared, Theirs, Issued
<1>13. InThePast' /\ NoForks'
  BY <1>u DEF InThePast, NoForks
<1>14. PastSecrets'
  BY <1>u, <1>1 DEF PastSecrets
<1>15. ReachedHaveEnded'
  BY <1>u, <1>4, <1>6 DEF ReachedHaveEnded, Reached, Issued
<1>16. ReplayedCodesOpenNothing'
  BY <1>1, <1>4, <1>6 DEF ReplayedCodesOpenNothing, Issued
<1>17. SignOutReachesPresentedLater'
  <2> SUFFICES ASSUME NEW d \in Code, Reached(d)', Live(d)'
               PROVE  session'[d].created < told'[code'[d].family]
    BY DEF SignOutReachesPresentedLater
  <2>1. Reached(d) /\ Live(d) /\ session[d] # Closed
    BY <1>1, <1>6 DEF Live
  <2> QED BY <1>u, <1>1, <1>4, <2>1 DEF SignOutReachesPresentedLater, Reached, Issued
<1>18. ClaimedOnce'
  <2>1. \A d \in Code : session'[d] # Closed => code'[d].redeemed
    BY <1>1, <1>4 DEF ClaimedOnce, AboutIssued, Issued
  <2>2. \A q \in Worker : Opens(q)' => Opens(q) /\ worker'[q] = worker[q] /\ worker[q].code \in Code /\ Issued(worker[q].code)
    BY <1>7 DEF Opens, OfCode, AboutIssued
  <2>3. \A q \in Worker : Opens(q)' => code'[worker'[q].code].redeemed /\ session'[worker'[q].code] = Closed
    BY <1>1, <1>4, <2>2 DEF ClaimedOnce, Issued
  <2> QED BY <2>1, <2>2, <2>3 DEF ClaimedOnce
<1> QED BY <1>3, <1>8, <1>9, <1>10, <1>11, <1>12, <1>13, <1>14, <1>15, <1>16, <1>17, <1>18

LEMMA RevokingSteps ==
  ASSUME IInv, NEW p \in Worker, RevokeSession(p) \/ ReplayCommits(p)
  PROVE  IInv'
<1> USE DEF IInv, Goes, Ends, At
<1> DEFINE c == worker[p].code
<1>1. c \in Code /\ Issued(c)
  BY WorkerTyped DEF RevokeSession, ReplayCommits, OfCode, AboutIssued
<1>2. CASE RevokeSession(p)
  <2>1. session[c] # Closed
    BY <1>2 DEF RevokeSession, AboutSessions
  <2>2. /\ session' = Revoked({c}) /\ worker' = [worker EXCEPT ![p] = Idle]
        /\ code' = code /\ UNCHANGED <<now, account, signout, told, handed>>
    BY <1>2 DEF RevokeSession
  <2>3. {c} \in SUBSET Code /\ \A d \in {c} : session[d] # Closed
    BY <1>1, <2>1
  <2> HIDE DEF c
  <2> QED BY <1>1, <2>2, <2>3, RevokingStep
<1>3. CASE ReplayCommits(p)
  <2>1. /\ worker[p].ended \in SUBSET Code
        /\ \A d \in worker[p].ended : session[d] # Closed
        /\ Live(c) => c \in worker[p].ended
    BY <1>3, WorkerTyped DEF ReplayCommits, AboutSessions, Replaying
  <2> QED BY <1>1, <1>3, <2>1, RevokingStep DEF ReplayCommits
<1> QED BY <1>2, <1>3

LEMMA RotateSessionStep ==
  ASSUME IInv, NEW p \in Worker, RotateSession(p)
  PROVE  IInv'
<1> USE DEF IInv, Goes, Ends, At
<1> DEFINE c == worker[p].code
           n == worker[p].secret
<1>1. c \in Code /\ n \in Nat /\ Issued(c) /\ session[c] \in OpenedSession /\ session[c] # Closed
  BY WorkerTyped, SessionTyped DEF RotateSession, OfCode, AboutIssued, AboutSessions
<1>2. /\ worker' = [worker EXCEPT ![p] = Idle]
      /\ UNCHANGED <<now, account, code, signout, told>>
  BY DEF RotateSession
<1>3. CASE ~(Live(c) /\ session[c].current = n)
  BY <1>2, <1>3, LocalStep DEF RotateSession, OfCode, Request, Idle
<1>4. CASE Live(c) /\ session[c].current = n
  <2>1. /\ session' = [session EXCEPT ![c].current = n + 1]
        /\ handed' = [handed EXCEPT ![c] = @ \union {<<n, n + 1>>}]
    BY <1>4 DEF RotateSession
  <2> HIDE DEF c, n
  <2>u. UNCHANGED <<now, version, disabled, live, code, signout, told>>
    BY <1>2 DEF account
  <2>2. [session[c] EXCEPT !.current = n + 1] \in OpenedSession
    BY <1>1 DEF OpenedSession
  <2>3. session' \in [Code -> {Closed} \union OpenedSession] /\ handed' \in [Code -> SUBSET (Nat \X Nat)]
    BY <1>1, <2>1, <2>2 DEF TypeOK, OpenedSession
  <2>4. TypeOK'
    BY <1>2, <2>u, <2>3 DEF TypeOK, OpenedSession, Request
  <2>5. \A d \in Code : /\ session'[d] = Closed <=> session[d] = Closed
                        /\ session[d] # Closed =>
                             /\ session'[d].created = session[d].created
                             /\ session'[d].revoked = session[d].revoked
                             /\ session'[d].current = IF d = c THEN n + 1 ELSE session[d].current
    BY <1>1, <2>1, <2>2 DEF TypeOK, OpenedSession, Closed
  <2>6. \A d \in Code : Live(d)' <=> Live(d)
    BY <2>5 DEF Live
  <2>7. \A q \in Worker : worker'[q] = IF q = p THEN Idle ELSE worker[q]
    BY <1>2 DEF TypeOK
  <2>8. \A q \in Worker : worker'[q].step \in OfCode => worker'[q] = worker[q] /\ worker[q].code \in Code
    BY <2>7, WorkerTyped DEF Idle, OfCode
  <2>9. \A d \in Code : /\ Issued(d)' <=> Issued(d)
                        /\ Theirs(d)' <=> Theirs(d)
                        /\ Reached(d)' <=> Reached(d)
    BY <2>u DEF Issued, Theirs, Reached
  <2>10. AboutIssued'
    <3>1. (\A q \in Worker : worker[q].step \in OfCode => Issued(worker[q].code))'
      BY <2>8, <2>9 DEF AboutIssued
    <3> QED BY <2>u, <2>5, <2>9, <3>1, SignoutTyped DEF AboutIssued
  <2>11. AboutSessions'
    BY <2>u, <2>5, <2>8, SignoutTyped, WorkerTyped DEF AboutSessions, OfCode
  <2>12. Replaying' /\ Ending'
    BY <2>u, <2>6, <2>8, SignoutTyped DEF Replaying, Ending, OfCode
  <2>13. Spared' /\ InThePast' /\ ReachedHaveEnded'
    BY <2>u DEF Spared, InThePast, ReachedHaveEnded, Theirs, Reached, Issued
  <2>14. ReplayedCodesOpenNothing'
    BY <2>u, <2>6, <2>9 DEF ReplayedCodesOpenNothing
  <2>15. SignOutReachesPresentedLater'
    BY <2>u, <2>5, <2>6, <2>9 DEF SignOutReachesPresentedLater, Live
  <2>16. ClaimedOnce'
    <3>1. \A q \in Worker : Opens(q)' => Opens(q) /\ worker'[q] = worker[q] /\ worker[q].code \in Code
      BY <2>8 DEF Opens, OfCode
    <3>2. \A q \in Worker : Opens(q)' => code'[worker'[q].code].redeemed /\ session'[worker'[q].code] = Closed
      BY <2>u, <2>5, <3>1 DEF ClaimedOnce
    <3>3. \A d \in Code : session'[d] # Closed => code'[d].redeemed
      BY <2>u, <2>5 DEF ClaimedOnce
    <3> QED BY <3>1, <3>2, <3>3 DEF ClaimedOnce
  <2>17. PastSecrets' /\ NoForks'
    <3>1. \A d \in Code : \A g \in handed'[d] : g \in handed[d] \/ (d = c /\ g = <<n, n + 1>>)
      BY <1>1, <2>1 DEF TypeOK
    <3>2. \A d \in Code : \A g \in handed[d] : g[1] \in Nat /\ session[d] # Closed /\ g[1] < session[d].current
      BY DEF PastSecrets, TypeOK
    <3>3. n + 1 > n /\ n = session[c].current /\ <<n, n + 1>>[1] = n
      BY <1>1, <1>4
    <3>4. PastSecrets'
      BY <1>1, <2>5, <3>1, <3>2, <3>3 DEF PastSecrets
    <3>5. \A d \in Code : \A g, h \in handed'[d] : g[1] = h[1] => g = h
      BY <3>1, <3>2, <3>3 DEF NoForks
    <3> QED BY <3>4, <3>5 DEF NoForks
  <2> QED BY <2>4, <2>10, <2>11, <2>12, <2>13, <2>14, <2>15, <2>16, <2>17
<1> QED BY <1>3, <1>4

LEMMA OpenSessionStep ==
  ASSUME IInv, NEW p \in Worker, OpenSession(p)
  PROVE  IInv'
<1> USE DEF IInv, Goes, Ends, At
<1> DEFINE c == worker[p].code
           at == worker[p].at
           row == [state |-> "open", current |-> 0, version |-> code[c].version, created |-> at, revoked |-> FALSE]
<1>1. c \in Code /\ at \in Nat /\ Issued(c) /\ code[c] \in IssuedCode /\ Opens(p)
  BY WorkerTyped, CodeTyped DEF OpenSession, OfCode, AboutIssued, Opens
<1>2. /\ worker' = [worker EXCEPT ![p] = Idle]
      /\ UNCHANGED <<now, account, code, signout, told, handed>>
  BY DEF OpenSession, Opened
<1>3. CASE ~(~code[c].replayed /\ code[c].expires > at)
  BY <1>2, <1>3, LocalStep DEF OpenSession, Opened, OfCode, Request, Idle
<1>4. CASE ~code[c].replayed /\ code[c].expires > at
  <2>1. session' = [session EXCEPT ![c] = row] /\ ~CodeHeld(c)
    BY <1>4 DEF OpenSession, Opened
  <2>2. row \in OpenedSession /\ row.created = at /\ row # Closed
    BY <1>1 DEF OpenedSession, IssuedCode, Closed
  <2> HIDE DEF c, at, row
  <2>u. UNCHANGED <<now, version, disabled, live, code, signout, told, handed>>
    BY <1>2 DEF account
  <2>3. session' \in [Code -> {Closed} \union OpenedSession]
    BY <1>1, <2>1, <2>2 DEF TypeOK, OpenedSession
  <2>4. TypeOK'
    BY <1>2, <2>u, <2>3 DEF TypeOK, OpenedSession, Request
  <2>5. \A d \in Code : session'[d] = IF d = c THEN row ELSE session[d]
    BY <2>1 DEF TypeOK
  <2>6. \A d \in Code : Live(d)' => Live(d) \/ d = c
    BY <2>5 DEF Live
  <2>7. \A q \in Worker : worker'[q] = IF q = p THEN Idle ELSE worker[q]
    BY <1>2 DEF TypeOK
  <2>8. \A q \in Worker : worker'[q].step \in OfCode => q # p /\ worker'[q] = worker[q] /\ worker[q].code \in Code
    BY <2>7, WorkerTyped DEF Idle, OfCode
  <2>9. \A d \in Code : /\ Issued(d)' <=> Issued(d)
                        /\ Theirs(d)' <=> Theirs(d)
                        /\ Reached(d)' <=> Reached(d)
    BY <2>u DEF Issued, Theirs, Reached
  <2>c. session[c] = Closed
    BY <1>1 DEF ClaimedOnce, c
  <2>10. AboutIssued'
    <3>1. (\A q \in Worker : worker[q].step \in OfCode => Issued(worker[q].code))'
      BY <2>8, <2>9 DEF AboutIssued
    <3> QED BY <1>1, <2>u, <2>5, <2>9, <3>1, SignoutTyped DEF AboutIssued
  <2>11. AboutSessions'
    BY <2>u, <2>2, <2>5, <2>8, SignoutTyped, WorkerTyped DEF AboutSessions, OfCode
  <2>12. Replaying'
    BY <2>1, <2>6, <2>8 DEF Replaying, OfCode, CodeHeld
  <2>13. Ending'
    BY <2>u, <2>1, <2>6, SignoutTyped DEF Ending, CodeHeld
  <2>14. Spared' /\ InThePast' /\ ReachedHaveEnded' /\ NoForks'
    BY <2>u DEF Spared, InThePast, ReachedHaveEnded, NoForks, Theirs, Reached, Issued
  <2>15. ReplayedCodesOpenNothing'
    BY <1>4, <2>u, <2>6, <2>9 DEF ReplayedCodesOpenNothing
  <2>16. SignOutReachesPresentedLater'
    <3> SUFFICES ASSUME NEW d \in Code, Reached(d), Live(d)'
                 PROVE  session'[d].created < told[code[d].family]
      BY <2>u, <2>9 DEF SignOutReachesPresentedLater
    <3>1. CASE d # c
      BY <2>5, <2>6, <3>1 DEF SignOutReachesPresentedLater
    <3>2. CASE d = c
      <4>1. code[c].expires <= told[code[c].family] /\ code[c].expires > at
        BY <1>4, <3>2 DEF ReachedHaveEnded
      <4>2. told[code[c].family] \in Nat /\ code[c].expires \in Nat
        BY <1>1 DEF TypeOK, IssuedCode
      <4> QED BY <1>1, <2>2, <2>5, <3>2, <4>1, <4>2
    <3> QED BY <3>1, <3>2
  <2>17. ClaimedOnce'
    <3>1. \A q \in Worker : Opens(q)' => q # p /\ Opens(q) /\ worker'[q] = worker[q] /\ worker[q].code \in Code
      BY <2>8 DEF Opens, OfCode
    <3>2. \A q \in Worker : Opens(q)' => worker[q].code # c
      BY <1>1, <3>1 DEF ClaimedOnce, c
    <3>3. \A q \in Worker : Opens(q)' => code'[worker'[q].code].redeemed /\ session'[worker'[q].code] = Closed
      BY <2>u, <2>5, <3>1, <3>2 DEF ClaimedOnce
    <3>4. \A d \in Code : session'[d] # Closed => code'[d].redeemed
      BY <1>1, <2>u, <2>5 DEF ClaimedOnce, c
    <3> QED BY <3>1, <3>3, <3>4 DEF ClaimedOnce
  <2>18. PastSecrets'
    BY <2>u, <2>5, <2>c DEF PastSecrets
  <2> QED BY <2>4, <2>10, <2>11, <2>12, <2>13, <2>14, <2>15, <2>16, <2>17, <2>18
<1> QED BY <1>3, <1>4

(***************************************************************************)
(* The sign-out, the account and time                                      *)
(***************************************************************************)

(* Nothing but the sign-out, the account or the clock moves. *)
LEMMA OutsideStep ==
  ASSUME IInv,
         UNCHANGED <<code, session, worker, told, handed>>,
         now' \in Nat, now <= now', now' <= MaxTime,
         version' \in Nat, disabled' \in BOOLEAN, live' \subseteq Family,
         signout' \in Signout,
         signout' # Idle => signout'.at <= now',
         signout'.step \in {"codes", "sessions"} =>
           /\ \A c \in signout'.codes : Theirs(c)'
           /\ \A c \in Code : Theirs(c)' /\ c \notin signout'.codes => code[c].issued >= signout'.at,
         signout'.step = "sessions" =>
           /\ \A c \in signout'.ended : session[c] # Closed
           /\ \A c \in signout'.codes : Live(c) => c \in signout'.ended
  PROVE  IInv'
<1> USE DEF IInv
<1>1. TypeOK'
  BY DEF TypeOK
<1>2. AboutIssued' /\ AboutSessions'
  BY DEF AboutIssued, AboutSessions, Issued, At
<1>3. Replaying' /\ Ending' /\ ClaimedOnce' /\ PastSecrets' /\ NoForks'
  BY DEF Replaying, Ending, ClaimedOnce, PastSecrets, NoForks, Live, At, Opens
<1>4. Spared'
  BY DEF Spared
<1>5. InThePast'
  <2>1. \A f \in Family : told[f] # NotTold => told[f] <= now'
    BY DEF InThePast, TypeOK
  <2> QED BY <2>1 DEF InThePast, NotTold
<1>6. ReachedHaveEnded' /\ ReplayedCodesOpenNothing' /\ SignOutReachesPresentedLater'
  BY DEF ReachedHaveEnded, ReplayedCodesOpenNothing, SignOutReachesPresentedLater, Reached, Issued, Live
<1> QED BY <1>1, <1>2, <1>3, <1>4, <1>5, <1>6

LEMMA OutsideSteps ==
  ASSUME IInv,
         \/ \E ended \in SUBSET Family : UpstreamRevoked(ended)
         \/ RevokeUpstream \/ UpstreamEndsSessions \/ UpstreamFails
         \/ RevokeTokens \/ SetStatus \/ Tick
  PROVE  IInv'
<1> USE DEF IInv
<1>t. /\ now \in Nat /\ version \in Nat /\ disabled \in BOOLEAN /\ live \subseteq Family
      /\ signout \in Signout /\ now <= MaxTime
      /\ signout # Idle => signout.at \in Nat /\ signout.families \in SUBSET Family /\ signout.at <= now
  BY SignoutTyped DEF TypeOK, InThePast
<1>1. ASSUME NEW ended \in SUBSET Family, UpstreamRevoked(ended) PROVE IInv'
  <2> DEFINE next == [step |-> "starting", families |-> ended, at |-> now]
  <2>1. /\ signout' = next /\ live' = live \ ended
        /\ UNCHANGED <<now, version, disabled, code, session, worker, told, handed>>
    BY <1>1 DEF UpstreamRevoked
  <2>2. next \in Signout
    BY <1>t DEF Signout
  <2>3. next.at = now /\ next.step = "starting"
    OBVIOUS
  <2> HIDE DEF next
  <2> QED BY <1>t, <2>1, <2>2, <2>3, OutsideStep
<1>2. CASE RevokeUpstream
  <2> DEFINE codes == {c \in Code : Theirs(c)}
             next == [step |-> "codes", families |-> signout.families, at |-> signout.at, codes |-> codes]
  <2>1. /\ signout' = next /\ signout.step = "starting" /\ UNCHANGED <<now, account, code, session, worker, told, handed>>
    BY <1>2 DEF RevokeUpstream
  <2>2. signout # Idle
    BY <2>1, SignoutTyped
  <2>3. next \in Signout /\ next.codes = codes /\ next.at = signout.at /\ next.step = "codes"
        /\ next.families = signout.families
    BY <1>t, <2>2 DEF Signout
  <2>4. \A c \in Code : Theirs(c)' <=> c \in codes
    BY <2>1, <2>3 DEF Theirs, Issued
  <2>5. codes \subseteq Code
    OBVIOUS
  <2> HIDE DEF next, codes
  <2> QED BY <1>t, <2>1, <2>2, <2>3, <2>4, <2>5, OutsideStep DEF account
<1>3. CASE UpstreamEndsSessions
  <2> DEFINE theirs == {c \in Code : Theirs(c) /\ Live(c)}
             next == [step |-> "sessions", families |-> signout.families, at |-> signout.at,
                      codes |-> signout.codes, ended |-> theirs]
  <2>1. /\ signout' = next /\ signout.step = "codes" /\ UNCHANGED <<now, account, code, session, worker, told, handed>>
    BY <1>3 DEF UpstreamEndsSessions
  <2>2. signout # Idle /\ signout.codes \in SUBSET Code
    BY <2>1, SignoutTyped
  <2>3. next \in Signout /\ next.codes = signout.codes /\ next.ended = theirs
        /\ next.at = signout.at /\ next.step = "sessions" /\ next.families = signout.families
    BY <1>t, <2>2 DEF Signout
  <2>4. \A c \in Code : Theirs(c)' <=> Theirs(c)
    BY <2>1, <2>3 DEF Theirs, Issued
  <2>5. \A c \in signout.codes : Theirs(c)
    BY <2>1 DEF AboutIssued
  <2>6. \A c \in Code : Theirs(c) /\ c \notin signout.codes => code[c].issued >= signout.at
    BY <2>1 DEF Spared
  <2>7. \A c \in theirs : session[c] # Closed
    BY DEF Live
  <2>8. \A c \in signout.codes : Live(c) => c \in theirs
    BY <2>2, <2>5
  <2> HIDE DEF next, theirs
  <2> QED BY <1>t, <2>1, <2>2, <2>3, <2>4, <2>5, <2>6, <2>7, <2>8, OutsideStep DEF account
<1>4. CASE UpstreamFails
  <2>1. Idle \in Signout /\ Idle.step = "idle"
    BY DEF Signout, Idle
  <2> QED BY <1>t, <1>4, <2>1, OutsideStep DEF UpstreamFails, account
<1>5. CASE RevokeTokens \/ SetStatus \/ Tick
  <2>1. /\ UNCHANGED <<live, code, session, worker, signout, told, handed>>
        /\ now' \in Nat /\ now <= now' /\ now' <= MaxTime /\ version' \in Nat /\ disabled' \in BOOLEAN
    <3>1. CASE RevokeTokens
      BY <1>t, <3>1 DEF RevokeTokens
    <3>2. CASE SetStatus
      BY <1>t, <3>2 DEF SetStatus
    <3>3. CASE Tick
      BY <1>t, <3>3, BoundsAssumption DEF Tick, account
    <3> QED BY <1>5, <3>1, <3>2, <3>3
  <2>2. signout' # Idle => signout'.at <= now'
    BY <1>t, <2>1
  <2>3. \A c \in Code : Theirs(c)' <=> Theirs(c)
    BY <2>1 DEF Theirs, Issued
  <2>4. signout.step \in {"codes", "sessions"} =>
          /\ signout.codes \in SUBSET Code
          /\ \A c \in signout.codes : Theirs(c)
          /\ \A c \in Code : Theirs(c) /\ c \notin signout.codes => code[c].issued >= signout.at
    BY SignoutTyped DEF AboutIssued, Spared
  <2>5. signout.step = "sessions" =>
          /\ \A c \in signout.ended : session[c] # Closed
          /\ \A c \in signout.codes : Live(c) => c \in signout.ended
    BY DEF AboutSessions, Ending
  <2> QED BY <1>t, <2>1, <2>2, <2>3, <2>4, <2>5, OutsideStep
<1> QED BY <1>1, <1>2, <1>3, <1>4, <1>5

LEMMA UpstreamCommitsStep ==
  ASSUME IInv, UpstreamCommits
  PROVE  IInv'
<1> USE DEF IInv
<1> DEFINE at == signout.at
           families == signout.families
           codes == signout.codes
           ended == signout.ended
<1>1. /\ signout # Idle /\ at \in Nat /\ at <= now /\ families \in SUBSET Family
      /\ codes \in SUBSET Code /\ ended \in SUBSET Code
      /\ \A c \in ended : session[c] # Closed
      /\ \A c \in codes : Issued(c) /\ code[c].family \in families /\ (Live(c) => c \in ended)
      /\ \A c \in Code : Issued(c) /\ code[c].family \in families /\ c \notin codes => code[c].issued >= at
  BY SignoutTyped DEF UpstreamCommits, AboutIssued, AboutSessions, Ending, Spared, Theirs, InThePast
<1>2. /\ code' = ExpiredCodes
      /\ session' = Revoked(ended)
      /\ told' = [f \in Family |-> IF f \in families THEN Sooner(told[f], at) ELSE told[f]]
      /\ signout' = Idle
      /\ UNCHANGED <<now, account, worker, handed>>
  BY DEF UpstreamCommits
<1>3. code' = [c \in Code |-> IF c \in codes THEN [code[c] EXCEPT !.expires = Sooner(@, at)] ELSE code[c]]
  BY <1>2 DEF ExpiredCodes
<1> HIDE DEF at, families, codes, ended
<1>u. UNCHANGED <<now, version, disabled, live, worker, handed>>
  BY <1>2 DEF account
<1>4. /\ session' \in [Code -> {Closed} \union OpenedSession]
      /\ \A d \in Code : session'[d] = Closed <=> session[d] = Closed
      /\ \A d \in Code : session[d] # Closed =>
           session'[d].current = session[d].current /\ session'[d].created = session[d].created
      /\ \A d \in Code : Live(d)' <=> Live(d) /\ d \notin ended
  BY <1>1, <1>2, RevokedSessions
<1>5. \A c \in Code : Issued(c) => code[c] \in IssuedCode /\ Sooner(code[c].expires, at) \in Nat
  BY <1>1, CodeTyped DEF IssuedCode, Sooner
<1>6. \A c \in Code : Issued(c) => [code[c] EXCEPT !.expires = Sooner(@, at)] \in IssuedCode
  BY <1>5 DEF IssuedCode
<1>7. code' \in [Code -> {Unissued} \union IssuedCode]
  <2>1. \A c \in Code : code'[c] \in {Unissued} \union IssuedCode
    BY <1>1, <1>3, <1>5, <1>6 DEF Issued
  <2> QED BY <1>3, <2>1
<1>8. \A c \in Code : /\ Issued(c)' <=> Issued(c)
                      /\ Issued(c) =>
                           /\ code'[c].family = code[c].family /\ code'[c].issued = code[c].issued
                           /\ code'[c].redeemed = code[c].redeemed /\ code'[c].replayed = code[c].replayed
                           /\ code'[c].expires = IF c \in codes THEN Sooner(code[c].expires, at) ELSE code[c].expires
  <2>1. \A c \in Code : Issued(c) => [code[c] EXCEPT !.expires = Sooner(@, at)] # Unissued
    BY <1>6 DEF IssuedCode, Unissued
  <2>2. \A c \in Code : ~Issued(c) => c \notin codes
    BY <1>1
  <2> QED BY <1>1, <1>3, <1>5, <2>1, <2>2 DEF IssuedCode, Issued
<1>9. told' \in [Family -> Nat]
  BY <1>1, <1>2 DEF Sooner, TypeOK
<1>10. TypeOK'
  BY <1>2, <1>u, <1>4, <1>7, <1>9 DEF TypeOK, IssuedCode, OpenedSession, Signout
<1>11. AboutIssued'
  <2>1. (\A q \in Worker : worker[q].step \in OfCode => Issued(worker[q].code))'
    BY <1>u, <1>8, WorkerTyped DEF AboutIssued
  <2> QED BY <1>2, <1>4, <1>8, <2>1 DEF AboutIssued, Idle
<1>12. AboutSessions'
  BY <1>2, <1>u, <1>4, WorkerTyped DEF AboutSessions, OfCode, Idle, At
<1>13. Replaying'
  BY <1>u, <1>4, WorkerTyped DEF Replaying, OfCode, At
<1>14. Ending' /\ Spared'
  BY <1>2 DEF Ending, Spared, Idle
<1>15. \A f \in Family : /\ told'[f] = IF f \in families THEN Sooner(told[f], at) ELSE told[f]
                         /\ told[f] \in Nat
  BY <1>2 DEF TypeOK
<1>16. at <= MaxTime /\ at # NotTold /\ NotTold' = NotTold
  BY <1>1, BoundsAssumption DEF InThePast, NotTold, TypeOK
<1>17. InThePast'
  BY <1>1, <1>2, <1>u, <1>15, <1>16 DEF InThePast, TypeOK, Sooner
(* What it reaches it saw, and had ended; or an earlier one had. *)
<1>18. ASSUME NEW c \in Code, Reached(c)'
       PROVE  /\ Issued(c) /\ code[c].family \in Family
              /\ told'[code[c].family] \in Nat
              /\ \/ c \in codes /\ told'[code[c].family] = Sooner(told[code[c].family], at)
                 \/ Reached(c) /\ told'[code[c].family] = told[code[c].family] /\ c \notin codes
  <2>1. Issued(c) /\ code[c] \in IssuedCode /\ code[c].family \in Family /\ code[c].issued \in Nat
    BY <1>5, <1>8, <1>18 DEF Reached, IssuedCode
  <2>2. code[c].issued < told'[code[c].family] /\ told'[code[c].family] # NotTold
    BY <1>8, <1>16, <1>18, <2>1 DEF Reached
  <2>3. CASE code[c].family \in families /\ c \notin codes
    <3>1. told'[code[c].family] <= at /\ code[c].issued >= at
      BY <1>1, <1>15, <2>1, <2>3 DEF Sooner
    <3> QED BY <1>1, <1>9, <2>1, <2>2, <3>1
  <2>4. CASE c \in codes
    BY <1>1, <1>9, <1>15, <2>1, <2>4
  <2>5. CASE code[c].family \notin families
    <3>1. c \notin codes
      BY <1>1, <2>5
    <3> QED BY <1>9, <1>15, <2>1, <2>2, <2>5, <3>1 DEF Reached
  <2> QED BY <2>3, <2>4, <2>5
<1>19. ReachedHaveEnded'
  <2> SUFFICES ASSUME NEW c \in Code, Reached(c)'
               PROVE  code'[c].expires <= told'[code'[c].family]
    BY DEF ReachedHaveEnded
  <2>1. Issued(c) /\ code[c].family \in Family /\ code'[c].family = code[c].family /\ code[c].expires \in Nat
    BY <1>5, <1>8, <1>18 DEF IssuedCode
  <2>2. CASE c \in codes /\ told'[code[c].family] = Sooner(told[code[c].family], at)
    <3>1. code'[c].expires = Sooner(code[c].expires, at)
      BY <1>8, <2>1, <2>2
    <3>2. CASE told[code[c].family] < at
      <4>1. told'[code[c].family] = told[code[c].family]
        BY <2>2, <3>2 DEF Sooner
      <4>2. Reached(c)
        BY <1>8, <1>16, <2>1, <4>1 DEF Reached
      <4>3. code[c].expires <= told[code[c].family]
        BY <4>2 DEF ReachedHaveEnded
      <4> QED BY <1>1, <1>15, <2>1, <3>1, <4>1, <4>3 DEF Sooner
    <3>3. CASE ~(told[code[c].family] < at)
      BY <1>1, <1>15, <2>1, <2>2, <3>1, <3>3 DEF Sooner
    <3> QED BY <3>2, <3>3
  <2>3. CASE Reached(c) /\ told'[code[c].family] = told[code[c].family] /\ c \notin codes
    BY <1>8, <2>1, <2>3 DEF ReachedHaveEnded
  <2> QED BY <1>18, <2>2, <2>3
<1>20. ClaimedOnce'
  <2>1. \A d \in Code : session'[d] # Closed => code'[d].redeemed
    BY <1>4, <1>8 DEF ClaimedOnce, AboutIssued
  <2>2. \A q \in Worker : Opens(q)' => Opens(q) /\ worker[q].code \in Code /\ Issued(worker[q].code)
    BY <1>u, WorkerTyped DEF Opens, OfCode, AboutIssued
  <2>3. \A q \in Worker : Opens(q)' => code'[worker'[q].code].redeemed /\ session'[worker'[q].code] = Closed
    BY <1>u, <1>4, <1>8, <2>2 DEF ClaimedOnce
  <2> QED BY <1>u, <2>1, <2>2, <2>3 DEF ClaimedOnce
<1>21. PastSecrets' /\ NoForks'
  BY <1>u, <1>4 DEF PastSecrets, NoForks
<1>22. ReplayedCodesOpenNothing'
  BY <1>4, <1>8 DEF ReplayedCodesOpenNothing
<1>23. SignOutReachesPresentedLater'
  <2> SUFFICES ASSUME NEW c \in Code, Reached(c)', Live(c)'
               PROVE  session'[c].created < told'[code'[c].family]
    BY DEF SignOutReachesPresentedLater
  <2>1. Live(c) /\ c \notin ended /\ session[c] # Closed
    BY <1>4 DEF Live
  <2>2. c \notin codes
    BY <1>1, <2>1
  <2>3. Reached(c) /\ told'[code[c].family] = told[code[c].family] /\ Issued(c)
    BY <1>18, <2>2
  <2> QED BY <1>4, <1>8, <2>1, <2>3 DEF SignOutReachesPresentedLater
<1> QED BY <1>10, <1>11, <1>12, <1>13, <1>14, <1>17, <1>19, <1>20, <1>21, <1>22, <1>23

(***************************************************************************)
(* The invariant                                                           *)
(***************************************************************************)

LEMMA InitIInv == Init => IInv
<1> SUFFICES ASSUME Init PROVE IInv
  OBVIOUS
<1> USE DEF Init
<1>1. TypeOK
  <2>1. worker \in [Worker -> Request] /\ signout \in Signout
    BY DEF Request, Signout
  <2>2. told \in [Family -> Nat] /\ handed \in [Code -> SUBSET (Nat \X Nat)]
    BY BoundsAssumption DEF NotTold
  <2> QED BY <2>1, <2>2 DEF TypeOK
<1>2. \A c \in Code : ~Issued(c) /\ ~Live(c) /\ session[c] = Closed /\ handed[c] = {}
  BY DEF Issued, Live
<1>3. \A p \in Worker : worker[p].step = "idle"
  BY DEF Idle
<1>4. signout.step = "idle"
  BY DEF Idle
<1>5. AboutIssued /\ AboutSessions /\ Replaying /\ Ending /\ Spared
  BY <1>2, <1>3, <1>4 DEF AboutIssued, AboutSessions, Replaying, Ending, Spared, OfCode, At
<1>6. InThePast
  BY BoundsAssumption DEF InThePast, NotTold
<1>7. ClaimedOnce /\ PastSecrets /\ NoForks
  BY <1>2, <1>3 DEF ClaimedOnce, PastSecrets, NoForks, Opens
<1>8. ReachedHaveEnded /\ ReplayedCodesOpenNothing /\ SignOutReachesPresentedLater
  BY <1>2 DEF ReachedHaveEnded, ReplayedCodesOpenNothing, SignOutReachesPresentedLater, Reached
<1> QED BY <1>1, <1>5, <1>6, <1>7, <1>8 DEF IInv

LEMMA NextIInv == IInv /\ [Next]_vars => IInv'
<1> SUFFICES ASSUME IInv, [Next]_vars PROVE IInv'
  OBVIOUS
<1>1. CASE UNCHANGED vars
  BY <1>1 DEF vars, account, IInv, TypeOK, AboutIssued, AboutSessions, Replaying, Ending, Spared, InThePast,
     ReachedHaveEnded, ClaimedOnce, PastSecrets, ReplayedCodesOpenNothing, SignOutReachesPresentedLater, NoForks,
     Issued, Live, Theirs, Reached, Opens, At
<1>2. ASSUME NEW p \in Worker, NEW c \in Code, IssueCode(p, c) PROVE IInv'
  BY <1>2, IssueCodeStep
<1>3. ASSUME NEW p \in Worker, ClaimCode(p) PROVE IInv'
  BY <1>3, ClaimCodeStep
<1>4. ASSUME NEW p \in Worker, RevokeSession(p) \/ ReplayCommits(p) PROVE IInv'
  BY <1>4, RevokingSteps
<1>5. ASSUME NEW p \in Worker, RotateSession(p) PROVE IInv'
  BY <1>5, RotateSessionStep
<1>6. ASSUME NEW p \in Worker, OpenSession(p) PROVE IInv'
  BY <1>6, OpenSessionStep
<1>7. CASE UpstreamCommits
  BY <1>7, UpstreamCommitsStep
<1>8. ASSUME NEW p \in Worker,
             \/ Admit(p) \/ ClaimReplayed(p) \/ ReplayRevokes(p) \/ RedemptionAdmits(p) \/ RefreshAdmits(p) \/ Crash(p)
             \/ \E f \in Family : Authorize(p, f)
             \/ \E c \in Code : RedeemCode(p, c)
             \/ \E c \in Code, n \in 0 .. WrongSecret : RotateRefresh(p, c, n)
      PROVE IInv'
  BY <1>8, ReadingSteps
<1>9. CASE \/ \E ended \in SUBSET Family : UpstreamRevoked(ended)
           \/ RevokeUpstream \/ UpstreamEndsSessions \/ UpstreamFails
           \/ RevokeTokens \/ SetStatus \/ Tick
  BY <1>9, OutsideSteps
<1> QED BY <1>1, <1>2, <1>3, <1>4, <1>5, <1>6, <1>7, <1>8, <1>9 DEF Next

THEOREM Invariance == Spec => []IInv
BY InitIInv, NextIInv, PTL DEF Spec

(***************************************************************************)
(* The theorems                                                            *)
(***************************************************************************)

(* Every table, request and sign-out has the shape its columns have. *)
THEOREM TypeCorrect == Spec => []TypeOK
<1>1. IInv => TypeOK
  BY DEF IInv
<1> QED BY <1>1, Invariance, PTL

(* A replayed code has left no session, and a refresh secret one next one,
   whatever requests present them at once. *)
THEOREM SpentOnce == Spec => []SecretsAreSpentOnce
<1>1. IInv => SecretsAreSpentOnce
  BY DEF IInv, SecretsAreSpentOnce
<1> QED BY <1>1, Invariance, PTL

(* After a sign-out has been passed on, no code issued before it has opened a
   session for a request that came at or after its instant. *)
THEOREM PresentedLaterIsReached == Spec => []SignOutReachesPresentedLater
<1>1. IInv => SignOutReachesPresentedLater
  BY DEF IInv
<1> QED BY <1>1, Invariance, PTL
=============================================================================
