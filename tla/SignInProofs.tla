---------------------------- MODULE SignInProofs ----------------------------
(***************************************************************************)
(* Theorems about Sessions and about SignIn, for any sessions, accounts,   *)
(* mailboxes, requests and bounds.                                         *)
(*                                                                         *)
(* Of the sessions: a sign-in is alone with its session until the locker   *)
(* has it, one refresh of a session runs at a time, and therefore what the *)
(* locker and a refresh in flight hold is the family's current secret,     *)
(* unless the answer that carried a rotated one was lost (SecretsKeepUp).  *)
(* What has ended is never given back (EndedForever).                      *)
(*                                                                         *)
(* Of the sign-ins: two decisions never share a subject or a mailbox       *)
(* (LocksAreHeld), so what one found still stands when it is written       *)
(* (DecisionsStand), which needs of the accounts that one a provider opens *)
(* is never a squat (AccountsAreSound).                                    *)
(***************************************************************************)
EXTENDS SignIn, Sessions, FiniteSetTheorems, TLAPS

(***************************************************************************)
(* The inductive invariant of Sessions, session by session                 *)
(***************************************************************************)
Engages(p, w) == worker[p] # NoRequest /\ worker[p].web = w
Flying(p, w) == worker[p].step \in Refreshing /\ worker[p].web = w

(* A sign-in is alone with its session until the locker has it. *)
SignsInAlone(w) ==
  /\ family[w] = Unissued => locker[w] = NoSession
  /\ \A p \in Worker : Engages(p, w) =>
       /\ worker[p].step = "signing in" <=> family[w] = Unissued
       /\ worker[p].step \in {"signing in", "putting"} =>
            locker[w] = NoSession /\ \A q \in Worker : Engages(q, w) => q = p
       /\ worker[p].step = "putting" /\ Live(w) => family[w].current = 0

(* The lock of a session lets one refresh run. *)
OneFlight(w) == \A p, q \in Worker : Flying(p, w) /\ Flying(q, w) => p = q

(* A secret is the family's current one, or behind because an answer was lost. *)
Abreast(w, n) == family[w].current = n \/ (family[w].current = n + 1 /\ w \in lost)

LockerKeepsUp(w) ==
  locker[w] # NoSession /\ Live(w) =>
    \/ Abreast(w, locker[w])
    \/ \E p \in Worker : Flying(p, w) /\ worker[p].step = "saving" /\ family[w].current = locker[w] + 1

(* What the refresh p of w holds. *)
RefreshKeepsUp(p, w) ==
  /\ locker[w] \in {worker[p].secret, NoSession}
  /\ worker[p].step = "saving" /\ Live(w) => family[w].current = worker[p].secret + 1
  /\ worker[p].step \in {"looking up", "rotating"} /\ Live(w) => family[w].current = worker[p].secret
  /\ worker[p].step \in {"inspecting", "viewing"} /\ Live(w) => Abreast(w, worker[p].secret)
  /\ worker[p].step = "refused" => ~Live(w)

SecretsKeepUp(w) == LockerKeepsUp(w) /\ \A p \in Worker : Flying(p, w) => RefreshKeepsUp(p, w)

SessionInv(w) == SignsInAlone(w) /\ OneFlight(w) /\ SecretsKeepUp(w)

Issued == [state : {"live"}, current : Nat, snapshot : Nat]
Locating == (Refreshing \ {"rotating"}) \union {"signing out", "revoking"}
Doing ==
  {NoRequest} \union [step : {"signing in"}, web : Web, read : Nat] \union [step : {"putting"}, web : Web]
    \union [step : {"rotating"}, web : Web, secret : Nat, read : Nat]
    \union [step : Locating, web : Web, secret : Nat]

(* What the record of a request holds at each of its steps. *)
LEMMA StepsOfRequests ==
  /\ NoRequest.step = "idle"
  /\ \A d \in Doing :
       /\ d.step \in {"idle", "signing in", "putting", "signing out", "revoking"} \union Refreshing
       /\ d.step = "idle" <=> d = NoRequest
       /\ d # NoRequest => d.web \in Web
       /\ d.step \in Refreshing \union {"signing out", "revoking"} => d.secret \in Nat
       /\ d.step \in {"signing in", "rotating"} => d.read \in Nat
<1>1. NoRequest.step = "idle"
  BY DEF NoRequest
<1>2. ASSUME NEW d \in Doing
      PROVE  \/ d = NoRequest
             \/ d.step = "signing in" /\ d.web \in Web /\ d.read \in Nat
             \/ d.step = "putting" /\ d.web \in Web
             \/ d.step = "rotating" /\ d.web \in Web /\ d.secret \in Nat /\ d.read \in Nat
             \/ d.step \in Locating /\ d.web \in Web /\ d.secret \in Nat
  BY DEF Doing
<1> QED BY <1>1, <1>2 DEF Locating, Refreshing

LEMMA DoingsOfRequests ==
  /\ NoRequest \in Doing
  /\ \A w \in Web :
       /\ [step |-> "putting", web |-> w] \in Doing
       /\ \A n \in Nat :
            /\ [step |-> "signing in", web |-> w, read |-> n] \in Doing
            /\ \A s \in Locating : [step |-> s, web |-> w, secret |-> n] \in Doing
            /\ \A m \in Nat : [step |-> "rotating", web |-> w, secret |-> n, read |-> m] \in Doing
BY DEF Doing, NoRequest

(* One that does not hold what the directory said becomes the next step with the same secret. *)
LEMMA SameSecret ==
  ASSUME NEW d \in Doing, d.step \in Locating, NEW s \in Locating
  PROVE  /\ [d EXCEPT !.step = s] \in Doing /\ [d EXCEPT !.step = s].step = s
         /\ [d EXCEPT !.step = s].web = d.web /\ [d EXCEPT !.step = s].secret = d.secret
<1>1. d.step \notin {"idle", "signing in", "putting", "rotating"}
  BY DEF Locating, Refreshing
<1>2. d \in [step : Locating, web : Web, secret : Nat]
  <2>1. /\ NoRequest.step = "idle"
        /\ d \in [step : {"signing in"}, web : Web, read : Nat] => d.step = "signing in"
        /\ d \in [step : {"putting"}, web : Web] => d.step = "putting"
        /\ d \in [step : {"rotating"}, web : Web, secret : Nat, read : Nat] => d.step = "rotating"
    BY DEF NoRequest
  <2> QED BY <1>1, <2>1 DEF Doing
<1> QED BY <1>2 DEF Doing

LEMMA FamilyTypes ==
  /\ Unissued.state = "unissued" /\ Gone.state = "gone" /\ Unissued # Gone
  /\ \A f \in Issued : f.state = "live" /\ f.current \in Nat /\ f.snapshot \in Nat /\ f # Unissued /\ f # Gone
  /\ \A f \in {Unissued, Gone} \union Issued : f.state = "live" => f \in Issued
BY DEF Issued, Unissued, Gone

SessionsTyped ==
  /\ version \in Nat /\ disabled \in BOOLEAN /\ faults \in Nat
  /\ family \in [Web -> {Unissued, Gone} \union Issued]
  /\ locker \in [Web -> Nat]
  /\ lapsed \subseteq Web /\ lost \subseteq Web
  /\ worker \in [Worker -> Doing]

SessionsInv == SessionsTyped /\ \A w \in Web : SessionInv(w)

(***************************************************************************)
(* A session that a step leaves alone, but for the end of its family       *)
(***************************************************************************)
LEMMA Elsewhere ==
  ASSUME SessionsInv, NEW w \in Web,
         locker'[w] = locker[w], w \in lost => w \in lost',
         family'[w] = family[w] \/ (Live(w) /\ family'[w] = Gone),
         \A q \in Worker : Engages(q, w) \/ Engages(q, w)' => worker'[q] = worker[q]
  PROVE  SessionInv(w)'
<1>1. SignsInAlone(w) /\ OneFlight(w) /\ SecretsKeepUp(w)
  BY DEF SessionsInv, SessionInv
<1>2. /\ family[w] = Unissued <=> family'[w] = Unissued
      /\ Live(w)' => Live(w) /\ family'[w] = family[w]
  BY FamilyTypes DEF Live
<1>3. \A q \in Worker :
        /\ Engages(q, w)' <=> Engages(q, w)
        /\ Flying(q, w)' <=> Flying(q, w)
        /\ Engages(q, w) => worker'[q] = worker[q]
        /\ Flying(q, w) => worker'[q] = worker[q]
  BY StepsOfRequests DEF Engages, Flying, Refreshing
<1>4. SignsInAlone(w)'
  BY <1>1, <1>2, <1>3 DEF SignsInAlone
<1>5. OneFlight(w)'
  BY <1>1, <1>3 DEF OneFlight
<1>6. LockerKeepsUp(w)'
  BY <1>1, <1>2, <1>3 DEF SecretsKeepUp, LockerKeepsUp, Abreast
<1>7. ASSUME NEW q \in Worker, Flying(q, w)' PROVE RefreshKeepsUp(q, w)'
  BY <1>1, <1>2, <1>3, <1>7 DEF SecretsKeepUp, RefreshKeepsUp, Abreast
<1> QED BY <1>4, <1>5, <1>6, <1>7 DEF SessionInv, SecretsKeepUp

(* One family after another may end; the workers and the locker stay. *)
LEMMA FamiliesEnd ==
  ASSUME SessionsInv, SessionsTyped', UNCHANGED <<locker, worker, lost>>,
         \A w \in Web : family'[w] = family[w] \/ (Live(w) /\ family'[w] = Gone)
  PROVE  SessionsInv'
BY Elsewhere DEF SessionsInv

LEMMA RevokedTypes ==
  ASSUME SessionsTyped
  PROVE  /\ RevokeUserEverywhere \in [Web -> {Unissued, Gone} \union Issued]
         /\ \A w \in Web : /\ RevokeUserEverywhere[w] = family[w] \/ (Live(w) /\ RevokeUserEverywhere[w] = Gone)
                           /\ RevokeUserEverywhere[w].state # "live"
BY FamilyTypes DEF SessionsTyped, RevokeUserEverywhere, Live

(***************************************************************************)
(* A request that goes on with its session                                 *)
(***************************************************************************)
LEMMA Continues ==
  ASSUME SessionsInv, NEW p \in Worker, NEW w \in Web, Engages(p, w),
         worker[p].step \notin {"signing in", "putting"},
         \A q \in Worker \ {p} : worker'[q] = worker[q],
         worker'[p] = NoRequest \/ (worker'[p].web = w /\ worker'[p].step \notin {"signing in", "putting"}),
         worker'[p].step \in Refreshing => worker[p].step \in Refreshing,
         family'[w] = family[w] \/ family'[w] # Unissued
  PROVE  SignsInAlone(w)' /\ OneFlight(w)' /\ family[w] # Unissued
<1>1. SignsInAlone(w) /\ OneFlight(w)
  BY DEF SessionsInv, SessionInv
<1>2. family[w] # Unissued /\ family'[w] # Unissued
  BY <1>1 DEF SignsInAlone
<1>3. \A q \in Worker : Engages(q, w) => worker[q].step \notin {"signing in", "putting"}
  BY <1>1 DEF SignsInAlone
<1>4. \A q \in Worker : Engages(q, w)' => worker'[q].step \notin {"signing in", "putting"}
  BY <1>3 DEF Engages
<1>5. SignsInAlone(w)'
  BY <1>2, <1>4 DEF SignsInAlone
<1>6. \A q \in Worker : Flying(q, w)' => Flying(q, w)
  BY DEF Flying, Engages
<1>7. OneFlight(w)'
  BY <1>1, <1>6 DEF OneFlight
<1> QED BY <1>2, <1>5, <1>7

LEMMA OtherSessions ==
  ASSUME SessionsInv, SessionsTyped', NEW p \in Worker, NEW w \in Web,
         worker[p] = NoRequest \/ worker[p].web = w,
         worker'[p] = NoRequest \/ worker'[p].web = w,
         \A q \in Worker \ {p} : worker'[q] = worker[q],
         \A v \in Web \ {w} : /\ locker'[v] = locker[v]
                              /\ family'[v] = family[v] \/ (Live(v) /\ family'[v] = Gone),
         lost \subseteq lost',
         SessionInv(w)'
  PROVE  SessionsInv'
<1>1. ASSUME NEW v \in Web \ {w} PROVE SessionInv(v)'
  <2>1. \A q \in Worker : Engages(q, v) \/ Engages(q, v)' => worker'[q] = worker[q]
    BY DEF Engages
  <2> QED BY <2>1, Elsewhere
<1> QED BY <1>1 DEF SessionsInv

LEMMA FlightContinues ==
  ASSUME SessionsInv, NEW p \in Worker, NEW w \in Web, Flying(p, w),
         \A q \in Worker \ {p} : worker'[q] = worker[q],
         worker'[p] = NoRequest \/ (worker'[p].web = w /\ worker'[p].step \in Refreshing),
         family'[w] = family[w] \/ family'[w] # Unissued,
         LockerKeepsUp(w)', Flying(p, w)' => RefreshKeepsUp(p, w)'
  PROVE  SessionInv(w)'
<1>1. Engages(p, w) /\ worker[p].step \notin {"signing in", "putting"}
  BY StepsOfRequests DEF Flying, Engages, Refreshing
<1>2. SignsInAlone(w)' /\ OneFlight(w)'
  <2>1. worker'[p] = NoRequest \/ (worker'[p].web = w /\ worker'[p].step \notin {"signing in", "putting"})
    BY DEF Refreshing
  <2>2. worker[p].step \in Refreshing
    BY DEF Flying
  <2> QED BY <1>1, <2>1, <2>2, Continues
<1>3. ASSUME NEW q \in Worker, Flying(q, w)' PROVE q = p
  <2>1. CASE q # p
    <3>1. Flying(q, w)
      BY <1>3, <2>1 DEF Flying
    <3> QED BY <3>1 DEF SessionsInv, SessionInv, OneFlight
  <2> QED BY <2>1
<1> QED BY <1>2, <1>3 DEF SessionInv, SecretsKeepUp

LEMMA FlightFacts ==
  ASSUME SessionsInv, NEW p \in Worker, NEW w \in Web, Flying(p, w)
  PROVE  /\ worker[p] \in Doing /\ worker[p].secret \in Nat /\ worker[p].step \in Refreshing
         /\ worker[p].step = "rotating" => worker[p].read \in Nat
         /\ LockerKeepsUp(w) /\ RefreshKeepsUp(p, w) /\ worker[p].web = w
         /\ family[w] \in {Gone} \union Issued
         /\ \A q \in Worker : Flying(q, w) => q = p
<1>1. worker[p] \in Doing /\ worker[p].step \in Refreshing
  BY DEF SessionsInv, SessionsTyped, Flying
<1>2. /\ worker[p].secret \in Nat
      /\ worker[p].step = "rotating" => worker[p].read \in Nat
      /\ worker[p] # NoRequest
  BY <1>1, StepsOfRequests DEF Refreshing
<1>3. SessionInv(w) /\ SessionsTyped
  BY DEF SessionsInv
<1>4. Engages(p, w)
  BY <1>2 DEF Engages, Flying
<1>5. family[w] # Unissued
  BY <1>1, <1>3, <1>4 DEF SessionInv, SignsInAlone, Refreshing
<1>6. family[w] \in {Gone} \union Issued
  BY <1>3, <1>5 DEF SessionsTyped
<1> QED BY <1>1, <1>2, <1>3, <1>6 DEF SessionInv, SecretsKeepUp, OneFlight, Flying

(***************************************************************************)
(* The steps of a refresh                                                  *)
(***************************************************************************)
LEMMA InspectKeeps ==
  ASSUME SessionsInv, NEW p \in Worker, NEW w \in Web, Flying(p, w), Inspect(p)
  PROVE  SessionsInv'
<1> USE DEF SessionsTyped
<1>1. PICK n \in Nat : n = worker[p].secret
  BY FlightFacts
<1> DEFINE next == IF Current(w, n) THEN "looking up" ELSE "refused"
<1>2. /\ worker[p] \in Doing /\ LockerKeepsUp(w) /\ RefreshKeepsUp(p, w)
      /\ family[w] \in {Gone} \union Issued /\ worker[p].web = w
  BY FlightFacts
<1>3. /\ worker[p].step = "inspecting"
      /\ family' = IF Reuse(w, n) THEN RevokeUserEverywhere ELSE family
      /\ worker' = [worker EXCEPT ![p].step = next]
      /\ UNCHANGED <<version, disabled, locker, lapsed, faults, lost>>
  BY <1>1, <1>2 DEF Inspect, Steps, account
<1>4. next \in Locating /\ next \in Refreshing /\ worker[p].step \in Locating
  BY <1>3 DEF Locating, Refreshing
<1>5. worker \in [Worker -> Doing] /\ SessionsTyped
  BY DEF SessionsInv
<1>6. /\ worker'[p].step = next /\ worker'[p].web = w /\ worker'[p].secret = n
      /\ worker' \in [Worker -> Doing]
      /\ \A q \in Worker \ {p} : worker'[q] = worker[q]
  <2> HIDE DEF next
  <2>1. worker' = [worker EXCEPT ![p] = [worker[p] EXCEPT !.step = next]]
    BY <1>3, <1>5
  <2> QED BY <1>1, <1>2, <1>4, <1>5, <2>1, SameSecret
<1> HIDE DEF next
<1>7. \A v \in Web : family'[v] = family[v] \/ (Live(v) /\ family'[v] = Gone)
  BY <1>3, <1>5, RevokedTypes
<1>8. family' \in [Web -> {Unissued, Gone} \union Issued]
  BY <1>3, <1>5, RevokedTypes
<1>9. SessionsTyped'
  BY <1>3, <1>5, <1>6, <1>8
<1>10. Live(w)' => Live(w) /\ family'[w] = family[w] /\ ~Reuse(w, n)
  BY <1>3, <1>5, <1>7, RevokedTypes, FamilyTypes DEF Live
<1>11. locker'[w] = locker[w] /\ locker[w] \in {n, NoSession}
  BY <1>1, <1>2, <1>3 DEF RefreshKeepsUp
<1>12. ASSUME Live(w)' PROVE next = "looking up" /\ family'[w].current = n
  <2>1. Abreast(w, n)
    BY <1>1, <1>2, <1>3, <1>10, <1>12 DEF RefreshKeepsUp
  <2>2. Current(w, n)
    BY <1>10, <1>12, <2>1 DEF Abreast, Reuse, Current
  <2> QED BY <1>10, <1>12, <2>2 DEF Current, next
<1>13. LockerKeepsUp(w)' /\ RefreshKeepsUp(p, w)'
  BY <1>6, <1>11, <1>12 DEF LockerKeepsUp, RefreshKeepsUp, Abreast
<1>14. SessionInv(w)'
  <2>1. family'[w] # Unissued
    BY <1>2, <1>7, FamilyTypes
  <2> QED BY <1>4, <1>6, <1>13, <2>1, FlightContinues
<1> QED BY <1>2, <1>3, <1>6, <1>7, <1>9, <1>14, OtherSessions

LEMMA RefreshSteps ==
  ASSUME SessionsInv, NEW p \in Worker, NEW w \in Web, Flying(p, w),
         NEW d \in Doing, d = NoRequest \/ (d.web = w /\ d.step \in Refreshing),
         worker' = [worker EXCEPT ![p] = d],
         version' \in Nat, disabled' \in BOOLEAN, faults' \in Nat, lapsed' \subseteq Web,
         lost \subseteq lost', lost' \subseteq Web,
         locker' \in [Web -> Nat], \A v \in Web \ {w} : locker'[v] = locker[v],
         family' \in [Web -> {Unissued, Gone} \union Issued], family'[w] # Unissued,
         \A v \in Web \ {w} : family'[v] = family[v] \/ (Live(v) /\ family'[v] = Gone),
         LockerKeepsUp(w)', d # NoRequest => RefreshKeepsUp(p, w)'
  PROVE  SessionsInv'
<1>1. worker \in [Worker -> Doing] /\ worker[p].web = w
  BY DEF SessionsInv, SessionsTyped, Flying
<1>2. worker'[p] = d /\ worker' \in [Worker -> Doing] /\ \A q \in Worker \ {p} : worker'[q] = worker[q]
  BY <1>1
<1>3. SessionsTyped'
  BY <1>2 DEF SessionsTyped
<1>4. NoRequest.step \notin Refreshing
  BY DEF NoRequest, Refreshing
<1>5. SessionInv(w)'
  <2>1. Flying(p, w)' => RefreshKeepsUp(p, w)'
    BY <1>2, <1>4 DEF Flying
  <2> QED BY <1>2, <2>1, FlightContinues
<1> QED BY <1>1, <1>2, <1>3, <1>5, OtherSessions

LEMMA RefreshUnavailableKeeps ==
  ASSUME SessionsInv, NEW p \in Worker, NEW w \in Web, Flying(p, w), RefreshUnavailable(p)
  PROVE  SessionsInv'
<1> USE DEF SessionsTyped
<1>1. PICK n \in Nat : n = worker[p].secret
  BY FlightFacts
<1>2. /\ LockerKeepsUp(w) /\ RefreshKeepsUp(p, w) /\ family[w] \in {Gone} \union Issued /\ worker[p].web = w
  BY FlightFacts
<1> DEFINE d == [step |-> "viewing", web |-> w, secret |-> n]
<1>3. /\ worker[p].step \in {"inspecting", "looking up"}
      /\ faults' = faults + 1
      /\ worker' = [worker EXCEPT ![p] = d]
      /\ UNCHANGED <<version, disabled, family, locker, lapsed, lost>>
  BY <1>1, <1>2 DEF RefreshUnavailable, Goes, account
<1>4. d \in Doing /\ d.web = w /\ d.step \in Refreshing /\ d.step = "viewing" /\ d.secret = n
  <2>1. "viewing" \in Locating /\ "viewing" \in Refreshing
    BY DEF Locating, Refreshing
  <2> QED BY <2>1, DoingsOfRequests
<1> HIDE DEF d
<1>5. worker'[p] = d
  BY <1>3 DEF SessionsInv
<1>6. locker[w] \in {n, NoSession} /\ (Live(w) => Abreast(w, n))
  BY <1>1, <1>2, <1>3 DEF RefreshKeepsUp, Abreast
<1>7. LockerKeepsUp(w)' /\ RefreshKeepsUp(p, w)'
  BY <1>3, <1>4, <1>5, <1>6 DEF LockerKeepsUp, RefreshKeepsUp, Abreast, Live
<1>8. /\ faults' \in Nat /\ version' \in Nat /\ disabled' \in BOOLEAN /\ lapsed' \subseteq Web /\ lost' = lost
      /\ lost' \subseteq Web /\ locker' = locker /\ locker' \in [Web -> Nat] /\ family' = family
      /\ family' \in [Web -> {Unissued, Gone} \union Issued] /\ family'[w] # Unissued
  <2>1. faults \in Nat /\ faults' = faults + 1
    BY <1>3 DEF SessionsInv
  <2>2. faults' \in Nat
    BY <2>1
  <2>3. family[w] # Unissued
    BY <1>2, FamilyTypes
  <2> QED BY <1>3, <2>2, <2>3 DEF SessionsInv
<1> QED BY <1>3, <1>4, <1>7, <1>8, RefreshSteps

LEMMA LookUpKeeps ==
  ASSUME SessionsInv, NEW p \in Worker, NEW w \in Web, Flying(p, w), LookUp(p)
  PROVE  SessionsInv'
<1> USE DEF SessionsTyped
<1>1. PICK n \in Nat : n = worker[p].secret
  BY FlightFacts
<1>2. /\ LockerKeepsUp(w) /\ RefreshKeepsUp(p, w) /\ family[w] \in {Gone} \union Issued /\ worker[p].web = w
      /\ worker[p] \in Doing
  BY FlightFacts
<1>3. /\ worker[p].step = "looking up"
      /\ UNCHANGED <<version, disabled, locker, lapsed, faults, lost>>
  BY DEF LookUp, account
<1>4. locker[w] \in {n, NoSession} /\ (Live(w) => family[w].current = n)
  BY <1>1, <1>2, <1>3 DEF RefreshKeepsUp
<1>5. CASE disabled
  <2> DEFINE d == [worker[p] EXCEPT !.step = "refused"]
  <2>1. family' = RevokeUserEverywhere /\ worker' = [worker EXCEPT ![p] = d]
    BY <1>5 DEF LookUp, Steps, SessionsInv
  <2>2. d \in Doing /\ d.web = w /\ d.step \in Refreshing /\ d.step = "refused" /\ d.secret = n
    <3>1. "refused" \in Locating /\ "refused" \in Refreshing /\ "looking up" \in Locating
      BY DEF Locating, Refreshing
    <3> QED BY <1>1, <1>2, <1>3, <3>1, SameSecret
  <2> HIDE DEF d
  <2>3. worker'[p] = d
    BY <2>1 DEF SessionsInv
  <2>4. /\ family' \in [Web -> {Unissued, Gone} \union Issued]
        /\ \A v \in Web : family'[v] = family[v] \/ (Live(v) /\ family'[v] = Gone)
        /\ ~Live(w)'
    BY <2>1, RevokedTypes DEF SessionsInv, Live
  <2>5. LockerKeepsUp(w)' /\ RefreshKeepsUp(p, w)'
    BY <1>3, <1>4, <2>2, <2>3, <2>4 DEF LockerKeepsUp, RefreshKeepsUp
  <2>6. family'[w] # Unissued
    BY <1>2, <2>4, FamilyTypes
  <2> QED BY <1>3, <2>1, <2>2, <2>4, <2>5, <2>6, RefreshSteps DEF SessionsInv
<1>6. CASE ~disabled
  <2> DEFINE d == [step |-> "rotating", web |-> w, secret |-> n, read |-> version]
  <2>1. worker' = [worker EXCEPT ![p] = d] /\ family' = family
    BY <1>1, <1>2, <1>6 DEF LookUp, Goes
  <2>2. d \in Doing /\ d.web = w /\ d.step \in Refreshing /\ d.step = "rotating" /\ d.secret = n
    <3>1. "rotating" \in Refreshing /\ version \in Nat
      BY DEF Refreshing, SessionsInv
    <3> QED BY <3>1, DoingsOfRequests
  <2> HIDE DEF d
  <2>3. worker'[p] = d
    BY <2>1 DEF SessionsInv
  <2>4. LockerKeepsUp(w)' /\ RefreshKeepsUp(p, w)'
    BY <1>3, <1>4, <2>1, <2>2, <2>3 DEF LockerKeepsUp, RefreshKeepsUp, Abreast, Live
  <2> QED BY <1>2, <1>3, <2>1, <2>2, <2>4, RefreshSteps, FamilyTypes DEF SessionsInv
<1> QED BY <1>5, <1>6

(* The secret that is rotated is the current one: nobody rotates beside it. *)
LEMMA RotateKeeps ==
  ASSUME SessionsInv, NEW p \in Worker, NEW w \in Web, Flying(p, w), Rotate(p)
  PROVE  SessionsInv'
<1> USE DEF SessionsTyped
<1>1. PICK n \in Nat : n = worker[p].secret
  BY FlightFacts
<1>2. /\ LockerKeepsUp(w) /\ RefreshKeepsUp(p, w) /\ family[w] \in {Gone} \union Issued /\ worker[p].web = w
  BY FlightFacts
<1>3. /\ worker[p].step = "rotating"
      /\ UNCHANGED <<version, disabled, locker, lapsed, faults, lost>>
      /\ worker[p].read \in Nat
  BY FlightFacts DEF Rotate, account
<1>4. locker[w] \in {n, NoSession} /\ (Live(w) => family[w].current = n)
  BY <1>1, <1>2, <1>3 DEF RefreshKeepsUp
<1> DEFINE refused == [step |-> "refused", web |-> w, secret |-> n]
           saving == [step |-> "saving", web |-> w, secret |-> n]
<1>5. /\ refused \in Doing /\ refused.web = w /\ refused.step \in Refreshing /\ refused.step = "refused"
      /\ refused.secret = n
      /\ saving \in Doing /\ saving.web = w /\ saving.step \in Refreshing /\ saving.step = "saving"
      /\ saving.secret = n
  <2>1. {"refused", "saving"} \subseteq Locating /\ {"refused", "saving"} \subseteq Refreshing
    BY DEF Locating, Refreshing
  <2> QED BY <2>1, DoingsOfRequests
<1> HIDE DEF refused, saving
<1>6. ASSUME worker' = [worker EXCEPT ![p] = refused], ~Live(w)', family'[w] # Unissued,
             family' \in [Web -> {Unissued, Gone} \union Issued],
             \A v \in Web \ {w} : family'[v] = family[v] \/ (Live(v) /\ family'[v] = Gone)
      PROVE  SessionsInv'
  <2>1. worker'[p] = refused
    BY <1>6 DEF SessionsInv
  <2>2. LockerKeepsUp(w)' /\ RefreshKeepsUp(p, w)'
    BY <1>3, <1>4, <1>5, <1>6, <2>1 DEF LockerKeepsUp, RefreshKeepsUp
  <2> QED BY <1>3, <1>5, <1>6, <2>2, RefreshSteps DEF SessionsInv
<1>7. CASE Current(w, n) /\ n < MaxRotations /\ worker[p].read > family[w].snapshot
  <2>1. family' = RevokeUserEverywhere /\ worker' = [worker EXCEPT ![p] = refused]
    BY <1>1, <1>2, <1>7 DEF Rotate, Rotated, Goes, refused
  <2>2. /\ family' \in [Web -> {Unissued, Gone} \union Issued]
        /\ \A v \in Web : family'[v] = family[v] \/ (Live(v) /\ family'[v] = Gone)
        /\ ~Live(w)'
    BY <2>1, RevokedTypes DEF SessionsInv, Live
  <2>3. family'[w] # Unissued
    BY <1>2, <2>2, FamilyTypes
  <2> QED BY <1>6, <2>1, <2>2, <2>3
<1>8. CASE Current(w, n) /\ n < MaxRotations /\ ~(worker[p].read > family[w].snapshot)
  <2>1. family' = [family EXCEPT ![w].current = @ + 1] /\ worker' = [worker EXCEPT ![p] = saving]
    BY <1>1, <1>2, <1>8 DEF Rotate, Rotated, Goes, saving
  <2>2. family[w] \in Issued /\ family[w].current = n
    BY <1>2, <1>8, FamilyTypes DEF Current, Live
  <2>3. [family[w] EXCEPT !.current = n + 1] \in Issued /\ [family[w] EXCEPT !.current = n + 1].current = n + 1
    BY <2>2 DEF Issued
  <2>4. /\ family' \in [Web -> {Unissued, Gone} \union Issued] /\ family'[w] = [family[w] EXCEPT !.current = n + 1]
        /\ \A v \in Web \ {w} : family'[v] = family[v]
    BY <2>1, <2>2, <2>3 DEF SessionsInv
  <2>5. worker'[p] = saving
    BY <2>1 DEF SessionsInv
  <2>6. Flying(p, w)'
    BY <1>5, <2>5 DEF Flying
  <2>7. family'[w].current = n + 1 /\ family'[w] # Unissued
    BY <2>3, <2>4, FamilyTypes
  <2>8. LockerKeepsUp(w)'
    BY <1>3, <1>4, <1>5, <2>5, <2>6, <2>7 DEF LockerKeepsUp
  <2>9. RefreshKeepsUp(p, w)'
    BY <1>3, <1>4, <1>5, <2>5, <2>7 DEF RefreshKeepsUp
  <2> QED BY <1>3, <1>5, <2>1, <2>4, <2>7, <2>8, <2>9, RefreshSteps DEF SessionsInv
<1>9. CASE ~(Current(w, n) /\ n < MaxRotations)
  <2>1. /\ worker' = [worker EXCEPT ![p] = refused]
        /\ family' = IF Current(w, n) \/ Reuse(w, n) THEN [family EXCEPT ![w] = Gone] ELSE family
    BY <1>1, <1>2, <1>9 DEF Rotate, Goes, refused
  <2>2. /\ family' \in [Web -> {Unissued, Gone} \union Issued]
        /\ \A v \in Web \ {w} : family'[v] = family[v]
        /\ family'[w] = Gone \/ (~Live(w) /\ family'[w] = family[w])
    BY <1>4, <2>1 DEF SessionsInv, Current
  <2>3. family'[w] # Unissued /\ ~Live(w)'
    BY <1>2, <2>2, FamilyTypes DEF Live
  <2> QED BY <1>6, <2>1, <2>2, <2>3
<1> QED BY <1>7, <1>8, <1>9

LEMMA SaveKeeps ==
  ASSUME SessionsInv, NEW p \in Worker, NEW w \in Web, Flying(p, w), Save(p)
  PROVE  SessionsInv'
<1> USE DEF SessionsTyped
<1>1. PICK n \in Nat : n = worker[p].secret
  BY FlightFacts
<1>2. /\ RefreshKeepsUp(p, w) /\ family[w] \in {Gone} \union Issued /\ worker[p].web = w
  BY FlightFacts
<1>3. /\ worker[p].step = "saving" /\ locker' = [locker EXCEPT ![w] = n + 1] /\ lapsed' = lapsed \ {w}
      /\ worker' = [worker EXCEPT ![p] = NoRequest]
      /\ UNCHANGED <<version, disabled, family, faults, lost>>
  BY <1>1, <1>2 DEF Save, Finishes, Goes, account
<1>4. Live(w) => family[w].current = n + 1
  BY <1>1, <1>2, <1>3 DEF RefreshKeepsUp
<1>5. locker' \in [Web -> Nat] /\ locker'[w] = n + 1 /\ \A v \in Web \ {w} : locker'[v] = locker[v]
  BY <1>3 DEF SessionsInv
<1>6. LockerKeepsUp(w)'
  BY <1>3, <1>4, <1>5 DEF LockerKeepsUp, Abreast, Live
<1> QED BY <1>2, <1>3, <1>5, <1>6, RefreshSteps, DoingsOfRequests, FamilyTypes DEF SessionsInv

LEMMA RefuseKeeps ==
  ASSUME SessionsInv, NEW p \in Worker, NEW w \in Web, Flying(p, w), Refuse(p)
  PROVE  SessionsInv'
<1> USE DEF SessionsTyped
<1>1. family[w] \in {Gone} \union Issued /\ worker[p].web = w
  BY FlightFacts
<1>2. /\ locker' = [locker EXCEPT ![w] = NoSession] /\ lapsed' = lapsed \ {w}
      /\ worker' = [worker EXCEPT ![p] = NoRequest]
      /\ UNCHANGED <<version, disabled, family, faults, lost>>
  BY <1>1 DEF Refuse, Finishes, Goes, account
<1>3. NoSession \in Nat
  BY BoundsAssumption DEF NoSession
<1>4. locker' \in [Web -> Nat] /\ locker'[w] = NoSession /\ \A v \in Web \ {w} : locker'[v] = locker[v]
  BY <1>2, <1>3 DEF SessionsInv
<1>5. LockerKeepsUp(w)'
  BY <1>4 DEF LockerKeepsUp
<1> QED BY <1>1, <1>2, <1>4, <1>5, RefreshSteps, DoingsOfRequests, FamilyTypes DEF SessionsInv

LEMMA ViewKeeps ==
  ASSUME SessionsInv, NEW p \in Worker, NEW w \in Web, Flying(p, w), View(p)
  PROVE  SessionsInv'
<1> USE DEF SessionsTyped
<1>1. PICK n \in Nat : n = worker[p].secret
  BY FlightFacts
<1>2. /\ RefreshKeepsUp(p, w) /\ family[w] \in {Gone} \union Issued /\ worker[p].web = w
  BY FlightFacts
<1>3. /\ worker[p].step = "viewing" /\ locker' \in {locker, [locker EXCEPT ![w] = n]}
      /\ worker' = [worker EXCEPT ![p] = NoRequest]
      /\ UNCHANGED <<version, disabled, family, lapsed, faults, lost>>
  BY <1>1, <1>2 DEF View, Finishes, Goes, account
<1>4. locker[w] \in {n, NoSession} /\ (Live(w) => Abreast(w, n))
  BY <1>1, <1>2, <1>3 DEF RefreshKeepsUp
<1>5. locker' \in [Web -> Nat] /\ locker'[w] \in {n, NoSession} /\ \A v \in Web \ {w} : locker'[v] = locker[v]
  BY <1>3, <1>4 DEF SessionsInv
<1>6. LockerKeepsUp(w)'
  BY <1>3, <1>4, <1>5 DEF LockerKeepsUp, Abreast, Live
<1> QED BY <1>2, <1>3, <1>5, <1>6, RefreshSteps, DoingsOfRequests, FamilyTypes DEF SessionsInv

(***************************************************************************)
(* Signing in, visiting, signing out                                       *)
(***************************************************************************)
LEMMA SignInLooksUpKeeps ==
  ASSUME SessionsInv, NEW p \in Worker, NEW w \in Web, SignInLooksUp(p, w)
  PROVE  SessionsInv'
<1> USE DEF SessionsTyped
<1> DEFINE d == [step |-> "signing in", web |-> w, read |-> version]
<1>1. /\ worker[p] = NoRequest /\ family[w] = Unissued /\ \A q \in Worker : ~Engages(q, w)
      /\ worker' = [worker EXCEPT ![p] = d]
      /\ UNCHANGED <<version, disabled, family, locker, lapsed, faults, lost>>
  BY DEF SignInLooksUp, Goes, account, Engages
<1>2. d \in Doing /\ d.web = w /\ d.step = "signing in"
  BY DoingsOfRequests DEF SessionsInv
<1> HIDE DEF d
<1>3. /\ worker'[p] = d /\ worker' \in [Worker -> Doing]
      /\ \A q \in Worker \ {p} : worker'[q] = worker[q]
  BY <1>1, <1>2 DEF SessionsInv
<1>4. SessionsTyped'
  BY <1>1, <1>3 DEF SessionsInv
<1>5. \A q \in Worker : Engages(q, w)' => q = p
  BY <1>1, <1>3 DEF Engages
<1>6. \A q \in Worker : ~Flying(q, w)'
  <2>1. ASSUME NEW q \in Worker, Flying(q, w)' PROVE FALSE
    <3>1. worker'[q] \in Doing
      BY <1>3
    <3>2. Engages(q, w)'
      BY <2>1, <3>1, StepsOfRequests DEF Flying, Engages, Refreshing
    <3>3. q = p
      BY <1>5, <3>2
    <3> QED BY <1>2, <1>3, <2>1, <3>3 DEF Flying, Refreshing
  <2> QED BY <2>1
<1>7. SessionInv(w)
  BY DEF SessionsInv
<1>8. SignsInAlone(w)'
  BY <1>1, <1>2, <1>3, <1>5, <1>7 DEF SessionInv, SignsInAlone
<1>9. OneFlight(w)' /\ SecretsKeepUp(w)'
  BY <1>1, <1>6, <1>7, FamilyTypes DEF SessionInv, SignsInAlone, OneFlight, SecretsKeepUp, LockerKeepsUp
<1>10. SessionInv(w)'
  BY <1>8, <1>9 DEF SessionInv
<1> QED BY <1>1, <1>2, <1>3, <1>4, <1>10, OtherSessions

(* Whoever signs in is the only request of the session, before and after. *)
LEMMA Alone ==
  ASSUME SessionsInv, NEW p \in Worker, worker[p].step \in {"signing in", "putting"},
         \A q \in Worker \ {p} : worker'[q] = worker[q], worker' \in [Worker -> Doing],
         NEW w, w = worker[p].web
  PROVE  /\ w \in Web /\ worker[p] \in Doing /\ Engages(p, w) /\ locker[w] = NoSession
         /\ \A q \in Worker : Engages(q, w)' => q = p
         /\ \A q \in Worker : Flying(q, w)' => q = p
<1>1. worker[p] \in Doing
  BY DEF SessionsInv, SessionsTyped
<1>2. w \in Web /\ Engages(p, w)
  BY <1>1, StepsOfRequests DEF Engages
<1>3. SignsInAlone(w)
  BY <1>2 DEF SessionsInv, SessionInv
<1>4. locker[w] = NoSession /\ \A q \in Worker : Engages(q, w) => q = p
  BY <1>2, <1>3 DEF SignsInAlone
<1>5. \A q \in Worker : Engages(q, w)' => q = p
  BY <1>4 DEF Engages
<1>6. \A q \in Worker : Flying(q, w)' => Engages(q, w)'
  <2>1. \A q \in Worker : worker'[q] \in Doing
    OBVIOUS
  <2> QED BY <2>1, StepsOfRequests DEF Flying, Engages, Refreshing
<1> QED BY <1>1, <1>2, <1>4, <1>5, <1>6

LEMMA SignInIssuesKeeps ==
  ASSUME SessionsInv, NEW p \in Worker, SignInIssues(p)
  PROVE  SessionsInv'
<1> USE DEF SessionsTyped
<1>1. worker[p].step = "signing in" /\ worker[p] \in Doing
  BY DEF SignInIssues, SessionsInv
<1>2. PICK w \in Web : w = worker[p].web /\ Engages(p, w)
  BY <1>1, StepsOfRequests DEF Engages
<1>3. PICK read \in Nat : read = worker[p].read
  BY <1>1, StepsOfRequests
<1> DEFINE d == [step |-> "putting", web |-> w]
           f == [state |-> "live", current |-> 0, snapshot |-> read]
<1>4. /\ family' = [family EXCEPT ![w] = f] /\ worker' = [worker EXCEPT ![p] = d]
      /\ UNCHANGED <<version, disabled, locker, lapsed, faults, lost>>
  BY <1>2, <1>3 DEF SignInIssues, Goes, account
<1>5. d \in Doing /\ d.web = w /\ d.step = "putting" /\ f \in Issued /\ f.current = 0
  BY DoingsOfRequests DEF Issued
<1> HIDE DEF d, f
<1>6. /\ worker'[p] = d /\ worker' \in [Worker -> Doing] /\ family'[w] = f
      /\ family' \in [Web -> {Unissued, Gone} \union Issued]
      /\ \A q \in Worker \ {p} : worker'[q] = worker[q]
      /\ \A v \in Web \ {w} : family'[v] = family[v]
  BY <1>4, <1>5 DEF SessionsInv
<1>7. SessionsTyped'
  BY <1>4, <1>6 DEF SessionsInv
<1>8. /\ locker[w] = NoSession
      /\ \A q \in Worker : Engages(q, w)' => q = p
      /\ \A q \in Worker : Flying(q, w)' => q = p
  BY <1>1, <1>2, <1>6, Alone
<1>9. SignsInAlone(w)'
  BY <1>4, <1>5, <1>6, <1>8, FamilyTypes DEF SignsInAlone
<1>10. OneFlight(w)' /\ SecretsKeepUp(w)'
  BY <1>4, <1>5, <1>6, <1>8 DEF OneFlight, SecretsKeepUp, LockerKeepsUp, Flying, Refreshing
<1>11. SessionInv(w)'
  BY <1>9, <1>10 DEF SessionInv
<1> QED BY <1>2, <1>4, <1>5, <1>6, <1>7, <1>11, OtherSessions

LEMMA SignInPutsKeeps ==
  ASSUME SessionsInv, NEW p \in Worker, SignInPuts(p)
  PROVE  SessionsInv'
<1> USE DEF SessionsTyped
<1>1. worker[p].step = "putting" /\ worker[p] \in Doing
  BY DEF SignInPuts, SessionsInv
<1>2. PICK w \in Web : w = worker[p].web /\ Engages(p, w)
  BY <1>1, StepsOfRequests DEF Engages
<1>3. /\ locker' = [locker EXCEPT ![w] = 0] /\ worker' = [worker EXCEPT ![p] = NoRequest]
      /\ UNCHANGED <<version, disabled, family, lapsed, faults, lost>>
  BY <1>2 DEF SignInPuts, Finishes, Goes, account
<1>4. /\ worker'[p] = NoRequest /\ worker' \in [Worker -> Doing]
      /\ locker'[w] = 0 /\ locker' \in [Web -> Nat]
      /\ \A q \in Worker \ {p} : worker'[q] = worker[q]
      /\ \A v \in Web \ {w} : locker'[v] = locker[v]
  BY <1>3, DoingsOfRequests DEF SessionsInv
<1>5. SessionsTyped'
  BY <1>3, <1>4 DEF SessionsInv
<1>6. /\ \A q \in Worker : ~Engages(q, w)'
      /\ \A q \in Worker : ~Flying(q, w)'
  <2>1. ~Engages(p, w)' /\ ~Flying(p, w)'
    BY <1>4, StepsOfRequests DEF Engages, Flying, Refreshing
  <2>2. \A q \in Worker : (Engages(q, w)' => q = p) /\ (Flying(q, w)' => q = p)
    BY <1>1, <1>2, <1>4, Alone
  <2> QED BY <2>1, <2>2
<1>7. SignsInAlone(w)
  BY DEF SessionsInv, SessionInv
<1>8. family[w] # Unissued /\ (Live(w) => family[w].current = 0)
  BY <1>1, <1>2, <1>7 DEF SignsInAlone
<1>9. SessionInv(w)'
  BY <1>3, <1>4, <1>6, <1>8
     DEF SessionInv, SignsInAlone, OneFlight, SecretsKeepUp, LockerKeepsUp, Abreast, Live
<1> QED BY <1>2, <1>3, <1>4, <1>5, <1>9, OtherSessions

(* A session in the locker was issued and is not signed in to any more. *)
LEMMA InTheLocker ==
  ASSUME SessionsInv, NEW w \in Web, locker[w] # NoSession
  PROVE  /\ family[w] # Unissued
         /\ \A q \in Worker : Engages(q, w) => worker[q].step \notin {"signing in", "putting"}
BY DEF SessionsInv, SessionInv, SignsInAlone

LEMMA FreshKeeps ==
  ASSUME SessionsInv, NEW p \in Worker, NEW w \in Web, Fresh(p, w)
  PROVE  SessionsInv'
<1> USE DEF SessionsTyped
<1>1. PICK n \in Nat : n = locker[w]
  BY DEF SessionsInv
<1> DEFINE d == [step |-> IF w \in lapsed THEN "inspecting" ELSE "viewing", web |-> w, secret |-> n]
<1>2. /\ worker[p] = NoRequest /\ locker[w] # NoSession /\ \A q \in Worker : ~Flying(q, w)
      /\ worker' = [worker EXCEPT ![p] = d]
      /\ UNCHANGED <<version, disabled, family, locker, lapsed, faults, lost>>
  BY <1>1 DEF Fresh, Loads, Flies, Flying, Goes, account
<1>3. d \in Doing /\ d.web = w /\ d.step \in {"inspecting", "viewing"} /\ d.secret = n
  <2>1. "inspecting" \in Locating /\ "viewing" \in Locating
    BY DEF Locating, Refreshing
  <2> QED BY <2>1, DoingsOfRequests
<1> HIDE DEF d
<1>4. /\ worker'[p] = d /\ worker' \in [Worker -> Doing]
      /\ \A q \in Worker \ {p} : worker'[q] = worker[q]
  BY <1>2, <1>3 DEF SessionsInv
<1>5. SessionsTyped'
  BY <1>2, <1>4 DEF SessionsInv
<1>6. \A q \in Worker : Engages(q, w)' => worker'[q].step \notin {"signing in", "putting"}
  BY <1>2, <1>3, <1>4, InTheLocker DEF Engages
<1>7. SignsInAlone(w)'
  BY <1>2, <1>6, InTheLocker DEF SignsInAlone
<1>8. \A q \in Worker : Flying(q, w)' => q = p
  BY <1>2, <1>4 DEF Flying
<1>9. SecretsKeepUp(w)
  BY DEF SessionsInv, SessionInv
<1>10. Live(w) => Abreast(w, n)
  BY <1>1, <1>2, <1>9 DEF SecretsKeepUp, LockerKeepsUp
<1>11. LockerKeepsUp(w)' /\ RefreshKeepsUp(p, w)'
  BY <1>1, <1>2, <1>3, <1>4, <1>10 DEF LockerKeepsUp, RefreshKeepsUp, Abreast, Live
<1>12. SessionInv(w)'
  BY <1>7, <1>8, <1>11 DEF SessionInv, OneFlight, SecretsKeepUp
<1> QED BY <1>2, <1>3, <1>4, <1>5, <1>12, OtherSessions

LEMMA ForgetKeeps ==
  ASSUME SessionsInv, NEW p \in Worker, NEW w \in Web, Forget(p, w)
  PROVE  SessionsInv'
<1> USE DEF SessionsTyped
<1>1. PICK n \in Nat : n = locker[w]
  BY DEF SessionsInv
<1> DEFINE d == [step |-> "signing out", web |-> w, secret |-> n]
<1>2. /\ worker[p] = NoRequest /\ locker[w] # NoSession /\ locker' = [locker EXCEPT ![w] = NoSession]
      /\ worker' = [worker EXCEPT ![p] = d]
      /\ UNCHANGED <<version, disabled, family, lapsed, faults, lost>>
  BY <1>1 DEF Forget, Goes, account
<1>3. d \in Doing /\ d.web = w /\ d.step = "signing out"
  <2>1. "signing out" \in Locating
    BY DEF Locating
  <2> QED BY <2>1, DoingsOfRequests
<1> HIDE DEF d
<1>4. NoSession \in Nat
  BY BoundsAssumption DEF NoSession
<1>5. /\ worker'[p] = d /\ worker' \in [Worker -> Doing]
      /\ \A q \in Worker \ {p} : worker'[q] = worker[q]
      /\ locker'[w] = NoSession /\ locker' \in [Web -> Nat]
      /\ \A v \in Web \ {w} : locker'[v] = locker[v]
  BY <1>2, <1>3, <1>4 DEF SessionsInv
<1>6. SessionsTyped'
  BY <1>2, <1>5 DEF SessionsInv
<1>7. \A q \in Worker : Engages(q, w)' => worker'[q].step \notin {"signing in", "putting"}
  BY <1>2, <1>3, <1>5, InTheLocker DEF Engages
<1>8. SignsInAlone(w)'
  BY <1>2, <1>7, InTheLocker DEF SignsInAlone
<1>9. \A q \in Worker : Flying(q, w)' => Flying(q, w) /\ worker'[q] = worker[q]
  BY <1>3, <1>5 DEF Flying, Refreshing
<1>10. SessionInv(w)
  BY DEF SessionsInv
<1>11. OneFlight(w)'
  BY <1>9, <1>10 DEF SessionInv, OneFlight
<1>12. LockerKeepsUp(w)'
  BY <1>5 DEF LockerKeepsUp
<1>13. ASSUME NEW q \in Worker, Flying(q, w)' PROVE RefreshKeepsUp(q, w)'
  <2>1. RefreshKeepsUp(q, w) /\ worker'[q] = worker[q]
    BY <1>9, <1>10, <1>13 DEF SessionInv, SecretsKeepUp
  <2> QED BY <1>2, <1>5, <2>1 DEF RefreshKeepsUp, Abreast, Live
<1>14. SessionInv(w)'
  BY <1>8, <1>11, <1>12, <1>13 DEF SessionInv, SecretsKeepUp
<1> QED BY <1>2, <1>3, <1>5, <1>6, <1>14, OtherSessions

LEMMA LogoutKeeps ==
  ASSUME SessionsInv, NEW p \in Worker, LogoutInspects(p) \/ LogoutRevokes(p)
  PROVE  SessionsInv'
<1> USE DEF SessionsTyped
<1>1. worker[p].step \in {"signing out", "revoking"} /\ worker[p] \in Doing
  BY DEF LogoutInspects, LogoutRevokes, SessionsInv
<1>2. PICK w \in Web : w = worker[p].web /\ Engages(p, w)
  BY <1>1, StepsOfRequests DEF Engages
<1>3. SessionInv(w) /\ family[w] # Unissued
  BY <1>1, <1>2 DEF SessionsInv, SessionInv, SignsInAlone
<1>4. PICK d \in Doing :
        /\ worker' = [worker EXCEPT ![p] = d]
        /\ d = NoRequest \/ (d.web = w /\ d.step = "revoking")
  <2>1. [worker[p] EXCEPT !.step = "revoking"] \in Doing
        /\ [worker[p] EXCEPT !.step = "revoking"].web = w
        /\ [worker[p] EXCEPT !.step = "revoking"].step = "revoking"
    <3>1. "revoking" \in Locating /\ worker[p].step \in Locating
      BY <1>1 DEF Locating
    <3> QED BY <1>1, <1>2, <3>1, SameSecret
  <2>2. \/ worker' = [worker EXCEPT ![p] = NoRequest]
        \/ worker' = [worker EXCEPT ![p] = [worker[p] EXCEPT !.step = "revoking"]]
    BY DEF LogoutInspects, LogoutRevokes, Steps, Finishes, Goes, SessionsInv
  <2> QED BY <2>1, <2>2, DoingsOfRequests
<1>5. /\ family' = family \/ family' = [family EXCEPT ![w] = Gone]
      /\ UNCHANGED <<version, disabled, locker, lapsed, faults, lost>>
  BY <1>2 DEF LogoutInspects, LogoutRevokes, account
<1>6. /\ worker'[p] = d /\ worker' \in [Worker -> Doing]
      /\ \A q \in Worker \ {p} : worker'[q] = worker[q]
      /\ family' \in [Web -> {Unissued, Gone} \union Issued]
      /\ family'[w] = family[w] \/ family'[w] = Gone
      /\ \A v \in Web \ {w} : family'[v] = family[v]
  BY <1>4, <1>5 DEF SessionsInv
<1>7. SessionsTyped'
  BY <1>5, <1>6 DEF SessionsInv
<1>8. d.step \notin {"signing in", "putting"} /\ d.step \notin Refreshing
  BY <1>4, StepsOfRequests DEF Refreshing
<1>9. SignsInAlone(w)' /\ OneFlight(w)'
  BY <1>1, <1>2, <1>4, <1>6, <1>8, Continues, FamilyTypes
<1>10. \A q \in Worker : /\ Flying(q, w)' => Flying(q, w) /\ worker'[q] = worker[q]
                         /\ Flying(q, w) => Flying(q, w)' /\ worker'[q] = worker[q]
  BY <1>1, <1>6, <1>8 DEF Flying, Refreshing
<1>11. Live(w)' => Live(w) /\ family'[w] = family[w]
  BY <1>6, FamilyTypes DEF Live
<1>12. LockerKeepsUp(w)'
  BY <1>3, <1>5, <1>10, <1>11 DEF SessionInv, SecretsKeepUp, LockerKeepsUp, Abreast
<1>13. ASSUME NEW q \in Worker, Flying(q, w)' PROVE RefreshKeepsUp(q, w)'
  BY <1>3, <1>5, <1>10, <1>11, <1>13 DEF SessionInv, SecretsKeepUp, RefreshKeepsUp, Abreast
<1>14. SessionInv(w)'
  BY <1>9, <1>12, <1>13 DEF SessionInv, SecretsKeepUp
<1> QED BY <1>2, <1>4, <1>5, <1>6, <1>7, <1>14, OtherSessions

(* A request that dies between the rotation and the locker loses the secret. *)
LEMMA CrashKeeps ==
  ASSUME SessionsInv, NEW p \in Worker, Crash(p)
  PROVE  SessionsInv'
<1> USE DEF SessionsTyped
<1>1. worker[p] \in Doing /\ worker[p] # NoRequest
  BY DEF Crash, SessionsInv
<1>2. PICK w \in Web : w = worker[p].web
  BY <1>1, StepsOfRequests
<1>3. SessionInv(w)
  BY DEF SessionsInv
<1>4. /\ worker' = [worker EXCEPT ![p] = NoRequest] /\ faults' = faults + 1
      /\ lost' = IF worker[p].step = "saving" THEN lost \union {w} ELSE lost
      /\ UNCHANGED <<version, disabled, family, locker, lapsed>>
  BY <1>2 DEF Crash, Finishes, Goes, account
<1>5. /\ worker'[p] = NoRequest /\ worker' \in [Worker -> Doing]
      /\ \A q \in Worker \ {p} : worker'[q] = worker[q]
  BY <1>4, DoingsOfRequests DEF SessionsInv
<1>6. lost \subseteq lost' /\ lost' \subseteq Web /\ faults' \in Nat
  BY <1>4 DEF SessionsInv
<1>7. SessionsTyped'
  BY <1>4, <1>5, <1>6 DEF SessionsInv
<1>8. \A q \in Worker : /\ Engages(q, w)' => Engages(q, w) /\ worker'[q] = worker[q]
                        /\ Flying(q, w)' => Flying(q, w) /\ worker'[q] = worker[q]
  <2>1. ~Engages(p, w)' /\ ~Flying(p, w)'
    BY <1>5, StepsOfRequests DEF Engages, Flying, Refreshing
  <2>2. ASSUME NEW q \in Worker \ {p}
        PROVE  /\ Engages(q, w)' => Engages(q, w) /\ worker'[q] = worker[q]
               /\ Flying(q, w)' => Flying(q, w) /\ worker'[q] = worker[q]
    BY <1>5 DEF Engages, Flying
  <2> QED BY <2>1, <2>2
<1>9. SignsInAlone(w)' /\ OneFlight(w)'
  <2>1. OneFlight(w)'
    BY <1>3, <1>8 DEF SessionInv, OneFlight
  <2>2. UNCHANGED <<locker, family>> /\ SignsInAlone(w)
    BY <1>3, <1>4 DEF SessionInv
  <2>3. SignsInAlone(w)'
    BY <1>8, <2>2 DEF SignsInAlone, Live
  <2> QED BY <2>1, <2>3
<1>10. LockerKeepsUp(w)'
  <2> SUFFICES ASSUME locker[w] # NoSession, Live(w) PROVE LockerKeepsUp(w)'
    BY <1>4 DEF LockerKeepsUp, Live
  <2>1. CASE Abreast(w, locker[w])
    BY <1>4, <1>6, <2>1 DEF Abreast, LockerKeepsUp
  <2>2. ASSUME NEW q \in Worker, Flying(q, w), worker[q].step = "saving", family[w].current = locker[w] + 1
        PROVE  LockerKeepsUp(w)'
    <3>1. CASE q = p
      BY <1>4, <2>2, <3>1 DEF Abreast, LockerKeepsUp
    <3>2. CASE q # p
      <4>1. worker'[q] = worker[q]
        BY <1>5, <3>2
      <4> QED BY <1>4, <2>2, <4>1 DEF LockerKeepsUp, Flying
    <3> QED BY <3>1, <3>2
  <2> QED BY <1>3, <2>1, <2>2 DEF SessionInv, SecretsKeepUp, LockerKeepsUp
<1>11. ASSUME NEW q \in Worker, Flying(q, w)' PROVE RefreshKeepsUp(q, w)'
  BY <1>3, <1>4, <1>6, <1>8, <1>11 DEF SessionInv, SecretsKeepUp, RefreshKeepsUp, Abreast, Live
<1>12. SessionInv(w)'
  BY <1>9, <1>10, <1>11 DEF SessionInv, SecretsKeepUp
<1> QED BY <1>2, <1>4, <1>5, <1>6, <1>7, <1>12, OtherSessions

(***************************************************************************)
(* The inductive invariant                                                 *)
(***************************************************************************)
LEMMA SessionsInvInit == SessionsInit => SessionsInv
<1> SUFFICES ASSUME SessionsInit PROVE SessionsInv
  OBVIOUS
<1>1. NoSession \in Nat
  BY BoundsAssumption DEF NoSession
<1>2. SessionsTyped
  BY <1>1, DoingsOfRequests DEF SessionsInit, SessionsTyped
<1>3. \A p \in Worker, w \in Web : ~Engages(p, w) /\ ~Flying(p, w)
  BY StepsOfRequests DEF SessionsInit, Engages, Flying, Refreshing
<1>4. \A w \in Web : SessionInv(w)
  BY <1>3, FamilyTypes
     DEF SessionsInit, SessionInv, SignsInAlone, OneFlight, SecretsKeepUp, LockerKeepsUp, Live
<1> QED BY <1>2, <1>4 DEF SessionsInv

LEMMA SessionsInvNext == SessionsInv /\ [SessionsNext]_sessionVars => SessionsInv'
<1> SUFFICES ASSUME SessionsInv, [SessionsNext]_sessionVars PROVE SessionsInv'
  OBVIOUS
<1> USE DEF SessionsTyped
<1>1. ASSUME NEW p \in Worker, Proceeds(p) PROVE SessionsInv'
  <2>1. ASSUME Inspect(p) \/ LookUp(p) \/ Rotate(p) \/ Save(p) \/ Refuse(p) \/ View(p)
        PROVE  SessionsInv'
    <3>1. worker[p].step \in Refreshing
      BY <2>1 DEF Inspect, LookUp, Rotate, Save, Refuse, View, Refreshing
    <3>2. PICK w \in Web : Flying(p, w)
      BY <3>1, StepsOfRequests DEF SessionsInv, Flying, Refreshing
    <3> QED BY <2>1, <3>2, InspectKeeps, LookUpKeeps, RotateKeeps, SaveKeeps, RefuseKeeps, ViewKeeps
  <2> QED BY <1>1, <2>1, SignInIssuesKeeps, SignInPutsKeeps, LogoutKeeps DEF Proceeds
<1>2. ASSUME NEW p \in Worker, RefreshUnavailable(p) PROVE SessionsInv'
  <2>1. worker[p].step \in Refreshing
    BY <1>2 DEF RefreshUnavailable, Refreshing
  <2>2. PICK w \in Web : Flying(p, w)
    BY <2>1, StepsOfRequests DEF SessionsInv, Flying, Refreshing
  <2> QED BY <1>2, <2>2, RefreshUnavailableKeeps
<1>3. ASSUME NEW w \in Web, RevokeSession(w) \/ FamilyExpires(w) PROVE SessionsInv'
  <2>1. /\ Live(w) /\ family' = [family EXCEPT ![w] = Gone]
        /\ UNCHANGED <<version, disabled, locker, lapsed, worker, faults, lost>>
    BY <1>3 DEF RevokeSession, FamilyExpires, account
  <2> QED BY <2>1, FamiliesEnd DEF SessionsInv
<1>4. CASE LogoutEverywhere
  <2>1. /\ version' \in Nat /\ faults' \in Nat /\ family' = RevokeUserEverywhere
        /\ UNCHANGED <<disabled, locker, lapsed, worker, lost>>
    BY <1>4 DEF LogoutEverywhere, SessionsInv
  <2> QED BY <2>1, FamiliesEnd, RevokedTypes DEF SessionsInv
<1>5. ASSUME RevokeTokens \/ SetStatus \/ \E w \in Web : AccessLapses(w) PROVE SessionsInv'
  <2>1. /\ version' \in Nat /\ disabled' \in BOOLEAN /\ lapsed' \subseteq Web
        /\ UNCHANGED <<family, locker, worker, faults, lost>>
    <3>1. CASE RevokeTokens
      BY <3>1 DEF RevokeTokens, SessionsInv
    <3>3. CASE SetStatus
      <4>1. disabled' = ~disabled /\ UNCHANGED <<version, family, locker, lapsed, worker, faults, lost>>
        BY <3>3 DEF SetStatus
      <4>2. disabled' \in BOOLEAN
        BY <4>1
      <4> QED BY <4>1, <4>2 DEF SessionsInv
    <3>2. ASSUME NEW w \in Web, AccessLapses(w)
          PROVE  /\ version' \in Nat /\ disabled' \in BOOLEAN /\ lapsed' \subseteq Web
                 /\ UNCHANGED <<family, locker, worker, faults, lost>>
      BY <3>2 DEF AccessLapses, SessionsInv, account
    <3> QED BY <1>5, <3>1, <3>2, <3>3
  <2> QED BY <2>1, FamiliesEnd DEF SessionsInv
<1>6. CASE UNCHANGED sessionVars
  <2>1. UNCHANGED <<version, disabled, family, locker, lapsed, worker, faults, lost>>
    BY <1>6 DEF sessionVars
  <2> QED BY <2>1, FamiliesEnd DEF SessionsInv
<1> QED
  BY <1>1, <1>2, <1>3, <1>4, <1>5, <1>6, CrashKeeps, SignInLooksUpKeeps, FreshKeeps, ForgetKeeps
     DEF SessionsNext

THEOREM SessionsInvariance == SessionsSpec => []SessionsInv
BY SessionsInvInit, SessionsInvNext, PTL DEF SessionsSpec

(***************************************************************************)
(* SessionsDieForAReason, for any number of sessions and requests: a       *)
(* refresh takes for a theft only a secret whose successor was lost, and   *)
(* refuses only a session whose family has ended.                          *)
(***************************************************************************)
THEOREM DeathsHaveReasons == SessionsSpec => []SessionsDieForAReason
<1>1. SessionsInv => SessionsDieForAReason
  <2> SUFFICES ASSUME SessionsInv, NEW p \in Worker
               PROVE  /\ worker[p].step \in {"inspecting", "rotating"} /\ Reuse(worker[p].web, worker[p].secret)
                           => worker[p].web \in lost
                      /\ worker[p].step = "refused" => ~Live(worker[p].web)
    BY DEF SessionsDieForAReason
  <2> SUFFICES ASSUME worker[p].step \in {"inspecting", "rotating", "refused"}
               PROVE  /\ worker[p].step \in {"inspecting", "rotating"} /\ Reuse(worker[p].web, worker[p].secret)
                           => worker[p].web \in lost
                      /\ worker[p].step = "refused" => ~Live(worker[p].web)
    OBVIOUS
  <2>1. worker[p].step \in Refreshing
    BY DEF Refreshing
  <2>2. PICK w \in Web : Flying(p, w)
    BY <2>1, StepsOfRequests DEF SessionsInv, SessionsTyped, Flying, Refreshing
  <2>3. RefreshKeepsUp(p, w) /\ worker[p].web = w /\ worker[p].secret \in Nat
    BY <2>2, FlightFacts
  <2>4. ASSUME Reuse(w, worker[p].secret), worker[p].step \in {"inspecting", "rotating"} PROVE w \in lost
    <3>1. Live(w) /\ family[w].current = worker[p].secret + 1
      BY <2>4 DEF Reuse
    <3>2. family[w].current # worker[p].secret
      BY <2>3, <3>1
    <3> QED BY <2>3, <2>4, <3>1, <3>2 DEF RefreshKeepsUp, Abreast
  <2> QED BY <2>3, <2>4 DEF RefreshKeepsUp
<1> QED BY <1>1, SessionsInvariance, PTL

(***************************************************************************)
(* RevokedTokensAreNotRenewed, for any number of sessions and requests: a  *)
(* family older than the account's version only ever ends, but for the     *)
(* refresh that asked the directory before the version moved.              *)
(***************************************************************************)
THEOREM RevokedAreNotRenewed == SessionsSpec => RevokedTokensAreNotRenewed
<1> DEFINE Renewal(w) ==
      Live(w) /\ family[w].snapshot < version /\ family'[w] # family[w]
        => \/ family'[w] = Gone
           \/ \E p \in Worker : worker[p].step = "rotating" /\ worker[p].web = w /\ worker[p].read < version
<1>1. SessionsInv /\ [SessionsNext]_sessionVars => \A w \in Web : Renewal(w)
  <2> SUFFICES ASSUME SessionsInv, [SessionsNext]_sessionVars, NEW w \in Web,
                      Live(w), family[w].snapshot < version, family'[w] # family[w], family'[w] # Gone
               PROVE  \E p \in Worker : worker[p].step = "rotating" /\ worker[p].web = w /\ worker[p].read < version
    OBVIOUS
  <2>1. SessionsTyped /\ SessionInv(w)
    BY DEF SessionsInv
  <2>2. family' # RevokeUserEverywhere
    BY <2>1, RevokedTypes
  <2>3. ASSUME NEW v \in Web, family' = [family EXCEPT ![v] = Gone] PROVE FALSE
    BY <2>1, <2>3 DEF SessionsTyped
  <2>4. family' # family
    OBVIOUS
  <2>5. ASSUME NEW p \in Worker, SignInIssues(p) PROVE FALSE
    <3>1. worker[p].step = "signing in" /\ worker[p].web = w /\ worker[p] # NoRequest
      BY <2>1, <2>5, StepsOfRequests DEF SignInIssues, SessionsTyped
    <3> QED BY <2>1, <3>1, FamilyTypes DEF SessionInv, SignsInAlone, Engages, Live
  <2>6. ASSUME NEW p \in Worker, Rotate(p)
        PROVE  worker[p].step = "rotating" /\ worker[p].web = w /\ worker[p].read < version
    <3>1. /\ worker[p].step = "rotating" /\ worker[p] \in Doing
          /\ worker[p].web \in Web /\ worker[p].read \in Nat
      BY <2>1, <2>6, StepsOfRequests DEF Rotate, SessionsTyped, Refreshing
    <3>2. /\ family' = [family EXCEPT ![worker[p].web].current = @ + 1]
          /\ ~(worker[p].read > family[worker[p].web].snapshot)
      BY <2>2, <2>3, <2>4, <2>6, <3>1 DEF Rotate, Rotated
    <3>3. worker[p].web = w
      BY <2>1, <3>1, <3>2 DEF SessionsTyped
    <3>4. family[w].snapshot \in Nat /\ version \in Nat
      BY <2>1, FamilyTypes DEF SessionsTyped, Live
    <3> QED BY <3>1, <3>2, <3>3, <3>4
  <2>7. ASSUME NEW p \in Worker, LogoutRevokes(p) PROVE FALSE
    <3>1. worker[p].web \in Web
      BY <2>1, <2>7, StepsOfRequests DEF LogoutRevokes, SessionsTyped
    <3> QED BY <2>3, <2>7, <3>1 DEF LogoutRevokes
  <2>8. ASSUME NEW p \in Worker, Proceeds(p)
        PROVE  worker[p].step = "rotating" /\ worker[p].web = w /\ worker[p].read < version
    BY <2>2, <2>4, <2>5, <2>6, <2>7, <2>8
       DEF Proceeds, SignInPuts, Inspect, LookUp, Save, Refuse, View, LogoutInspects
  <2> QED BY <2>2, <2>3, <2>4, <2>8
          DEF SessionsNext, sessionVars, RefreshUnavailable, Crash, SignInLooksUp, Fresh, Loads, Forget,
              RevokeSession, AccessLapses, FamilyExpires, LogoutEverywhere, RevokeTokens, SetStatus
<1>2. SessionsSpec => [][\A w \in Web : Renewal(w)]_sessionVars
  BY <1>1, SessionsInvariance, PTL DEF SessionsSpec
<1> QED BY <1>2 DEF RevokedTokensAreNotRenewed

(***************************************************************************)
(* What has ended                                                          *)
(***************************************************************************)
(* The account's version is only ever moved on. *)
LEMMA VersionsGrow ==
  ASSUME SessionsTyped, [SessionsNext]_sessionVars
  PROVE  version' = version \/ version' = version + 1
BY DEF SessionsNext, sessionVars, Proceeds, SignInIssues, SignInPuts, Inspect, LookUp, Rotate, Save, Refuse, View,
       LogoutInspects, LogoutRevokes, RefreshUnavailable, Crash, SignInLooksUp, Fresh, Loads, Forget,
       RevokeSession, AccessLapses, FamilyExpires, LogoutEverywhere, RevokeTokens, SetStatus, account

(* The family of one session may be issued, rotate or end; those of the account end together. *)
LEMMA FamiliesMove ==
  ASSUME SessionsInv, [SessionsNext]_sessionVars, NEW w \in Web
  PROVE  \/ family'[w] = family[w] \/ family'[w] = Gone \/ family[w] = Unissued
         \/ Live(w) /\ Live(w)' /\ family'[w].snapshot = family[w].snapshot
<1> DEFINE Moves == \/ family'[w] = family[w] \/ family'[w] = Gone \/ family[w] = Unissued
                    \/ Live(w) /\ Live(w)' /\ family'[w].snapshot = family[w].snapshot
<1> SUFFICES Moves
  OBVIOUS
<1>1. SessionsTyped /\ SessionInv(w)
  BY DEF SessionsInv
<1>2. family' = RevokeUserEverywhere => Moves
  BY <1>1, RevokedTypes
<1>3. ASSUME NEW v \in Web, family' = [family EXCEPT ![v] = Gone] PROVE Moves
  BY <1>1, <1>3 DEF SessionsTyped
<1>4. family' = family => Moves
  OBVIOUS
<1>5. ASSUME NEW p \in Worker, SignInIssues(p) PROVE Moves
  <2>1. worker[p].step = "signing in" /\ worker[p].web \in Web /\ worker[p] # NoRequest
    BY <1>1, <1>5, StepsOfRequests DEF SignInIssues, SessionsTyped
  <2>2. CASE worker[p].web = w
    BY <1>1, <2>1, <2>2 DEF SessionInv, SignsInAlone, Engages
  <2>3. CASE worker[p].web # w
    BY <1>1, <1>5, <2>3 DEF SignInIssues, SessionsTyped
  <2> QED BY <2>2, <2>3
<1>6. ASSUME NEW p \in Worker, Rotate(p) PROVE Moves
  <2>1. worker[p].web \in Web
    BY <1>1, <1>6, StepsOfRequests DEF Rotate, SessionsTyped
  <2>2. PICK v \in Web : v = worker[p].web
    BY <2>1
  <2>3. \/ family' = family \/ family' = RevokeUserEverywhere \/ family' = [family EXCEPT ![v] = Gone]
        \/ Live(v) /\ family' = [family EXCEPT ![v].current = @ + 1]
    BY <1>6, <2>2 DEF Rotate, Rotated, Current
  <2>4. ASSUME Live(v), family' = [family EXCEPT ![v].current = @ + 1] PROVE Moves
    <3>1. family[v] \in Issued /\ family'[v] = [family[v] EXCEPT !.current = @ + 1]
      BY <1>1, <2>4, FamilyTypes DEF SessionsTyped, Live
    <3>2. v = w => Live(w)' /\ family'[w].snapshot = family[w].snapshot
      BY <3>1, <2>4 DEF Live, Issued
    <3>3. v # w => family'[w] = family[w]
      BY <1>1, <2>4 DEF SessionsTyped
    <3> QED BY <2>4, <3>2, <3>3
  <2> QED BY <1>2, <1>3, <1>4, <2>3, <2>4
<1>7. ASSUME NEW p \in Worker, LogoutRevokes(p) PROVE Moves
  <2>1. worker[p].web \in Web
    BY <1>1, <1>7, StepsOfRequests DEF LogoutRevokes, SessionsTyped
  <2> QED BY <1>3, <1>7, <2>1 DEF LogoutRevokes
<1>8. ASSUME NEW p \in Worker, Proceeds(p) PROVE Moves
  <2>1. ASSUME SignInPuts(p) \/ Inspect(p) \/ LookUp(p) \/ Save(p) \/ Refuse(p) \/ View(p) \/ LogoutInspects(p)
        PROVE  family' = family \/ family' = RevokeUserEverywhere
    BY <2>1 DEF SignInPuts, Inspect, LookUp, Save, Refuse, View, LogoutInspects
  <2> QED BY <1>2, <1>4, <1>5, <1>6, <1>7, <1>8, <2>1 DEF Proceeds
<1> HIDE DEF Moves
<1> QED BY <1>2, <1>3, <1>4, <1>8
        DEF SessionsNext, sessionVars, RefreshUnavailable, Crash, SignInLooksUp, Fresh, Loads, Forget,
            RevokeSession, AccessLapses, FamilyExpires, LogoutEverywhere, RevokeTokens, SetStatus

(***************************************************************************)
(* What has ended stays so, for any number of sessions and requests: no    *)
(* sign-in, rotation or race gives back a session that was revoked, or     *)
(* whose family is older than the account's version (auth/src/service.rs,  *)
(* refresh).  It is the safety half of EndedSessionsLeaveTheLocker, which  *)
(* TLC checks: until it leaves the locker, the session remains ended.      *)
(***************************************************************************)
THEOREM EndedForever == SessionsSpec => [][\A w \in Web : Ended(w) => Ended(w)']_sessionVars
<1>1. SessionsInv /\ [SessionsNext]_sessionVars => \A w \in Web : Ended(w) => Ended(w)'
  <2> SUFFICES ASSUME SessionsInv, [SessionsNext]_sessionVars, NEW w \in Web, Ended(w)
               PROVE  Ended(w)'
    OBVIOUS
  <2>1. SessionsTyped
    BY DEF SessionsInv
  <2>2. version' = version \/ version' = version + 1
    BY <2>1, VersionsGrow
  <2>3. family[w] # Unissued /\ ~(family[w] = Gone /\ Live(w))
    BY FamilyTypes DEF Ended, Live
  <2>4. version \in Nat /\ (Live(w) => family[w].snapshot \in Nat)
    BY <2>1, FamilyTypes DEF SessionsTyped, Live
  <2>5. CASE family'[w] = Gone
    BY <2>5 DEF Ended
  <2>6. CASE family'[w] = family[w]
    BY <2>2, <2>4, <2>6 DEF Ended, Live
  <2>7. CASE Live(w) /\ Live(w)' /\ family'[w].snapshot = family[w].snapshot
    BY <2>2, <2>3, <2>4, <2>7 DEF Ended
  <2> QED BY <2>3, <2>5, <2>6, <2>7, FamiliesMove
<1> QED BY <1>1, SessionsInvariance, PTL DEF SessionsSpec

(***************************************************************************)
(* The inductive invariant of SignIn                                       *)
(***************************************************************************)
Person == [email : Mailbox, verified : BOOLEAN]
Identity == [subject : Subject \union {NoSubject}, email : Mailbox, proven : BOOLEAN]
Finding == [branch : {"new", "crowd"}] \union [branch : {"linked", "holder", "squat"}, account : Account]
Secret == [state : {"open", "locked"}, failures : Nat]
Mailed == [state : {"live"}, attempts : Nat]

Asked ==
  {Idle} \union [step : {"proven"}, email : Mailbox]
    \union [step : {"decided"}, id : Identity, found : Finding]
    \union [step : {"failed"}, branch : {"linked", "holder", "squat", "new", "verify"}]
    \union [step : {"mailing"}, account : Account, email : Mailbox]
    \union [step : {"verifying"}, account : Account, email : Mailbox, sets : BOOLEAN]
    \union [step : {"comparing"}, account : Account]

SignInTyped ==
  /\ user \in [Account -> {NoUser} \union Person]
  /\ password \in [Account -> {NoPassword} \union Secret]
  /\ link \in [Subject -> Account \union {Nobody}]
  /\ code \in [Mailbox \X Purpose -> {Spent} \union Mailed]
  /\ request \in [Request -> Asked]
  /\ guesses \in [Mailbox -> Nat]

(* Who opens an account by a password and by a provider has proven its address. *)
AccountsAreSound ==
  /\ \A a \in Account : HasPassword(a) => Exists(a)
  /\ \A s \in Subject : link[s] # Nobody =>
       Exists(link[s]) /\ (HasPassword(link[s]) => user[link[s]].verified)
  /\ \A e \in Mailbox : \A a, b \in Squats(e) : a = b

Decided(r) == request[r].step = "decided"

(* The locks of a decision keep every other one off its subject and its mailbox. *)
LocksAreHeld ==
  \A r, q \in Request : Decided(r) /\ Decided(q) /\ r # q =>
    /\ request[r].id.email # request[q].id.email
    /\ request[r].id.subject = NoSubject \/ request[r].id.subject # request[q].id.subject

(* So what it found is still so when it is written. *)
Stands(id, found) ==
  /\ found.branch = "linked" => id.subject # NoSubject /\ link[id.subject] = found.account
  /\ found.branch # "linked" => LinkAdmits(id)
  /\ found.branch = "holder" => Exists(found.account) /\ user[found.account].verified
  /\ found.branch = "squat" => found.account \in Squats(id.email) /\ Holders(id.email) = {}
  /\ found.branch = "new" /\ id.proven => Holders(id.email) = {}

RequestStands(r) ==
  /\ Decided(r) => Stands(request[r].id, request[r].found)
  /\ request[r].step = "verifying" => Exists(request[r].account)
  /\ request[r].step = "failed" => request[r].branch = "linked"

DecisionsStand == \A r \in Request : RequestStands(r)

(* Every guess is counted before it is compared. *)
GuessesAreCounted ==
  \A e \in Mailbox :
    /\ code[Login(e)] = Spent => guesses[e] <= MaxAttempts
    /\ code[Login(e)] # Spent =>
         guesses[e] <= code[Login(e)].attempts /\ code[Login(e)].attempts < MaxAttempts

SignInInv == SignInTyped /\ AccountsAreSound /\ LocksAreHeld /\ DecisionsStand /\ GuessesAreCounted

LEMMA StepsOfSignIns ==
  /\ Idle \in Asked /\ Idle.step = "idle"
  /\ \A d \in Asked :
       /\ d.step = "idle" <=> d = Idle
       /\ d.step = "proven" => d.email \in Mailbox
       /\ d.step = "decided" => d.id \in Identity /\ d.found \in Finding
       /\ d.step \in {"mailing", "verifying"} => d.email \in Mailbox /\ d.account \in Account
       /\ d.step = "comparing" => d.account \in Account
<1>1. Idle \in Asked /\ Idle.step = "idle"
  BY DEF Idle, Asked
<1>2. ASSUME NEW d \in Asked
      PROVE  \/ d = Idle
             \/ d.step = "proven" /\ d.email \in Mailbox
             \/ d.step = "decided" /\ d.id \in Identity /\ d.found \in Finding
             \/ d.step = "failed"
             \/ d.step = "mailing" /\ d.email \in Mailbox /\ d.account \in Account
             \/ d.step = "verifying" /\ d.email \in Mailbox /\ d.account \in Account
             \/ d.step = "comparing" /\ d.account \in Account
  BY DEF Asked
<1> QED BY <1>1, <1>2

LEMMA SignInRecords ==
  /\ \A e \in Mailbox : [step |-> "proven", email |-> e] \in Asked
  /\ \A id \in Identity, f \in Finding : [step |-> "decided", id |-> id, found |-> f] \in Asked
  /\ [step |-> "failed", branch |-> "linked"] \in Asked
  /\ \A a \in Account, e \in Mailbox : [step |-> "mailing", account |-> a, email |-> e] \in Asked
  /\ \A a \in Account, e \in Mailbox, b \in BOOLEAN :
       [step |-> "verifying", account |-> a, email |-> e, sets |-> b] \in Asked
  /\ \A a \in Account : [step |-> "comparing", account |-> a] \in Asked
BY DEF Asked

LEMMA PeopleAndSecrets ==
  /\ NoUser \notin Person
  /\ NoPassword \notin Secret /\ Spent \notin Mailed
  /\ \A u \in Person : u.email \in Mailbox /\ u.verified \in BOOLEAN
  /\ \A id \in Identity :
       id.subject \in Subject \union {NoSubject} /\ id.email \in Mailbox /\ id.proven \in BOOLEAN
<1>1. ASSUME NoUser \in Person PROVE FALSE
  <2>1. DOMAIN NoUser = {"email"}
    BY DEF NoUser
  <2>2. \A u \in Person : DOMAIN u = {"email", "verified"}
    BY DEF Person
  <2>3. "verified" \in DOMAIN NoUser
    BY <1>1, <2>2
  <2> QED BY <2>1, <2>3
<1>2. NoPassword.state = "none" /\ Spent.state = "spent"
  BY DEF NoPassword, Spent
<1>3. (\A s \in Secret : s.state \in {"open", "locked"}) /\ (\A c \in Mailed : c.state = "live")
  BY DEF Secret, Mailed
<1> QED BY <1>1, <1>2, <1>3 DEF Person, Identity

(* What the directory answers: of an address that backs one squat at most, never a crowd. *)
LEMMA FoundStands ==
  ASSUME SignInTyped, AccountsAreSound, NEW id \in Identity
  PROVE  Found(id) \in Finding /\ Stands(id, Found(id))
<1>1. id.subject \in Subject \union {NoSubject} /\ id.email \in Mailbox
  BY PeopleAndSecrets
<1>2. ASSUME id.subject # NoSubject, link[id.subject] # Nobody
      PROVE  Found(id) \in Finding /\ Stands(id, Found(id))
  <2>1. link[id.subject] \in Account
    BY <1>1, <1>2 DEF SignInTyped
  <2>2. Found(id) = [branch |-> "linked", account |-> link[id.subject]]
    BY <1>2 DEF Found
  <2> QED BY <1>2, <2>1, <2>2 DEF Finding, Stands
<1>3. ASSUME ~(id.subject # NoSubject /\ link[id.subject] # Nobody)
      PROVE  Found(id) \in Finding /\ Stands(id, Found(id))
  <2>1. Found(id) = Linkable(id) /\ LinkAdmits(id)
    BY <1>3 DEF Found, LinkAdmits
  <2>2. CASE ~id.proven
    <3>1. Found(id) = [branch |-> "new"]
      BY <2>1, <2>2 DEF Linkable
    <3> QED BY <2>1, <2>2, <3>1 DEF Finding, Stands
  <2>3. CASE id.proven /\ Holders(id.email) # {}
    <3>1. PICK a \in Holders(id.email) : Found(id) = [branch |-> "holder", account |-> a]
      BY <2>1, <2>3 DEF Linkable
    <3>2. a \in Account /\ Exists(a) /\ user[a].verified
      BY DEF Holders
    <3> QED BY <2>1, <3>1, <3>2 DEF Finding, Stands
  <2>4. CASE id.proven /\ Holders(id.email) = {} /\ Squats(id.email) = {}
    <3>1. Cardinality(Squats(id.email)) # 1
      BY <2>4, FS_EmptySet
    <3>2. Found(id) = [branch |-> "new"]
      BY <2>1, <2>4, <3>1 DEF Linkable
    <3> QED BY <2>1, <2>4, <3>2 DEF Finding, Stands
  <2>5. CASE id.proven /\ Holders(id.email) = {} /\ Squats(id.email) # {}
    <3>1. PICK b \in Squats(id.email) : Squats(id.email) = {b}
      BY <1>1, <2>5 DEF AccountsAreSound
    <3>2. Cardinality(Squats(id.email)) = 1
      BY <3>1, FS_Singleton
    <3>3. PICK a \in Squats(id.email) : Found(id) = [branch |-> "squat", account |-> a]
      BY <2>1, <2>5, <3>2 DEF Linkable
    <3>4. a \in Account
      BY DEF Squats
    <3> QED BY <2>1, <2>5, <3>3, <3>4 DEF Finding, Stands
  <2> QED BY <2>2, <2>3, <2>4, <2>5
<1> QED BY <1>2, <1>3

(***************************************************************************)
(* What a step owes the requests and the accounts                          *)
(***************************************************************************)

(* A request that moves on decides nothing here; the others keep what they found. *)
LEMMA RequestsMove ==
  ASSUME SignInInv, request' \in [Request -> Asked],
         \A a \in Account : Exists(a) => Exists(a)',
         \A q \in Request :
           \/ request'[q] = request[q]
           \/ /\ ~Decided(q)'
              /\ request'[q].step = "verifying" => \E a \in Account : request'[q].account = a /\ Exists(a)'
              /\ request'[q].step = "failed" => request'[q].branch = "linked",
         \A q \in Request : request'[q] = request[q] /\ Decided(q) =>
           \A i \in Identity, f \in Finding :
             request[q].id = i /\ request[q].found = f => Stands(i, f)'
  PROVE  LocksAreHeld' /\ DecisionsStand'
<1>1. LocksAreHeld'
  <2> SUFFICES ASSUME NEW p \in Request, NEW q \in Request, Decided(p)', Decided(q)', p # q
               PROVE  /\ request'[p].id.email # request'[q].id.email
                      /\ request'[p].id.subject = NoSubject \/ request'[p].id.subject # request'[q].id.subject
    BY DEF LocksAreHeld
  <2>1. request'[p] = request[p] /\ request'[q] = request[q]
    OBVIOUS
  <2> QED BY <2>1 DEF SignInInv, LocksAreHeld, Decided
<1>2. ASSUME NEW q \in Request PROVE RequestStands(q)'
  <2>1. CASE request'[q] = request[q]
    <3>1. RequestStands(q) /\ request[q] \in Asked
      BY DEF SignInInv, SignInTyped, DecisionsStand
    <3>2. ASSUME Decided(q)' PROVE Stands(request[q].id, request[q].found)'
      <4>1. Decided(q) /\ request[q].id \in Identity /\ request[q].found \in Finding
        BY <2>1, <3>1, <3>2, StepsOfSignIns DEF Decided
      <4>2. PICK i \in Identity, f \in Finding : request[q].id = i /\ request[q].found = f
        BY <4>1
      <4>3. Stands(i, f)'
        BY <2>1, <4>1, <4>2
      <4>4. request'[q].id = i /\ request'[q].found = f
        BY <2>1, <4>2
      <4> QED BY <4>3, <4>4
    <3>3. ASSUME request'[q].step = "verifying" PROVE Exists(request[q].account)'
      <4>1. request[q].account \in Account /\ Exists(request[q].account)
        BY <2>1, <3>1, <3>3, StepsOfSignIns DEF RequestStands
      <4>2. PICK a \in Account : request[q].account = a
        BY <4>1
      <4>3. Exists(a)'
        BY <4>1, <4>2
      <4> QED BY <2>1, <4>2, <4>3
    <3> QED BY <2>1, <3>1, <3>2, <3>3 DEF RequestStands
  <2>2. CASE request'[q] # request[q]
    <3>1. ASSUME request'[q].step = "verifying" PROVE Exists(request[q].account)'
      <4>1. PICK a \in Account : request'[q].account = a /\ Exists(a)'
        BY <2>2, <3>1
      <4> QED BY <4>1
    <3> QED BY <2>2, <3>1 DEF RequestStands
  <2> QED BY <2>1, <2>2
<1> QED BY <1>1, <1>2 DEF DecisionsStand

(* Who holds which mailbox and backs it by a password stays as it is. *)
DirectoryStays ==
  /\ UNCHANGED <<user, link>>
  /\ password' \in [Account -> {NoPassword} \union Secret]
  /\ \A a \in Account : HasPassword(a)' = HasPassword(a)

LEMMA StayingIsSound ==
  ASSUME SignInInv, DirectoryStays
  PROVE  /\ AccountsAreSound'
         /\ \A a \in Account : Exists(a) => Exists(a)'
         /\ \A i \in Identity, f \in Finding : Stands(i, f) => Stands(i, f)'
<1>1. user' = user /\ link' = link /\ \A a \in Account : HasPassword(a)' = HasPassword(a)
  BY DEF DirectoryStays
<1>2. \A e : Squats(e)' = Squats(e) /\ Holders(e)' = Holders(e)
  BY <1>1 DEF Squats, Holders, Exists
<1>3. \A a \in Account : Exists(a)' = Exists(a)
  BY <1>1 DEF Exists
<1>4. AccountsAreSound'
  <2>1. ASSUME NEW a \in Account, HasPassword(a)' PROVE Exists(a)'
    BY <1>1, <1>3, <2>1 DEF SignInInv, AccountsAreSound
  <2>2. ASSUME NEW s \in Subject, link'[s] # Nobody
        PROVE  Exists(link[s])' /\ (HasPassword(link[s])' => user'[link'[s]].verified)
    <3>1. link[s] \in Account /\ link'[s] = link[s]
      BY <1>1, <2>2 DEF SignInInv, SignInTyped
    <3>2. PICK a \in Account : link[s] = a /\ link'[s] = a
      BY <3>1
    <3>3. Exists(a) /\ (HasPassword(a) => user[a].verified)
      BY <2>2, <3>2 DEF SignInInv, AccountsAreSound
    <3>4. Exists(a)' /\ (HasPassword(a)' => user'[a].verified)
      BY <1>1, <1>3, <3>3
    <3> QED BY <3>2, <3>4
  <2>3. \A e \in Mailbox : \A a, b \in Squats(e)' : a = b
    BY <1>2 DEF SignInInv, AccountsAreSound
  <2> QED BY <2>1, <2>2, <2>3 DEF AccountsAreSound
<1>5. ASSUME NEW i \in Identity, NEW f \in Finding, Stands(i, f) PROVE Stands(i, f)'
  BY <1>1, <1>2, <1>5 DEF Stands, LinkAdmits, Exists
<1> QED BY <1>3, <1>4, <1>5

(* A decision of another stands while a row is written for another mailbox. *)
LEMMA OthersStand ==
  ASSUME SignInTyped, NEW i \in Identity, NEW f \in Finding, Stands(i, f),
         NEW a \in Account, NEW u \in Person, user' = [user EXCEPT ![a] = u],
         u.email # i.email, a \notin Squats(i.email),
         Exists(a) /\ user[a].verified => u.verified,
         \A b \in Account \ {a} : password'[b] = password[b],
         i.subject # NoSubject => link'[i.subject] = link[i.subject]
  PROVE  Stands(i, f)'
<1>1. user'[a] = u /\ u # NoUser /\ \A b \in Account \ {a} : user'[b] = user[b]
  BY PeopleAndSecrets DEF SignInTyped
<1>2. Holders(i.email)' \subseteq Holders(i.email)
  BY <1>1 DEF Holders, Exists
<1>3. \A b \in Squats(i.email) : b \in Squats(i.email)'
  BY <1>1 DEF Squats, Exists, HasPassword
<1>4. ASSUME NEW b \in Account, Exists(b), user[b].verified PROVE Exists(b)' /\ user'[b].verified
  BY <1>1, <1>4 DEF Exists
<1>5. LinkAdmits(i) => LinkAdmits(i)'
  BY DEF LinkAdmits
<1>6. f.branch \in {"linked", "holder", "squat"} => f.account \in Account
  BY DEF Finding
<1> QED BY <1>2, <1>3, <1>4, <1>5, <1>6 DEF Stands, Exists

(* Accounts stay sound when one row is written. *)
LEMMA RowStaysSound ==
  ASSUME SignInTyped, AccountsAreSound,
         NEW a \in Account, NEW u \in Person, user' = [user EXCEPT ![a] = u],
         \A b \in Account \ {a} : password'[b] = password[b],
         \A s \in Subject : link'[s] \in {link[s], a},
         \A s \in Subject : link'[s] = a /\ HasPassword(a)' => u.verified,
         HasPassword(a)' /\ ~u.verified => Squats(u.email) \subseteq {a}
  PROVE  AccountsAreSound' /\ \A b \in Account : Exists(b) => Exists(b)'
<1>1. user'[a] = u /\ u # NoUser /\ \A b \in Account \ {a} : user'[b] = user[b]
  BY PeopleAndSecrets DEF SignInTyped
<1>2. \A b \in Account : Exists(b) \/ b = a => Exists(b)'
  BY <1>1 DEF Exists
<1>3. \A b \in Account \ {a} : HasPassword(b)' = HasPassword(b)
  BY DEF HasPassword
<1>4. ASSUME NEW b \in Account, HasPassword(b)' PROVE Exists(b)'
  BY <1>2, <1>3, <1>4 DEF AccountsAreSound
<1>5. ASSUME NEW s \in Subject, link'[s] # Nobody
      PROVE  Exists(link[s])' /\ (HasPassword(link[s])' => user'[link'[s]].verified)
  <2>1. CASE link'[s] = a
    BY <1>1, <1>2, <2>1
  <2>2. CASE link'[s] # a
    <3>1. link'[s] = link[s] /\ link[s] \in Account \ {a}
      BY <1>5, <2>2 DEF SignInTyped
    <3>2. PICK b \in Account \ {a} : link[s] = b /\ link'[s] = b
      BY <3>1
    <3>3. Exists(b) /\ (HasPassword(b) => user[b].verified)
      BY <1>5, <3>2 DEF AccountsAreSound
    <3>4. Exists(b)' /\ (HasPassword(b)' => user'[b].verified)
      BY <1>1, <1>2, <1>3, <3>3
    <3> QED BY <3>2, <3>4
  <2> QED BY <2>1, <2>2
<1>6. ASSUME NEW e \in Mailbox, NEW b \in Squats(e)', NEW c \in Squats(e)' PROVE b = c
  <2>1. \A x \in Squats(e)' : x # a => x \in Squats(e)
    BY <1>1, <1>3 DEF Squats, Exists
  <2>2. a \in Squats(e)' => Squats(e) \subseteq {a}
    BY <1>1 DEF Squats
  <2> QED BY <2>1, <2>2 DEF AccountsAreSound
<1> QED BY <1>2, <1>4, <1>5, <1>6 DEF AccountsAreSound

(***************************************************************************)
(* Decisions                                                               *)
(***************************************************************************)
LEMMA DecidesKeeps ==
  ASSUME SignInInv, NEW r \in Request, NEW id \in Identity, Decides(r, id)
  PROVE  SignInInv'
<1> DEFINE d == [step |-> "decided", id |-> id, found |-> Found(id)]
<1>1. /\ request' = [request EXCEPT ![r] = d]
      /\ UNCHANGED <<user, password, link, code, guesses>>
      /\ SubjectFree(id.subject) /\ EmailFree(id.email)
  BY DEF Decides, Becomes
<1>2. Found(id) \in Finding /\ Stands(id, Found(id))
  BY FoundStands DEF SignInInv
<1>3. d \in Asked /\ d.step = "decided" /\ d.id = id /\ d.found = Found(id)
  BY <1>2, SignInRecords
<1> HIDE DEF d
<1>4. /\ request' \in [Request -> Asked] /\ request'[r] = d
      /\ \A q \in Request \ {r} : request'[q] = request[q]
  BY <1>1, <1>3 DEF SignInInv, SignInTyped
<1>5. SignInTyped'
  BY <1>1, <1>4 DEF SignInInv, SignInTyped
<1>6. DirectoryStays
  BY <1>1 DEF DirectoryStays, HasPassword, SignInInv, SignInTyped
<1>7. GuessesAreCounted'
  BY <1>1 DEF SignInInv, GuessesAreCounted
<1>8. ASSUME NEW q \in Request, Decided(q)
      PROVE  request[q].id.email # id.email /\ (id.subject = NoSubject \/ request[q].id.subject # id.subject)
  BY <1>1, <1>8 DEF EmailFree, SubjectFree, Decided
<1>9. LocksAreHeld'
  <2> SUFFICES ASSUME NEW p \in Request, NEW q \in Request, Decided(p)', Decided(q)', p # q
               PROVE  /\ request'[p].id.email # request'[q].id.email
                      /\ request'[p].id.subject = NoSubject \/ request'[p].id.subject # request'[q].id.subject
    BY DEF LocksAreHeld
  <2>1. CASE p = r
    BY <1>3, <1>4, <1>8, <2>1 DEF Decided
  <2>2. CASE q = r
    BY <1>3, <1>4, <1>8, <2>2 DEF Decided
  <2>3. CASE p # r /\ q # r
    BY <1>4, <2>3 DEF Decided, LocksAreHeld, SignInInv
  <2> QED BY <2>1, <2>2, <2>3
<1>10. /\ AccountsAreSound' /\ \A a \in Account : Exists(a) => Exists(a)'
       /\ \A i \in Identity, f \in Finding : Stands(i, f) => Stands(i, f)'
  BY <1>6, StayingIsSound
<1>11. ASSUME NEW q \in Request PROVE RequestStands(q)'
  <2>1. CASE q = r
    <3>1. PICK i \in Identity, f \in Finding : id = i /\ Found(id) = f /\ Stands(i, f)
      BY <1>2
    <3>2. Stands(i, f)' /\ request'[r].id = i /\ request'[r].found = f /\ request'[r].step = "decided"
      BY <1>3, <1>4, <1>10, <3>1
    <3> QED BY <2>1, <3>2 DEF RequestStands
  <2>2. CASE q # r
    <3>1. request'[q] = request[q] /\ RequestStands(q) /\ request[q] \in Asked
      BY <1>4, <2>2 DEF SignInInv, DecisionsStand, SignInTyped
    <3>2. ASSUME Decided(q)' PROVE Stands(request[q].id, request[q].found)'
      <4>1. Decided(q) /\ request[q].id \in Identity /\ request[q].found \in Finding
        BY <3>1, <3>2, StepsOfSignIns DEF Decided
      <4>2. PICK i \in Identity, f \in Finding : request[q].id = i /\ request[q].found = f
        BY <4>1
      <4>3. Stands(i, f)' /\ request'[q].id = i /\ request'[q].found = f
        BY <1>10, <3>1, <4>1, <4>2 DEF RequestStands
      <4> QED BY <4>3
    <3>3. request[q].step = "verifying" => Exists(request[q].account)'
      BY <1>1, <3>1 DEF RequestStands, Exists
    <3> QED BY <3>1, <3>2, <3>3 DEF RequestStands
  <2> QED BY <2>1, <2>2
<1> QED BY <1>5, <1>7, <1>9, <1>10, <1>11 DEF SignInInv, DecisionsStand

(***************************************************************************)
(* Steps that leave the directory as it is                                 *)
(***************************************************************************)

(* Such a step owes the typing, the count of guesses and what its own request became. *)
LEMMA DirectoryStaysKeeps ==
  ASSUME SignInInv, DirectoryStays, request' \in [Request -> Asked],
         code' \in [Mailbox \X Purpose -> {Spent} \union Mailed], guesses' \in [Mailbox -> Nat],
         GuessesAreCounted',
         \A q \in Request :
           \/ request'[q] = request[q]
           \/ /\ request'[q].step \notin {"decided", "failed"}
              /\ request'[q].step = "verifying" => Exists(request'[q].account)
  PROVE  SignInInv'
<1>1. SignInTyped'
  BY DEF SignInInv, SignInTyped, DirectoryStays
<1>2. /\ AccountsAreSound' /\ \A a \in Account : Exists(a) => Exists(a)'
      /\ \A i \in Identity, f \in Finding : Stands(i, f) => Stands(i, f)'
  BY StayingIsSound
<1>3. ASSUME NEW q \in Request, request'[q] # request[q]
      PROVE  /\ ~Decided(q)'
             /\ request'[q].step = "verifying" => \E a \in Account : request'[q].account = a /\ Exists(a)'
             /\ request'[q].step = "failed" => request'[q].branch = "linked"
  <2>1. request'[q].step = "verifying" => request'[q].account \in Account
    BY StepsOfSignIns
  <2> QED BY <1>2, <1>3, <2>1 DEF Decided
<1>4. ASSUME NEW q \in Request, Decided(q), NEW i \in Identity, NEW f \in Finding,
             request[q].id = i, request[q].found = f
      PROVE  Stands(i, f)'
  BY <1>2, <1>4 DEF SignInInv, DecisionsStand, RequestStands
<1>5. LocksAreHeld' /\ DecisionsStand'
  BY <1>2, <1>3, <1>4, RequestsMove
<1> QED BY <1>1, <1>2, <1>5 DEF SignInInv

(* What a guess, an issue or an expiry leaves of the codes. *)
LEMMA CodesAreCounted ==
  ASSUME SignInInv, NEW c \in Mailbox \X Purpose
  PROVE  /\ code' = [code EXCEPT ![c] = Spent] /\ guesses' = guesses
              => code' \in [Mailbox \X Purpose -> {Spent} \union Mailed] /\ GuessesAreCounted'
         /\ \A right \in BOOLEAN :
              code' = Redeemed(c, right) =>
                /\ code' \in [Mailbox \X Purpose -> {Spent} \union Mailed]
                /\ guesses' = guesses => GuessesAreCounted'
                /\ \A e \in Mailbox :
                     c = Login(e) /\ guesses' = (IF code[c].state = "live" THEN [guesses EXCEPT ![e] = @ + 1] ELSE guesses)
                       => GuessesAreCounted'
<1>1. /\ code \in [Mailbox \X Purpose -> {Spent} \union Mailed] /\ guesses \in [Mailbox -> Nat]
      /\ GuessesAreCounted
  BY DEF SignInInv, SignInTyped
<1>2. Spent \notin Mailed /\ \A m \in Mailed : m.state = "live" /\ m.attempts \in Nat
  BY PeopleAndSecrets DEF Mailed
<1>3. Spent.state = "spent" /\ MaxAttempts \in Nat
  BY LimitsAssumption DEF Spent
<1>4. \A e \in Mailbox : Login(e) \in Mailbox \X Purpose /\ \A o \in Mailbox : Login(o) = Login(e) => o = e
  BY DEF Login, Purpose
<1>5. \A n \in Nat : [state |-> "live", attempts |-> n] \in Mailed /\ [state |-> "live", attempts |-> n].attempts = n
  BY DEF Mailed
<1>6. ASSUME code' = [code EXCEPT ![c] = Spent], guesses' = guesses
      PROVE  code' \in [Mailbox \X Purpose -> {Spent} \union Mailed] /\ GuessesAreCounted'
  <2>1. code' \in [Mailbox \X Purpose -> {Spent} \union Mailed]
    BY <1>1, <1>6
  <2>2. code'[c] = Spent /\ \A o \in Mailbox \X Purpose : o # c => code'[o] = code[o]
    BY <1>1, <1>6
  <2>3. ASSUME NEW e \in Mailbox
        PROVE  /\ code'[Login(e)] = Spent => guesses[e] <= MaxAttempts
               /\ code'[Login(e)] # Spent =>
                    guesses[e] <= code'[Login(e)].attempts /\ code'[Login(e)].attempts < MaxAttempts
    <3>1. /\ code[Login(e)] = Spent => guesses[e] <= MaxAttempts
          /\ code[Login(e)] # Spent => /\ code[Login(e)].attempts \in Nat
                                       /\ guesses[e] <= code[Login(e)].attempts
                                       /\ code[Login(e)].attempts < MaxAttempts
      BY <1>1, <1>2, <1>4 DEF GuessesAreCounted
    <3>2. guesses[e] \in Nat
      BY <1>1
    <3> QED BY <1>3, <1>4, <2>2, <3>1, <3>2
  <2> QED BY <1>6, <2>1, <2>3 DEF GuessesAreCounted, Login
<1>7. ASSUME NEW right \in BOOLEAN, code' = Redeemed(c, right)
      PROVE  /\ code' \in [Mailbox \X Purpose -> {Spent} \union Mailed]
             /\ guesses' = guesses => GuessesAreCounted'
             /\ \A e \in Mailbox :
                  c = Login(e) /\ guesses' = (IF code[c].state = "live" THEN [guesses EXCEPT ![e] = @ + 1] ELSE guesses)
                    => GuessesAreCounted'
  <2>1. CASE code[c] = Spent
    <3>1. code' = code
      BY <1>7, <2>1 DEF Redeemed
    <3> QED BY <1>1, <1>3, <2>1, <3>1 DEF GuessesAreCounted
  <2>2. CASE code[c] # Spent
    <3>1. PICK n \in Nat : code[c].attempts = n /\ code[c] \in Mailed /\ code[c].state = "live"
      BY <1>1, <1>2, <2>2
    <3>2. PICK m \in {Spent} \union Mailed :
            /\ m = IF right \/ n + 1 >= MaxAttempts THEN Spent ELSE [state |-> "live", attempts |-> n + 1]
            /\ code' = [code EXCEPT ![c] = m]
      <4> DEFINE m == IF right \/ n + 1 >= MaxAttempts THEN Spent ELSE [state |-> "live", attempts |-> n + 1]
      <4>1. m \in {Spent} \union Mailed
        BY <1>5
      <4>2. code' = [code EXCEPT ![c] = m]
        BY <1>7, <2>2, <3>1 DEF Redeemed
      <4> QED BY <4>1, <4>2
    <3>3. /\ code' \in [Mailbox \X Purpose -> {Spent} \union Mailed] /\ code'[c] = m
          /\ \A o \in Mailbox \X Purpose : o # c => code'[o] = code[o]
      BY <1>1, <3>2
    <3>4. m # Spent => m.attempts = n + 1 /\ n + 1 < MaxAttempts
      BY <1>3, <1>5, <3>2
    <3>5. ASSUME NEW g \in [Mailbox -> Nat], guesses' = g,
                 \A e \in Mailbox : IF c = Login(e) THEN g[e] <= guesses[e] + 1 ELSE g[e] = guesses[e]
          PROVE  GuessesAreCounted'
      <4>1. ASSUME NEW e \in Mailbox
            PROVE  /\ code'[Login(e)] = Spent => g[e] <= MaxAttempts
                   /\ code'[Login(e)] # Spent =>
                        g[e] <= code'[Login(e)].attempts /\ code'[Login(e)].attempts < MaxAttempts
        <5>1. /\ code[Login(e)] = Spent => guesses[e] <= MaxAttempts
              /\ code[Login(e)] # Spent => /\ code[Login(e)].attempts \in Nat
                                           /\ guesses[e] <= code[Login(e)].attempts
                                           /\ code[Login(e)].attempts < MaxAttempts
          BY <1>1, <1>2, <1>4 DEF GuessesAreCounted
        <5>2. guesses[e] \in Nat /\ g[e] \in Nat
          BY <1>1
        <5>3. CASE c = Login(e)
          <6>1. g[e] <= n + 1 /\ n < MaxAttempts
            BY <2>2, <3>1, <3>5, <5>1, <5>2, <5>3
          <6> QED BY <1>3, <3>3, <3>4, <5>2, <5>3, <6>1
        <5>4. CASE c # Login(e)
          BY <1>4, <3>3, <3>5, <5>1, <5>4
        <5> QED BY <5>3, <5>4
      <4> QED BY <3>5, <4>1 DEF GuessesAreCounted, Login
    <3>6. guesses' = guesses => GuessesAreCounted'
      BY <1>1, <3>5
    <3>7. ASSUME NEW e \in Mailbox, c = Login(e), guesses' = [guesses EXCEPT ![e] = @ + 1]
          PROVE  GuessesAreCounted'
      <4>1. [guesses EXCEPT ![e] = @ + 1] \in [Mailbox -> Nat]
        BY <1>1
      <4>2. \A o \in Mailbox : IF c = Login(o) THEN [guesses EXCEPT ![e] = @ + 1][o] <= guesses[o] + 1
                               ELSE [guesses EXCEPT ![e] = @ + 1][o] = guesses[o]
        BY <1>1, <1>4, <3>7
      <4> QED BY <3>5, <3>7, <4>1, <4>2
    <3> QED BY <3>1, <3>3, <3>6, <3>7
  <2> QED BY <2>1, <2>2
<1> QED BY <1>6, <1>7

(* A code that is issued starts its count anew; a throttled request issues none. *)
LEMMA IssueIsCounted ==
  ASSUME SignInInv, NEW e \in Mailbox, NEW purpose \in Purpose, Issue(e, purpose)
  PROVE  /\ code' \in [Mailbox \X Purpose -> {Spent} \union Mailed] /\ guesses' \in [Mailbox -> Nat]
         /\ GuessesAreCounted'
<1>1. /\ code \in [Mailbox \X Purpose -> {Spent} \union Mailed] /\ guesses \in [Mailbox -> Nat]
      /\ GuessesAreCounted
  BY DEF SignInInv, SignInTyped
<1>2. CASE sent[e] >= SendsPerWindow
  <2>1. code' = code /\ guesses' = guesses
    BY <1>2 DEF Issue
  <2> QED BY <1>1, <2>1 DEF GuessesAreCounted
<1>3. CASE ~(sent[e] >= SendsPerWindow)
  <2> DEFINE m == [state |-> "live", attempts |-> 0]
  <2>1. /\ code' = [code EXCEPT ![<<e, purpose>>] = m]
        /\ guesses' = IF purpose = "login" THEN [guesses EXCEPT ![e] = 0] ELSE guesses
    BY <1>3 DEF Issue
  <2>2. m \in Mailed /\ m.attempts = 0 /\ m # Spent
    BY PeopleAndSecrets DEF Mailed
  <2> HIDE DEF m
  <2>3. code' \in [Mailbox \X Purpose -> {Spent} \union Mailed] /\ guesses' \in [Mailbox -> Nat]
    BY <1>1, <2>1, <2>2
  <2>4. ASSUME NEW o \in Mailbox
        PROVE  /\ code'[Login(o)] = Spent => guesses'[o] <= MaxAttempts
               /\ code'[Login(o)] # Spent =>
                    guesses'[o] <= code'[Login(o)].attempts /\ code'[Login(o)].attempts < MaxAttempts
    <3>1. Login(o) \in Mailbox \X Purpose /\ (Login(o) = <<e, purpose>> <=> o = e /\ purpose = "login")
      BY DEF Login, Purpose
    <3>2. CASE Login(o) = <<e, purpose>>
      <4>1. code'[Login(o)] = m /\ guesses'[o] = 0
        BY <1>1, <2>1, <3>1, <3>2
      <4> QED BY <2>2, <4>1, LimitsAssumption
    <3>3. CASE Login(o) # <<e, purpose>>
      <4>1. code'[Login(o)] = code[Login(o)] /\ guesses'[o] = guesses[o]
        BY <1>1, <2>1, <3>1, <3>3
      <4> QED BY <1>1, <4>1 DEF GuessesAreCounted
    <3> QED BY <3>2, <3>3
  <2> QED BY <2>3, <2>4 DEF GuessesAreCounted, Login
<1> QED BY <1>2, <1>3

LEMMA CodesStay ==
  ASSUME SignInInv, UNCHANGED <<code, guesses>>
  PROVE  /\ code' \in [Mailbox \X Purpose -> {Spent} \union Mailed] /\ guesses' \in [Mailbox -> Nat]
         /\ GuessesAreCounted'
BY DEF SignInInv, SignInTyped, GuessesAreCounted

LEMMA DirectoryUntouched ==
  ASSUME SignInInv, UNCHANGED <<user, password, link>>
  PROVE  DirectoryStays
BY DEF SignInInv, SignInTyped, DirectoryStays, HasPassword

LEMMA RequestMovesTo ==
  ASSUME SignInInv, NEW r \in Request, NEW d \in Asked, Becomes(r, d),
         d.step \notin {"decided", "failed"}, d.step = "verifying" => Exists(d.account)
  PROVE  /\ request' \in [Request -> Asked]
         /\ \A q \in Request :
              \/ request'[q] = request[q]
              \/ /\ request'[q].step \notin {"decided", "failed"}
                 /\ request'[q].step = "verifying" => Exists(request'[q].account)
<1>1. request \in [Request -> Asked] /\ request' = [request EXCEPT ![r] = d]
  BY DEF SignInInv, SignInTyped, Becomes
<1>2. request'[r] = d /\ \A q \in Request \ {r} : request'[q] = request[q]
  BY <1>1
<1> QED BY <1>1, <1>2

LEMMA RequestEnds ==
  ASSUME SignInInv, NEW r \in Request, Ends(r)
  PROVE  /\ request' \in [Request -> Asked]
         /\ \A q \in Request :
              \/ request'[q] = request[q]
              \/ /\ request'[q].step \notin {"decided", "failed"}
                 /\ request'[q].step = "verifying" => Exists(request'[q].account)
<1>1. Idle \in Asked /\ Idle.step = "idle"
  BY StepsOfSignIns
<1> QED BY <1>1, RequestMovesTo DEF Ends

LEMMA RequestsStay ==
  ASSUME SignInInv, UNCHANGED request
  PROVE  request' \in [Request -> Asked] /\ \A q \in Request : request'[q] = request[q]
BY DEF SignInInv, SignInTyped

(* Reading an account, naming a password, redeeming a login code. *)
LEMMA StartsKeep ==
  ASSUME SignInInv, NEW r \in Request,
         RedeemLoginCode(r) \/ RequestVerification(r) \/ VerifyReads(r) \/ PasswordNamed(r)
  PROVE  SignInInv'
<1>1. DirectoryStays
  BY DirectoryUntouched DEF RedeemLoginCode, RequestVerification, VerifyReads, PasswordNamed
<1>2. \A a \in Account : Exists(a) => user[a] \in Person /\ user[a].email \in Mailbox
  BY PeopleAndSecrets DEF SignInInv, SignInTyped, Exists
<1>3. CASE RedeemLoginCode(r)
  <2>1. PICK e \in Mailbox, right \in BOOLEAN :
          /\ IF Accepts(Login(e), right)
             THEN Starts(r, [step |-> "proven", email |-> e])
             ELSE request[r] = Idle /\ UNCHANGED request
          /\ code' = Redeemed(Login(e), right)
          /\ guesses' = IF code[Login(e)].state = "live" THEN [guesses EXCEPT ![e] = @ + 1] ELSE guesses
    BY <1>3 DEF RedeemLoginCode
  <2>2. Login(e) \in Mailbox \X Purpose
    BY DEF Login, Purpose
  <2>3. code' \in [Mailbox \X Purpose -> {Spent} \union Mailed] /\ GuessesAreCounted'
    BY <2>1, <2>2, CodesAreCounted
  <2>4. guesses' \in [Mailbox -> Nat]
    BY <2>1 DEF SignInInv, SignInTyped
  <2>5. CASE Accepts(Login(e), right)
    <3> DEFINE d == [step |-> "proven", email |-> e]
    <3>1. d \in Asked /\ d.step = "proven" /\ Becomes(r, d)
      BY <2>1, <2>5, SignInRecords DEF Starts, Becomes
    <3> QED BY <1>1, <2>3, <2>4, <3>1, RequestMovesTo, DirectoryStaysKeeps
  <2>6. CASE ~Accepts(Login(e), right)
    <3>1. UNCHANGED request
      BY <2>1, <2>6
    <3> QED BY <1>1, <2>3, <2>4, <3>1, RequestsStay, DirectoryStaysKeeps
  <2> QED BY <2>5, <2>6
<1>4. CASE RequestVerification(r)
  <2>1. PICK a \in Account : Exists(a) /\ Becomes(r, [step |-> "mailing", account |-> a, email |-> user[a].email])
    BY <1>4 DEF RequestVerification, Starts, Becomes
  <2> DEFINE d == [step |-> "mailing", account |-> a, email |-> user[a].email]
  <2>2. d \in Asked /\ d.step = "mailing"
    BY <1>2, <2>1, SignInRecords
  <2>3. UNCHANGED <<code, guesses>>
    BY <1>4 DEF RequestVerification
  <2> QED BY <1>1, <2>1, <2>2, <2>3, CodesStay, RequestMovesTo, DirectoryStaysKeeps
<1>5. CASE VerifyReads(r)
  <2>1. PICK a \in Account, sets \in BOOLEAN :
          /\ Exists(a)
          /\ Becomes(r, [step |-> "verifying", account |-> a, email |-> user[a].email, sets |-> sets])
    BY <1>5 DEF VerifyReads, Starts, Becomes
  <2> DEFINE d == [step |-> "verifying", account |-> a, email |-> user[a].email, sets |-> sets]
  <2>2. d \in Asked /\ d.step = "verifying" /\ d.account = a
    BY <1>2, <2>1, SignInRecords
  <2>3. UNCHANGED <<code, guesses>>
    BY <1>5 DEF VerifyReads
  <2> QED BY <1>1, <2>1, <2>2, <2>3, CodesStay, RequestMovesTo, DirectoryStaysKeeps
<1>6. CASE PasswordNamed(r)
  <2>1. PICK a \in Account : Becomes(r, [step |-> "comparing", account |-> a])
    BY <1>6 DEF PasswordNamed, Starts, Becomes
  <2> DEFINE d == [step |-> "comparing", account |-> a]
  <2>2. d \in Asked /\ d.step = "comparing"
    BY <2>1, SignInRecords
  <2>3. UNCHANGED <<code, guesses>>
    BY <1>6 DEF PasswordNamed
  <2> QED BY <1>1, <2>1, <2>2, <2>3, CodesStay, RequestMovesTo, DirectoryStaysKeeps
<1> QED BY <1>3, <1>4, <1>5, <1>6

(* Issuing, answering, the passing of time. *)
LEMMA CodesKeep ==
  ASSUME SignInInv,
         \/ \E r \in Request : VerificationIssued(r) \/ Answered(r)
         \/ \E e \in Mailbox : RequestCode(e)
         \/ WindowRolls
         \/ \E c \in Mailbox \X Purpose : CodeExpires(c)
  PROVE  SignInInv'
<1>1. DirectoryStays
  BY DirectoryUntouched DEF VerificationIssued, Answered, RequestCode, WindowRolls, CodeExpires
<1>2. ASSUME NEW r \in Request, VerificationIssued(r) PROVE SignInInv'
  <2>1. request[r].email \in Mailbox /\ request[r].account \in Purpose
    BY <1>2, StepsOfSignIns DEF VerificationIssued, SignInInv, SignInTyped, Purpose
  <2>2. PICK e \in Mailbox, purpose \in Purpose : Issue(e, purpose)
    BY <1>2, <2>1 DEF VerificationIssued
  <2>3. Ends(r)
    BY <1>2 DEF VerificationIssued
  <2> QED BY <1>1, <2>2, <2>3, IssueIsCounted, RequestEnds, DirectoryStaysKeeps
<1>3. ASSUME NEW r \in Request, Answered(r) PROVE SignInInv'
  <2>1. Ends(r) /\ UNCHANGED <<code, guesses>>
    BY <1>3 DEF Answered
  <2> QED BY <1>1, <2>1, CodesStay, RequestEnds, DirectoryStaysKeeps
<1>4. ASSUME NEW e \in Mailbox, RequestCode(e) PROVE SignInInv'
  <2>1. Issue(e, "login") /\ "login" \in Purpose /\ UNCHANGED request
    BY <1>4 DEF RequestCode, Purpose
  <2> QED BY <1>1, <2>1, IssueIsCounted, RequestsStay, DirectoryStaysKeeps
<1>5. CASE WindowRolls
  <2>1. UNCHANGED <<code, guesses>> /\ UNCHANGED request
    BY <1>5 DEF WindowRolls
  <2> QED BY <1>1, <2>1, CodesStay, RequestsStay, DirectoryStaysKeeps
<1>6. ASSUME NEW c \in Mailbox \X Purpose, CodeExpires(c) PROVE SignInInv'
  <2>1. code' = [code EXCEPT ![c] = Spent] /\ guesses' = guesses /\ UNCHANGED request
    BY <1>6 DEF CodeExpires
  <2>2. guesses' \in [Mailbox -> Nat]
    BY <2>1 DEF SignInInv, SignInTyped
  <2>3. code' \in [Mailbox \X Purpose -> {Spent} \union Mailed] /\ GuessesAreCounted'
    BY <2>1, CodesAreCounted
  <2> QED BY <1>1, <2>1, <2>2, <2>3, RequestsStay, DirectoryStaysKeeps
<1> QED BY <1>2, <1>3, <1>4, <1>5, <1>6

(* A password keeps its account, locked or open. *)
LEMMA PasswordsKeep ==
  ASSUME SignInInv,
         (\E r \in Request : RecordPasswordAttempt(r)) \/ (\E a \in Account : LockPasses(a))
  PROVE  SignInInv'
<1>1. password \in [Account -> {NoPassword} \union Secret]
  BY DEF SignInInv, SignInTyped
<1>2. /\ NoPassword \notin Secret /\ NoPassword.state = "none"
      /\ \A s \in Secret : s.failures \in Nat
      /\ \A n \in Nat : [state |-> "open", failures |-> n] \in Secret /\ [state |-> "locked", failures |-> n] \in Secret
  BY PeopleAndSecrets DEF Secret, NoPassword
<1>3. \A s \in Secret : [s EXCEPT !.failures = @ + 1] \in Secret /\ [s EXCEPT !.state = "open"] \in Secret
  BY DEF Secret
<1>4. ASSUME NEW a \in Account, NEW s \in {NoPassword} \union Secret,
             password' = [password EXCEPT ![a] = s], s = NoPassword <=> password[a] = NoPassword,
             UNCHANGED <<user, link>>
      PROVE  DirectoryStays
  <2>1. password'[a] = s /\ \A b \in Account \ {a} : password'[b] = password[b]
    BY <1>1, <1>4
  <2>2. \A b \in Account : HasPassword(b)' = HasPassword(b)
    BY <1>4, <2>1 DEF HasPassword
  <2>3. password' \in [Account -> {NoPassword} \union Secret]
    BY <1>1, <1>4
  <2> QED BY <1>4, <2>2, <2>3 DEF DirectoryStays
<1>5. ASSUME NEW r \in Request, RecordPasswordAttempt(r) PROVE SignInInv'
  <2>1. request[r].account \in Account
    BY <1>5, StepsOfSignIns DEF RecordPasswordAttempt, SignInInv, SignInTyped
  <2>2. PICK a \in Account, right \in BOOLEAN : password' = [password EXCEPT ![a] = RecordedAttempt(a, right)]
    BY <1>5, <2>1 DEF RecordPasswordAttempt
  <2>3. /\ RecordedAttempt(a, right) \in {NoPassword} \union Secret
        /\ RecordedAttempt(a, right) = NoPassword <=> password[a] = NoPassword
    <3>1. CASE password[a] = NoPassword
      BY <3>1 DEF RecordedAttempt, HasPassword
    <3>2. CASE password[a] # NoPassword
      <4>1. password[a] \in Secret
        BY <1>1, <3>2
      <4> QED BY <1>2, <1>3, <3>2, <4>1 DEF RecordedAttempt, HasPassword
    <3> QED BY <3>1, <3>2
  <2>4. UNCHANGED <<user, link>> /\ UNCHANGED <<code, guesses>> /\ Ends(r)
    BY <1>5 DEF RecordPasswordAttempt
  <2>5. DirectoryStays
    BY <1>4, <2>2, <2>3, <2>4
  <2> QED BY <2>4, <2>5, CodesStay, RequestEnds, DirectoryStaysKeeps
<1>6. ASSUME NEW a \in Account, LockPasses(a) PROVE SignInInv'
  <2>1. password[a] \in Secret /\ password' = [password EXCEPT ![a] = [password[a] EXCEPT !.state = "open"]]
    BY <1>1, <1>2, <1>6 DEF LockPasses
  <2>2. UNCHANGED <<user, link>> /\ UNCHANGED <<code, guesses>> /\ UNCHANGED request
    BY <1>6 DEF LockPasses
  <2>3. DirectoryStays
    BY <1>2, <1>3, <1>4, <2>1, <2>2
  <2> QED BY <2>2, <2>3, CodesStay, RequestsStay, DirectoryStaysKeeps
<1> QED BY <1>5, <1>6

(***************************************************************************)
(* Steps that write an account, under the lock of its mailbox              *)
(***************************************************************************)

(* What a request that has decided knows. *)
LEMMA DecidedKnows ==
  ASSUME SignInInv, NEW r \in Request, Decided(r)
  PROVE  \E id \in Identity, found \in Finding :
           /\ request[r].id = id /\ request[r].found = found /\ Stands(id, found)
           /\ \A q \in Request \ {r} : Decided(q) =>
                /\ request[q].id.email # id.email
                /\ id.subject = NoSubject \/ request[q].id.subject # id.subject
<1>1. request[r].id \in Identity /\ request[r].found \in Finding
  BY StepsOfSignIns DEF SignInInv, SignInTyped, Decided
<1>2. PICK id \in Identity, found \in Finding : request[r].id = id /\ request[r].found = found
  BY <1>1
<1>3. Stands(id, found)
  BY <1>2 DEF SignInInv, DecisionsStand, RequestStands
<1>4. \A q \in Request \ {r} : Decided(q) =>
        /\ request[q].id.email # id.email
        /\ id.subject = NoSubject \/ request[q].id.subject # id.subject
  BY <1>2 DEF SignInInv, LocksAreHeld
<1> QED BY <1>2, <1>3, <1>4

(* A write of the row of a, under the lock of the mailbox the row ends up with, by *)
(* a request that is done.                                                        *)
Writes(a, u, s) ==
  /\ user' = [user EXCEPT ![a] = u] /\ password' = [password EXCEPT ![a] = s]
  /\ UNCHANGED <<guesses>> /\ GuessesAreCounted'
  /\ code' \in [Mailbox \X Purpose -> {Spent} \union Mailed]
  /\ link' \in [Subject -> Account \union {Nobody}]
  /\ request' \in [Request -> Asked]
  /\ \A q \in Request : request'[q] = request[q] \/ request'[q] = Idle
  /\ Exists(a) /\ user[a].verified => u.verified
  /\ \A t \in Subject : link'[t] \in {link[t], a}
  /\ \A t \in Subject : link'[t] = a /\ s # NoPassword => u.verified
  /\ s # NoPassword /\ ~u.verified => Squats(u.email) \subseteq {a}
  /\ \A q \in Request : request'[q] = request[q] /\ Decided(q) =>
       /\ request[q].id.email # u.email
       /\ a \notin Squats(request[q].id.email)
       /\ request[q].id.subject # NoSubject => link'[request[q].id.subject] = link[request[q].id.subject]

LEMMA WriteKeeps ==
  ASSUME SignInInv, NEW a \in Account, NEW u \in Person, NEW s \in {NoPassword} \union Secret, Writes(a, u, s)
  PROVE  SignInInv'
<1> USE DEF Writes
<1>1. SignInTyped /\ AccountsAreSound
  BY DEF SignInInv
<1>2. password'[a] = s /\ \A b \in Account \ {a} : password'[b] = password[b]
  BY <1>1 DEF SignInTyped
<1>3. HasPassword(a)' <=> s # NoPassword
  BY <1>2 DEF HasPassword
<1>4. AccountsAreSound' /\ \A b \in Account : Exists(b) => Exists(b)'
  BY <1>1, <1>2, <1>3, RowStaysSound
<1>5. SignInTyped'
  BY <1>1 DEF SignInTyped
<1>6. ASSUME NEW q \in Request, request'[q] # request[q]
      PROVE  /\ ~Decided(q)'
             /\ request'[q].step = "verifying" => \E b \in Account : request'[q].account = b /\ Exists(b)'
             /\ request'[q].step = "failed" => request'[q].branch = "linked"
  BY <1>6, StepsOfSignIns DEF Decided
<1>7. ASSUME NEW q \in Request, request'[q] = request[q], Decided(q), NEW i \in Identity, NEW f \in Finding,
             request[q].id = i, request[q].found = f
      PROVE  Stands(i, f)'
  <2>1. Stands(i, f)
    BY <1>7 DEF SignInInv, DecisionsStand, RequestStands
  <2>2. /\ u.email # i.email /\ a \notin Squats(i.email)
        /\ i.subject # NoSubject => link'[i.subject] = link[i.subject]
    BY <1>7
  <2> QED BY <1>1, <1>2, <2>1, <2>2, OthersStand
<1>8. LocksAreHeld' /\ DecisionsStand'
  BY <1>4, <1>6, <1>7, RequestsMove
<1> QED BY <1>4, <1>5, <1>8 DEF SignInInv

(* The unverified account of an address that is not taken is its one squat. *)
LEMMA SignUpKeeps ==
  ASSUME SignInInv, NEW e \in Mailbox, SignUp(e)
  PROVE  SignInInv'
<1>1. PICK a \in Account :
        /\ ~Exists(a)
        /\ user' = [user EXCEPT ![a] = [email |-> e, verified |-> FALSE]]
        /\ password' = [password EXCEPT ![a] = [state |-> "open", failures |-> 0]]
  BY DEF SignUp
<1> DEFINE u == [email |-> e, verified |-> FALSE]
           s == [state |-> "open", failures |-> 0]
<1>2. u \in Person /\ u.email = e /\ ~u.verified
  BY DEF Person
<1>3. s \in Secret /\ s # NoPassword
  <2>1. s \in Secret
    BY DEF Secret
  <2> QED BY <2>1, PeopleAndSecrets
<1> HIDE DEF u, s
<1>4. user' = [user EXCEPT ![a] = u] /\ password' = [password EXCEPT ![a] = s]
  BY <1>1 DEF u, s
<1>5. Squats(e) = {}
  BY DEF SignUp, Taken, BacksPassword, Squats
<1>6. \A t \in Subject : link[t] # a
  BY <1>1, NamesAssumption DEF SignInInv, AccountsAreSound
<1>7. UNCHANGED <<link, code, request, guesses>> /\ EmailFree(e)
  BY DEF SignUp
<1>8. \A q \in Request : Decided(q) => request[q].id.email # e
  BY <1>7 DEF EmailFree, Decided
<1>9. \A m : a \notin Squats(m)
  BY <1>1 DEF Squats
<1>10. /\ GuessesAreCounted' /\ code' \in [Mailbox \X Purpose -> {Spent} \union Mailed]
       /\ link' \in [Subject -> Account \union {Nobody}] /\ request' \in [Request -> Asked]
  BY <1>7 DEF SignInInv, SignInTyped, GuessesAreCounted
<1>11. /\ Exists(a) /\ user[a].verified => u.verified
       /\ s # NoPassword /\ ~u.verified => Squats(u.email) \subseteq {a}
       /\ \A t \in Subject : link'[t] \in {link[t], a}
       /\ \A t \in Subject : link'[t] = a /\ s # NoPassword => u.verified
  BY <1>1, <1>2, <1>5, <1>6, <1>7
<1>12. \A q \in Request : request'[q] = request[q] /\ Decided(q) =>
         /\ request[q].id.email # u.email
         /\ a \notin Squats(request[q].id.email)
         /\ request[q].id.subject # NoSubject => link'[request[q].id.subject] = link[request[q].id.subject]
  BY <1>2, <1>7, <1>8, <1>9
<1>13. (\A q \in Request : request'[q] = request[q] \/ request'[q] = Idle) /\ UNCHANGED <<guesses>>
  BY <1>7
<1>14. s \in {NoPassword} \union Secret
  BY <1>3
<1>15. Writes(a, u, s)
  BY <1>4, <1>10, <1>11, <1>12, <1>13 DEF Writes
<1> QED BY <1>2, <1>14, <1>15, WriteKeeps

(* Ending requests, in the form the write asks for. *)
LEMMA OnlyItEnds ==
  ASSUME SignInInv, NEW r \in Request, Ends(r)
  PROVE  /\ request' \in [Request -> Asked] /\ request'[r] = Idle
         /\ \A q \in Request : request'[q] = request[q] \/ request'[q] = Idle
         /\ \A q \in Request \ {r} : request'[q] = request[q]
<1>1. request \in [Request -> Asked] /\ request' = [request EXCEPT ![r] = Idle] /\ Idle \in Asked
  BY StepsOfSignIns DEF SignInInv, SignInTyped, Ends, Becomes
<1> QED BY <1>1

(* An account that a provider opens is no squat. *)
LEMMA LinkedAreNoSquats ==
  ASSUME SignInInv, NEW t \in Subject, NEW a \in Account, link[t] = a
  PROVE  Exists(a) /\ \A m : a \notin Squats(m)
BY NamesAssumption DEF SignInInv, AccountsAreSound, Squats

(* A linked account follows its provider's address, or keeps its own. *)
LEMMA ResolveLinkedKeeps ==
  ASSUME SignInInv, NEW r \in Request, ResolveLinked(r)
  PROVE  SignInInv'
<1>1. Decided(r) /\ request[r].found.branch = "linked" /\ UNCHANGED <<password, link, code, guesses>>
  BY DEF ResolveLinked, Decided
<1>2. PICK id \in Identity, found \in Finding :
        /\ request[r].id = id /\ request[r].found = found /\ Stands(id, found)
        /\ \A q \in Request \ {r} : Decided(q) =>
             /\ request[q].id.email # id.email
             /\ id.subject = NoSubject \/ request[q].id.subject # id.subject
  BY <1>1, DecidedKnows
<1>3. id.subject \in Subject /\ link[id.subject] = found.account /\ found.account \in Account
  BY <1>1, <1>2, PeopleAndSecrets DEF Stands, Finding
<1>4. PICK a \in Account : found.account = a
  BY <1>3
<1>5. Exists(a) /\ (\A m : a \notin Squats(m)) /\ user[a] \in Person
  BY <1>3, <1>4, LinkedAreNoSquats DEF SignInInv, SignInTyped, Exists
<1>6. /\ code' \in [Mailbox \X Purpose -> {Spent} \union Mailed] /\ guesses' \in [Mailbox -> Nat]
      /\ GuessesAreCounted'
  BY <1>1, CodesStay
<1> DEFINE u == ChangeEmail(user[a], id)
<1>7. IF id.proven /\ id.email # user[a].email /\ Holders(id.email) # {}
      THEN Ends(r) /\ UNCHANGED user
      ELSE WritesUser(r, a, u)
  BY <1>2, <1>4 DEF ResolveLinked
<1>8. u \in Person /\ (user[a].verified => u.verified) /\ (u = user[a] \/ u.email = id.email)
  BY <1>5, PeopleAndSecrets DEF ChangeEmail, Person
<1> HIDE DEF u
<1>9. CASE UNCHANGED user /\ Ends(r)
  <2>1. DirectoryStays
    BY <1>1, <1>9, DirectoryUntouched
  <2> QED BY <1>6, <1>9, <2>1, RequestEnds, DirectoryStaysKeeps
<1>10. CASE u = user[a] /\ user' = [user EXCEPT ![a] = u] /\ Ends(r)
  <2>1. UNCHANGED user
    BY <1>10 DEF SignInInv, SignInTyped
  <2> QED BY <1>9, <1>10, <2>1
<1>11. CASE u.email = id.email /\ user' = [user EXCEPT ![a] = u] /\ Ends(r)
  <2>1. /\ request' \in [Request -> Asked] /\ request'[r] = Idle
        /\ \A q \in Request : request'[q] = request[q] \/ request'[q] = Idle
    BY <1>11, OnlyItEnds
  <2>2. request[r] # Idle
    BY <1>1, StepsOfSignIns DEF Decided
  <2>3. \A q \in Request : request'[q] = request[q] /\ Decided(q) =>
          /\ request[q].id.email # u.email
          /\ a \notin Squats(request[q].id.email)
          /\ request[q].id.subject # NoSubject => link'[request[q].id.subject] = link[request[q].id.subject]
    BY <1>1, <1>2, <1>5, <1>11, <2>1, <2>2
  <2>4. PICK s \in {NoPassword} \union Secret : password[a] = s /\ password' = [password EXCEPT ![a] = s]
    BY <1>1 DEF SignInInv, SignInTyped
  <2>5. user[a].verified => u.verified
    BY <1>8
  <2>6. s # NoPassword => user[a].verified
    BY <1>3, <1>4, <2>4, NamesAssumption DEF SignInInv, AccountsAreSound, HasPassword
  <2>7. link' \in [Subject -> Account \union {Nobody}] /\ \A t \in Subject : link'[t] \in {link[t], a}
    BY <1>1 DEF SignInInv, SignInTyped
  <2>8. /\ Exists(a) /\ user[a].verified => u.verified
        /\ s # NoPassword /\ ~u.verified => Squats(u.email) \subseteq {a}
        /\ \A t \in Subject : link'[t] = a /\ s # NoPassword => u.verified
    BY <2>5, <2>6
  <2>9. UNCHANGED <<guesses>>
    BY <1>1
  <2>10. u \in Person /\ user' = [user EXCEPT ![a] = u] /\ password' = [password EXCEPT ![a] = s]
    BY <1>8, <1>11, <2>4
  <2>11. code' \in [Mailbox \X Purpose -> {Spent} \union Mailed] /\ GuessesAreCounted'
    BY <1>6
  <2>12. Writes(a, u, s)
    BY <2>1, <2>3, <2>7, <2>8, <2>9, <2>10, <2>11 DEF Writes
  <2> QED BY <2>4, <2>10, <2>12, WriteKeeps
<1>12. ASSUME ~IndexAdmits(a, u), UNCHANGED user,
              Becomes(r, [step |-> "failed", branch |-> request[r].found.branch])
       PROVE  SignInInv'
  <2> DEFINE d == [step |-> "failed", branch |-> "linked"]
  <2>1. d \in Asked /\ d.step = "failed" /\ d.branch = "linked" /\ request' = [request EXCEPT ![r] = d]
    BY <1>1, <1>12, SignInRecords DEF Becomes
  <2> HIDE DEF d
  <2>2. /\ request' \in [Request -> Asked] /\ request'[r] = d
        /\ \A q \in Request \ {r} : request'[q] = request[q]
    BY <2>1 DEF SignInInv, SignInTyped
  <2>3. DirectoryStays
    BY <1>1, <1>12, DirectoryUntouched
  <2>4. /\ AccountsAreSound' /\ \A b \in Account : Exists(b) => Exists(b)'
        /\ \A i \in Identity, f \in Finding : Stands(i, f) => Stands(i, f)'
    BY <2>3, StayingIsSound
  <2>5. \A q \in Request :
          \/ request'[q] = request[q]
          \/ /\ ~Decided(q)'
             /\ request'[q].step = "verifying" => \E b \in Account : request'[q].account = b /\ Exists(b)'
             /\ request'[q].step = "failed" => request'[q].branch = "linked"
    BY <2>1, <2>2 DEF Decided
  <2>6. ASSUME NEW q \in Request, Decided(q), NEW i \in Identity, NEW f \in Finding,
               request[q].id = i, request[q].found = f
        PROVE  Stands(i, f)'
    BY <2>4, <2>6 DEF SignInInv, DecisionsStand, RequestStands
  <2>7. LocksAreHeld' /\ DecisionsStand'
    BY <2>2, <2>4, <2>5, <2>6, RequestsMove
  <2>8. SignInTyped'
    BY <1>1, <1>6, <1>12, <2>2 DEF SignInInv, SignInTyped
  <2> QED BY <1>6, <2>4, <2>7, <2>8 DEF SignInInv
<1> QED BY <1>7, <1>8, <1>9, <1>10, <1>11, <1>12 DEF WritesUser

(* The holder of a mailbox gets the identity, wherever its address has moved. *)
LEMMA ResolveHolderKeeps ==
  ASSUME SignInInv, NEW r \in Request, ResolveHolder(r)
  PROVE  SignInInv'
<1>1. Decided(r) /\ request[r].found.branch = "holder" /\ UNCHANGED <<user, password, code, guesses>>
  BY DEF ResolveHolder, Decided
<1>2. PICK id \in Identity, found \in Finding :
        /\ request[r].id = id /\ request[r].found = found /\ Stands(id, found)
        /\ \A q \in Request \ {r} : Decided(q) =>
             /\ request[q].id.email # id.email
             /\ id.subject = NoSubject \/ request[q].id.subject # id.subject
  BY <1>1, DecidedKnows
<1>3. LinkAdmits(id) /\ found.account \in Account
  BY <1>1, <1>2 DEF Stands, Finding
<1>4. PICK a \in Account : found.account = a /\ Exists(a) /\ user[a].verified
  BY <1>1, <1>2, <1>3 DEF Stands
<1>5. link' = Linked(id, a) /\ Ends(r)
  BY <1>2, <1>3, <1>4 DEF ResolveHolder
<1>6. /\ code' \in [Mailbox \X Purpose -> {Spent} \union Mailed] /\ guesses' \in [Mailbox -> Nat]
      /\ GuessesAreCounted'
  BY <1>1, CodesStay
<1>7. /\ link' \in [Subject -> Account \union {Nobody}]
      /\ \A t \in Subject : link'[t] \in {link[t], a}
      /\ \A t \in Subject : t # id.subject => link'[t] = link[t]
  BY <1>5 DEF SignInInv, SignInTyped, Linked
<1>8. /\ request' \in [Request -> Asked] /\ request'[r] = Idle
      /\ \A q \in Request : request'[q] = request[q] \/ request'[q] = Idle
  BY <1>5, OnlyItEnds
<1>9. request[r] # Idle
  BY <1>1, StepsOfSignIns DEF Decided
<1>10. PICK u \in Person : user[a] = u /\ u.verified /\ user' = [user EXCEPT ![a] = u]
  BY <1>1, <1>4 DEF SignInInv, SignInTyped, Exists
<1>11. \A b \in Account \ {a} : password'[b] = password[b]
  BY <1>1
<1>12. SignInTyped /\ AccountsAreSound
  BY DEF SignInInv
<1>13. AccountsAreSound' /\ \A b \in Account : Exists(b) => Exists(b)'
  BY <1>7, <1>10, <1>11, <1>12, RowStaysSound
<1>14. \A q \in Request :
         \/ request'[q] = request[q]
         \/ /\ ~Decided(q)'
            /\ request'[q].step = "verifying" => \E b \in Account : request'[q].account = b /\ Exists(b)'
            /\ request'[q].step = "failed" => request'[q].branch = "linked"
  BY <1>8, StepsOfSignIns DEF Decided
<1>15. ASSUME NEW q \in Request, request'[q] = request[q], Decided(q), NEW i \in Identity, NEW f \in Finding,
              request[q].id = i, request[q].found = f
       PROVE  Stands(i, f)'
  <2>1. Stands(i, f)
    BY <1>15 DEF SignInInv, DecisionsStand, RequestStands
  <2>2. i.subject \in Subject \union {NoSubject} /\ (i.subject # NoSubject => i.subject # id.subject)
    BY <1>2, <1>8, <1>9, <1>15, PeopleAndSecrets
  <2>3. i.subject # NoSubject => link'[i.subject] = link[i.subject]
    BY <1>7, <2>2
  <2>4. \A m : Squats(m)' = Squats(m) /\ Holders(m)' = Holders(m)
    BY <1>1 DEF Squats, Holders, Exists, HasPassword
  <2> QED BY <1>1, <2>1, <2>3, <2>4 DEF Stands, LinkAdmits, Exists
<1>16. LocksAreHeld' /\ DecisionsStand'
  BY <1>8, <1>13, <1>14, <1>15, RequestsMove
<1>17. SignInTyped'
  BY <1>1, <1>6, <1>7, <1>8, <1>12 DEF SignInTyped
<1> QED BY <1>6, <1>13, <1>16, <1>17 DEF SignInInv

(* The squat is still one, so it is taken over and loses its password. *)
LEMMA ResolveSquatKeeps ==
  ASSUME SignInInv, NEW r \in Request, ResolveSquat(r)
  PROVE  SignInInv'
<1>1. Decided(r) /\ request[r].found.branch = "squat" /\ UNCHANGED <<code, guesses>>
  BY DEF ResolveSquat, Decided
<1>2. PICK id \in Identity, found \in Finding :
        /\ request[r].id = id /\ request[r].found = found /\ Stands(id, found)
        /\ \A q \in Request \ {r} : Decided(q) =>
             /\ request[q].id.email # id.email
             /\ id.subject = NoSubject \/ request[q].id.subject # id.subject
  BY <1>1, DecidedKnows
<1>3. LinkAdmits(id) /\ Holders(id.email) = {} /\ found.account \in Squats(id.email)
  BY <1>1, <1>2 DEF Stands
<1>4. PICK a \in Account : found.account = a /\ a \in Squats(id.email)
  BY <1>3 DEF Squats
<1>5. Exists(a) /\ user[a].email = id.email /\ user[a] \in Person
  BY <1>4 DEF Squats, SignInInv, SignInTyped, Exists
<1> DEFINE u == TakeOver(user[a])
<1>6. u \in Person /\ u.email = id.email /\ u.verified
  BY <1>5 DEF TakeOver, VerifyEmail, Person
<1>7. IndexAdmits(a, u)
  BY <1>3, <1>6 DEF IndexAdmits
<1>8. /\ WritesUser(r, a, u) /\ link' = Linked(id, a)
      /\ password' = [password EXCEPT ![a] = NoPassword]
  BY <1>2, <1>3, <1>4, <1>7 DEF ResolveSquat
<1> HIDE DEF u
<1>9. user' = [user EXCEPT ![a] = u] /\ Ends(r)
  BY <1>7, <1>8 DEF WritesUser
<1>10. /\ code' \in [Mailbox \X Purpose -> {Spent} \union Mailed] /\ GuessesAreCounted' /\ UNCHANGED <<guesses>>
  BY <1>1, CodesStay
<1>11. /\ link' \in [Subject -> Account \union {Nobody}]
       /\ \A t \in Subject : link'[t] \in {link[t], a}
       /\ \A t \in Subject : t # id.subject => link'[t] = link[t]
  BY <1>8 DEF SignInInv, SignInTyped, Linked
<1>12. /\ request' \in [Request -> Asked] /\ request'[r] = Idle
       /\ \A q \in Request : request'[q] = request[q] \/ request'[q] = Idle
  BY <1>9, OnlyItEnds
<1>13. request[r] # Idle
  BY <1>1, StepsOfSignIns DEF Decided
<1>14. ASSUME NEW q \in Request, request'[q] = request[q], Decided(q)
       PROVE  /\ request[q].id.email # u.email
              /\ a \notin Squats(request[q].id.email)
              /\ request[q].id.subject # NoSubject => link'[request[q].id.subject] = link[request[q].id.subject]
  <2>1. request[q].id.email # id.email /\ (id.subject = NoSubject \/ request[q].id.subject # id.subject)
    BY <1>2, <1>12, <1>13, <1>14
  <2>2. request[q].id.subject \in Subject \union {NoSubject}
    BY <1>14, StepsOfSignIns, PeopleAndSecrets DEF SignInInv, SignInTyped, Decided
  <2> QED BY <1>5, <1>6, <1>11, <2>1, <2>2 DEF Squats
<1>15. NoPassword \in {NoPassword} \union Secret
  OBVIOUS
<1>16. /\ Exists(a) /\ user[a].verified => u.verified
       /\ NoPassword # NoPassword /\ ~u.verified => Squats(u.email) \subseteq {a}
       /\ \A t \in Subject : link'[t] = a /\ NoPassword # NoPassword => u.verified
  BY <1>6
<1>17. u \in Person
  BY <1>6
<1>18. user' = [user EXCEPT ![a] = u]
  BY <1>9
<1>19. \A q \in Request : request'[q] = request[q] /\ Decided(q) =>
         /\ request[q].id.email # u.email
         /\ a \notin Squats(request[q].id.email)
         /\ request[q].id.subject # NoSubject => link'[request[q].id.subject] = link[request[q].id.subject]
  BY <1>14
<1>20. /\ password' = [password EXCEPT ![a] = NoPassword]
       /\ link' \in [Subject -> Account \union {Nobody}]
       /\ \A t \in Subject : link'[t] \in {link[t], a}
       /\ request' \in [Request -> Asked]
       /\ \A q \in Request : request'[q] = request[q] \/ request'[q] = Idle
  BY <1>8, <1>11, <1>12
<1>21. Writes(a, u, NoPassword)
  BY <1>10, <1>16, <1>18, <1>19, <1>20 DEF Writes
<1> QED BY <1>15, <1>17, <1>21, WriteKeeps

(* A row no account had: it has no password, and its mailbox, if proven, no holder. *)
LEMMA ResolveNewKeeps ==
  ASSUME SignInInv, NEW r \in Request, ResolveNew(r)
  PROVE  SignInInv'
<1>1. Decided(r) /\ request[r].found.branch = "new" /\ UNCHANGED <<password, code, guesses>>
  BY DEF ResolveNew, Decided
<1>2. PICK id \in Identity, found \in Finding :
        /\ request[r].id = id /\ request[r].found = found /\ Stands(id, found)
        /\ \A q \in Request \ {r} : Decided(q) =>
             /\ request[q].id.email # id.email
             /\ id.subject = NoSubject \/ request[q].id.subject # id.subject
  BY <1>1, DecidedKnows
<1>3. LinkAdmits(id) /\ (id.proven => Holders(id.email) = {})
  BY <1>1, <1>2 DEF Stands
<1> DEFINE u == [email |-> id.email, verified |-> id.proven]
<1>4. u \in Person /\ u.email = id.email /\ u.verified = id.proven
  BY PeopleAndSecrets DEF Person
<1>5. PICK a \in Account :
        /\ ~Exists(a) /\ WritesUser(r, a, u)
        /\ link' = IF IndexAdmits(a, u) THEN Linked(id, a) ELSE link
  BY <1>2, <1>3 DEF ResolveNew
<1> HIDE DEF u
<1>6. IndexAdmits(a, u)
  BY <1>3, <1>4 DEF IndexAdmits
<1>7. user' = [user EXCEPT ![a] = u] /\ Ends(r) /\ link' = Linked(id, a)
  BY <1>5, <1>6 DEF WritesUser
<1>8. /\ code' \in [Mailbox \X Purpose -> {Spent} \union Mailed] /\ GuessesAreCounted' /\ UNCHANGED <<guesses>>
  BY <1>1, CodesStay
<1>9. /\ link' \in [Subject -> Account \union {Nobody}]
      /\ \A t \in Subject : link'[t] \in {link[t], a}
      /\ \A t \in Subject : t # id.subject => link'[t] = link[t]
  BY <1>7 DEF SignInInv, SignInTyped, Linked
<1>10. /\ request' \in [Request -> Asked] /\ request'[r] = Idle
       /\ \A q \in Request : request'[q] = request[q] \/ request'[q] = Idle
  BY <1>7, OnlyItEnds
<1>11. request[r] # Idle
  BY <1>1, StepsOfSignIns DEF Decided
<1>12. password[a] = NoPassword /\ \A m : a \notin Squats(m)
  BY <1>5 DEF SignInInv, AccountsAreSound, HasPassword, Squats
<1>13. password' = [password EXCEPT ![a] = NoPassword]
  BY <1>1, <1>12 DEF SignInInv, SignInTyped
<1>14. ASSUME NEW q \in Request, request'[q] = request[q], Decided(q)
       PROVE  /\ request[q].id.email # u.email
              /\ a \notin Squats(request[q].id.email)
              /\ request[q].id.subject # NoSubject => link'[request[q].id.subject] = link[request[q].id.subject]
  <2>1. request[q].id.email # id.email /\ (id.subject = NoSubject \/ request[q].id.subject # id.subject)
    BY <1>2, <1>10, <1>11, <1>14
  <2>2. request[q].id.subject \in Subject \union {NoSubject}
    BY <1>14, StepsOfSignIns, PeopleAndSecrets DEF SignInInv, SignInTyped, Decided
  <2> QED BY <1>4, <1>9, <1>12, <2>1, <2>2
<1>15. NoPassword \in {NoPassword} \union Secret
  OBVIOUS
<1>16. /\ Exists(a) /\ user[a].verified => u.verified
       /\ NoPassword # NoPassword /\ ~u.verified => Squats(u.email) \subseteq {a}
       /\ \A t \in Subject : link'[t] = a /\ NoPassword # NoPassword => u.verified
  BY <1>5
<1>17. u \in Person
  BY <1>4
<1>18. user' = [user EXCEPT ![a] = u]
  BY <1>7
<1>19. \A q \in Request : request'[q] = request[q] /\ Decided(q) =>
         /\ request[q].id.email # u.email
         /\ a \notin Squats(request[q].id.email)
         /\ request[q].id.subject # NoSubject => link'[request[q].id.subject] = link[request[q].id.subject]
  BY <1>14
<1>20. /\ password' = [password EXCEPT ![a] = NoPassword]
       /\ link' \in [Subject -> Account \union {Nobody}]
       /\ \A t \in Subject : link'[t] \in {link[t], a}
       /\ request' \in [Request -> Asked]
       /\ \A q \in Request : request'[q] = request[q] \/ request'[q] = Idle
  BY <1>13, <1>9, <1>10
<1>21. Writes(a, u, NoPassword)
  BY <1>8, <1>16, <1>18, <1>19, <1>20 DEF Writes
<1> QED BY <1>15, <1>17, <1>21, WriteKeeps

(* A code that proves an address finds it held by nobody else, under the mailbox's lock. *)
LEMMA VerifyWritesKeeps ==
  ASSUME SignInInv, NEW r \in Request, VerifyWrites(r)
  PROVE  SignInInv'
<1>1. /\ request[r].step = "verifying" /\ request[r] \in Asked
      /\ EmailFree(request[r].email) /\ UNCHANGED <<link, guesses>>
  BY DEF VerifyWrites, SignInInv, SignInTyped
<1>2. PICK a \in Account, e \in Mailbox : request[r].account = a /\ request[r].email = e
  BY <1>1, StepsOfSignIns
<1>3. Exists(a) /\ user[a] \in Person
  BY <1>1, <1>2 DEF SignInInv, SignInTyped, DecisionsStand, RequestStands, Exists
<1>4. PICK c \in Mailbox \X Purpose : c = <<e, a>>
  BY DEF Purpose
<1> DEFINE u == VerifyEmail(user[a])
           proves(right) == Accepts(c, right) /\ Verifies(a, e)
<1>5. PICK right \in BOOLEAN :
        /\ IF proves(right) /\ ~IndexAdmits(a, u)
           THEN /\ Becomes(r, [step |-> "failed", branch |-> "verify"])
                /\ UNCHANGED code
           ELSE Ends(r) /\ code' = Redeemed(c, right)
        /\ user' = IF proves(right) /\ IndexAdmits(a, u) THEN [user EXCEPT ![a] = u] ELSE user
        /\ IF proves(right) /\ IndexAdmits(a, u) /\ request[r].sets
           THEN WritePassword(a) ELSE UNCHANGED <<password, wrong>>
  BY <1>2, <1>4 DEF VerifyWrites
<1>6. u \in Person /\ u.email = user[a].email /\ u.verified
  BY <1>3 DEF VerifyEmail, Person
<1>7. Verifies(a, e) => u.email = e /\ IndexAdmits(a, u)
  BY <1>6 DEF Verifies, IndexAdmits
<1> HIDE DEF u
<1>8. Ends(r) /\ code' = Redeemed(c, right)
  BY <1>5, <1>7
<1>9. /\ code' \in [Mailbox \X Purpose -> {Spent} \union Mailed] /\ GuessesAreCounted' /\ UNCHANGED <<guesses>>
      /\ guesses' \in [Mailbox -> Nat]
  <2>1. guesses' = guesses /\ guesses \in [Mailbox -> Nat]
    BY <1>1 DEF SignInInv, SignInTyped
  <2> QED BY <1>8, <2>1, CodesAreCounted
<1>10. CASE ~proves(right)
  <2>1. UNCHANGED <<user, password, link>>
    BY <1>1, <1>5, <1>10
  <2>2. DirectoryStays
    BY <2>1, DirectoryUntouched
  <2> QED BY <1>8, <1>9, <2>2, RequestEnds, DirectoryStaysKeeps
<1>11. CASE proves(right)
  <2>1. u.email = e /\ user[a].email = e /\ user' = [user EXCEPT ![a] = u]
    BY <1>5, <1>6, <1>7, <1>11
  <2>2. PICK s \in {NoPassword} \union Secret : password' = [password EXCEPT ![a] = s]
    <3>1. CASE WritePassword(a)
      <4>1. [state |-> "open", failures |-> 0] \in Secret
        BY DEF Secret
      <4> QED BY <3>1, <4>1 DEF WritePassword
    <3>2. CASE UNCHANGED password
      BY <3>2 DEF SignInInv, SignInTyped
    <3> QED BY <1>5, <3>1, <3>2
  <2>3. /\ request' \in [Request -> Asked] /\ request'[r] = Idle
        /\ \A q \in Request : request'[q] = request[q] \/ request'[q] = Idle
    BY <1>8, OnlyItEnds
  <2>4. \A q \in Request : request'[q] = request[q] /\ Decided(q) =>
          /\ request[q].id.email # u.email
          /\ a \notin Squats(request[q].id.email)
          /\ request[q].id.subject # NoSubject => link'[request[q].id.subject] = link[request[q].id.subject]
    BY <1>1, <1>2, <2>1 DEF EmailFree, Decided, Squats
  <2>5. /\ link' \in [Subject -> Account \union {Nobody}]
        /\ \A t \in Subject : link'[t] \in {link[t], a}
    BY <1>1 DEF SignInInv, SignInTyped
  <2>6. /\ Exists(a) /\ user[a].verified => u.verified
        /\ s # NoPassword /\ ~u.verified => Squats(u.email) \subseteq {a}
        /\ \A t \in Subject : link'[t] = a /\ s # NoPassword => u.verified
    BY <1>6
  <2>7. code' \in [Mailbox \X Purpose -> {Spent} \union Mailed] /\ GuessesAreCounted' /\ UNCHANGED <<guesses>>
    BY <1>9
  <2>8. u \in Person /\ user' = [user EXCEPT ![a] = u]
    BY <1>6, <2>1
  <2>9. /\ request' \in [Request -> Asked]
        /\ \A q \in Request : request'[q] = request[q] \/ request'[q] = Idle
    BY <2>3
  <2>10. Writes(a, u, s)
    BY <2>2, <2>4, <2>5, <2>6, <2>7, <2>8, <2>9 DEF Writes
  <2> QED BY <2>2, <2>8, <2>10, WriteKeeps
<1> QED BY <1>10, <1>11

(***************************************************************************)
(* The invariant, and what follows from it                                 *)
(***************************************************************************)
LEMMA SignInInvInit == Init => SignInInv
<1> SUFFICES ASSUME Init PROVE SignInInv
  OBVIOUS
<1>1. Idle \in Asked /\ Idle.step = "idle"
  BY StepsOfSignIns
<1>2. SignInTyped
  BY <1>1 DEF Init, SignInTyped
<1>3. AccountsAreSound
  BY DEF Init, AccountsAreSound, HasPassword, Squats, Exists
<1>4. LocksAreHeld /\ DecisionsStand
  BY <1>1 DEF Init, LocksAreHeld, DecisionsStand, RequestStands, Decided
<1>5. GuessesAreCounted
  <2>1. \A e \in Mailbox : Login(e) \in Mailbox \X Purpose
    BY DEF Login, Purpose
  <2>2. \A e \in Mailbox : code[Login(e)] = Spent /\ guesses[e] = 0
    BY <2>1 DEF Init
  <2> QED BY <2>2, LimitsAssumption DEF GuessesAreCounted
<1> QED BY <1>2, <1>3, <1>4, <1>5 DEF SignInInv

LEMMA SignInInvNext == SignInInv /\ [Next]_vars => SignInInv'
<1> SUFFICES ASSUME SignInInv, [Next]_vars PROVE SignInInv'
  OBVIOUS
<1>1. CASE UNCHANGED vars
  <2>1. UNCHANGED <<user, password, link>> /\ UNCHANGED <<code, guesses>> /\ UNCHANGED request
    BY <1>1 DEF vars
  <2> QED BY <2>1, DirectoryUntouched, CodesStay, RequestsStay, DirectoryStaysKeeps
<1>2. ASSUME NEW r \in Request, ProviderSignIn(r) PROVE SignInInv'
  <2>1. PICK s \in Subject, e \in Mailbox, p \in BOOLEAN : Decides(r, [subject |-> s, email |-> e, proven |-> p])
    BY <1>2 DEF ProviderSignIn
  <2>2. [subject |-> s, email |-> e, proven |-> p] \in Identity
    BY DEF Identity
  <2> QED BY <2>1, <2>2, DecidesKeeps
<1>3. ASSUME NEW r \in Request, CodeSignIn(r) PROVE SignInInv'
  <2>1. request[r].email \in Mailbox
    BY <1>3, StepsOfSignIns DEF CodeSignIn, SignInInv, SignInTyped
  <2>2. [subject |-> NoSubject, email |-> request[r].email, proven |-> TRUE] \in Identity
    BY <2>1 DEF Identity
  <2> QED BY <1>3, <2>2, DecidesKeeps DEF CodeSignIn
<1>4. ASSUME NEW r \in Request, Resolve(r) PROVE SignInInv'
  BY <1>2, <1>3, <1>4, ResolveLinkedKeeps, ResolveHolderKeeps, ResolveSquatKeeps, ResolveNewKeeps, CodesKeep
     DEF Resolve
<1>5. ASSUME NEW r \in Request,
             \/ RedeemLoginCode(r) \/ RequestVerification(r) \/ VerificationIssued(r) \/ VerifyReads(r)
             \/ VerifyWrites(r) \/ PasswordNamed(r) \/ RecordPasswordAttempt(r)
      PROVE  SignInInv'
  BY <1>5, StartsKeep, CodesKeep, VerifyWritesKeeps, PasswordsKeep
<1>6. ASSUME NEW e \in Mailbox, SignUp(e) \/ RequestCode(e) PROVE SignInInv'
  BY <1>6, SignUpKeeps, CodesKeep
<1>7. ASSUME WindowRolls \/ \E c \in Mailbox \X Purpose : CodeExpires(c) PROVE SignInInv'
  BY <1>7, CodesKeep
<1>8. ASSUME NEW a \in Account, LockPasses(a) PROVE SignInInv'
  BY <1>8, PasswordsKeep
<1> QED BY <1>1, <1>4, <1>5, <1>6, <1>7, <1>8 DEF Next

THEOREM SignInInvariance == Spec => []SignInInv
<1> QED BY SignInInvInit, SignInInvNext, PTL DEF Spec

(***************************************************************************)
(* RacesNeverClash, for any requests, subjects and mailboxes: what a       *)
(* decision found still stands when it is written, under its two locks, so *)
(* only a linked account can meet a unique index: when its provider proves *)
(* the address it already had and another account proved it first.         *)
(***************************************************************************)
THEOREM RacesDoNotClash == Spec => []RacesNeverClash
<1>1. SignInInv => RacesNeverClash
  BY DEF SignInInv, DecisionsStand, RequestStands, RacesNeverClash
<1> QED BY <1>1, SignInInvariance, PTL

(***************************************************************************)
(* SquatsAreUnmistakable, for any accounts: sign-up refuses an address     *)
(* that backs a password, and no other write makes an account a squat.     *)
(***************************************************************************)
THEOREM SquatsAreNeverMistaken == Spec => []SquatsAreUnmistakable
<1>1. ASSUME SignInInv PROVE SquatsAreUnmistakable
  <2>1. ASSUME NEW e \in Mailbox PROVE Cardinality(Squats(e)) <= 1
    <3>1. CASE Squats(e) = {}
      BY <3>1, FS_EmptySet
    <3>2. CASE Squats(e) # {}
      <4>1. PICK a \in Squats(e) : Squats(e) = {a}
        BY <1>1, <3>2 DEF SignInInv, AccountsAreSound
      <4>2. Cardinality(Squats(e)) = 1
        BY <4>1, FS_Singleton
      <4> QED BY <4>2
    <3> QED BY <3>1, <3>2
  <2> QED BY <1>1, <2>1 DEF SignInInv, AccountsAreSound, SquatsAreUnmistakable
<1> QED BY <1>1, SignInInvariance, PTL

(***************************************************************************)
(* CodeGuessesAreCapped, for any number of requests that guess at once:    *)
(* the comparisons made with a live code are no more than it has counted.  *)
(***************************************************************************)
THEOREM CodesStandTheirGuesses == Spec => []CodeGuessesAreCapped
<1>1. ASSUME SignInInv PROVE CodeGuessesAreCapped
  <2> SUFFICES ASSUME NEW e \in Mailbox PROVE guesses[e] <= MaxAttempts
    BY DEF CodeGuessesAreCapped
  <2>1. CASE code[Login(e)] = Spent
    BY <1>1, <2>1 DEF SignInInv, GuessesAreCounted
  <2>2. CASE code[Login(e)] # Spent
    <3>1. Login(e) \in Mailbox \X Purpose
      BY DEF Login, Purpose
    <3>2. code[Login(e)].attempts \in Nat /\ guesses[e] \in Nat
      BY <1>1, <2>2, <3>1 DEF SignInInv, SignInTyped, Mailed
    <3> QED BY <1>1, <2>2, <3>2, LimitsAssumption DEF SignInInv, GuessesAreCounted
  <2> QED BY <2>1, <2>2
<1> QED BY <1>1, SignInInvariance, PTL

=============================================================================
