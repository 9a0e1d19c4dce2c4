----------------------------- MODULE HoldsProofs -----------------------------
(***************************************************************************)
(* What holds of the brake for any set of accounts, any number of requests *)
(* and any lengths of the hold, the proposal and the cooldown.             *)
(*                                                                         *)
(* A renewal acts on a proposal it read as open some time ago.  The        *)
(* argument for HoldLapsesUnlessAsked is that its own clock reading is no  *)
(* later than the last instant the owners were being asked (Grounded), and *)
(* that this instant never moves back.  The cooldown takes one thing more, *)
(* that no request waits as long as a hold lasts (Patient).                *)
(***************************************************************************)
EXTENDS Holds, TLAPS

Deciding(p) == press[p].phase = "deciding"

(* What a request under way rests on. *)
Grounded ==
  /\ \A p \in Press : press[p] # Free => press[p].at <= now
  /\ \A p \in Press, u \in User :
       Deciding(p) /\ press[p].pending /\ press[p].user = u => press[p].at <= LastAsked(u)

(* The past is past. *)
Remembered == \A u \in User : askedUntil[u] <= now

IInv ==
  /\ TypeOK
  /\ Grounded
  /\ Remembered
  /\ HoldLapsesUnlessAsked

LEMMA InitInvariant == Init => IInv
<1> SUFFICES ASSUME Init PROVE IInv
  OBVIOUS
<1> USE ClockAssumption DEF Never
<1>1. now \in Time /\ now = 0
  BY DEF Init, Time
<1>2. \A p \in Press : press[p] = Free
  BY DEF Init
<1>3. press \in [Press -> PressType]
  <2>1. Free \in PressType  BY DEF Free, PressType
  <2> QED BY <2>1 DEF Init
<1>4. account \in [User -> Account]
  BY DEF Init, Account
<1>5. \A u \in User : account[u].until = -1 /\ account[u].by = "none"
  BY DEF Init
<1>6. TypeOK
  <2>1. sweep \in SweepType
    BY DEF Init, Resting, SweepType
  <2> QED BY <1>1, <1>3, <1>4, <1>5, <2>1 DEF Init, TypeOK, Held
<1>7. Grounded
  BY <1>2 DEF Grounded, Deciding, Free
<1>8. Remembered
  BY <1>1 DEF Init, Remembered
<1>9. HoldLapsesUnlessAsked
  BY <1>5 DEF HoldLapsesUnlessAsked, Held
<1> QED BY <1>6, <1>7, <1>8, <1>9 DEF IInv

(* LastAsked is an instant that has come. *)
LEMMA AskedType ==
  ASSUME TypeOK, Remembered, NEW u \in User
  PROVE  LastAsked(u) \in Int /\ LastAsked(u) <= now /\ now \in Nat
BY ClockAssumption DEF TypeOK, Remembered, LastAsked, Least, Time

(***************************************************************************)
(* A step that begins no hold and no request, and takes no instant of      *)
(* asking back, keeps what the invariant says about them.                  *)
(***************************************************************************)
LEMMA NothingBegins ==
  ASSUME IInv, TypeOK', Remembered',
         now' >= now, pressedAt' = pressedAt,
         \A p \in Press : press'[p] = press[p] \/ press'[p] = Free,
         \A u \in User : Held(account'[u]) => account'[u] = account[u],
         \A u \in User : LastAsked(u) <= LastAsked(u)'
  PROVE  IInv'
<1> USE ClockAssumption
<1>1. \A u \in User : LastAsked(u) \in Int /\ LastAsked(u)' \in Int
  <2>1. \A u \in User : LastAsked(u) \in Int
    BY AskedType DEF IInv
  <2>2. \A u \in User : LastAsked(u)' \in Int
    BY DEF TypeOK, LastAsked, Least, Time
  <2> QED BY <2>1, <2>2
<1>2. \A p \in Press : press[p] # Free => press[p].at \in Int /\ press[p].user \in User
  BY DEF IInv, TypeOK, PressType, Free, Time
<1>3. now \in Int /\ now' \in Int
  BY DEF IInv, TypeOK, Time
<1>4. ASSUME NEW p \in Press, press'[p] # Free PROVE press'[p].at <= now'
  BY <1>2, <1>3, <1>4 DEF IInv, Grounded
<1>5. ASSUME NEW p \in Press, NEW u \in User, Deciding(p)', press'[p].pending, press'[p].user = u
      PROVE  press'[p].at <= LastAsked(u)'
  <2>1. /\ Deciding(p) /\ press[p].pending /\ press[p].user = u
        /\ press[p] # Free /\ press'[p] = press[p]
    BY <1>5 DEF Deciding, Free
  <2>2. press[p].at <= LastAsked(u) /\ press[p].at \in Int
    BY <1>2, <2>1 DEF IInv, Grounded
  <2>3. LastAsked(u) \in Int /\ LastAsked(u)' \in Int /\ LastAsked(u) <= LastAsked(u)'
    BY <1>1
  <2> QED BY <2>1, <2>2, <2>3
<1>6. Grounded'
  BY <1>4, <1>5 DEF Grounded
<1>7. HoldLapsesUnlessAsked'
  <2> SUFFICES ASSUME NEW u \in User, Held(account'[u])
               PROVE  account'[u].until <= Most(pressedAt[u], LastAsked(u)') + HoldTTL
    BY DEF HoldLapsesUnlessAsked
  <2>0. account'[u] = account[u]
    OBVIOUS
  <2>1. account[u].until <= Most(pressedAt[u], LastAsked(u)) + HoldTTL
    BY <2>0 DEF IInv, HoldLapsesUnlessAsked
  <2>2. account[u].until \in Int /\ pressedAt[u] \in Int
    BY DEF IInv, TypeOK, Account
  <2>3. LastAsked(u) \in Int /\ LastAsked(u)' \in Int /\ LastAsked(u) <= LastAsked(u)'
    BY <1>1
  <2>4. ASSUME NEW x \in Int, NEW y \in Int, NEW z \in Int, y <= z
        PROVE  Most(x, y) \in Int /\ Most(x, y) <= Most(x, z) /\ Most(x, z) \in Int
    BY <2>4 DEF Most
  <2>5. Most(pressedAt[u], LastAsked(u)) <= Most(pressedAt[u], LastAsked(u)')
    BY <2>2, <2>3, <2>4
  <2>6. Most(pressedAt[u], LastAsked(u)) \in Int /\ Most(pressedAt[u], LastAsked(u)') \in Int
    BY <2>2, <2>3, <2>4
  <2>7. ASSUME NEW x \in Int, NEW m \in Int, NEW n \in Int, x <= m + HoldTTL, m <= n
        PROVE  x <= n + HoldTTL
    BY <2>7
  <2> HIDE ClockAssumption
  <2> QED BY <2>0, <2>1, <2>2, <2>5, <2>6, <2>7
<1> QED BY <1>6, <1>7 DEF IInv

(* Nobody is asked about anything by a step that leaves the asking alone. *)
LEMMA SameAsked ==
  ASSUME UNCHANGED <<now, asking, askedUntil>>
  PROVE  \A u \in User : LastAsked(u)' = LastAsked(u)
BY DEF LastAsked

(***************************************************************************)
(* The clock and the owners                                                *)
(***************************************************************************)

LEMMA TickKeeps == ASSUME IInv, Tick PROVE IInv'
<1> USE ClockAssumption
<1>1. /\ now < MaxTime
      /\ now' = now + 1
      /\ UNCHANGED <<account, asking, press, sweep, spoiled, askedUntil, pressedAt>>
  BY DEF Tick, history
<1>2. now \in Int /\ now' \in Time /\ now' \in Int
  BY <1>1 DEF IInv, TypeOK, Time
<1>3. TypeOK'
  BY <1>1, <1>2 DEF IInv, TypeOK
<1>4. Remembered'
  BY <1>1, <1>2 DEF IInv, TypeOK, Remembered
<1>5. \A u \in User : LastAsked(u) <= LastAsked(u)'
  BY <1>1, <1>2 DEF IInv, TypeOK, LastAsked, Least
<1> QED BY <1>1, <1>2, <1>3, <1>4, <1>5, NothingBegins

LEMMA AskKeeps == ASSUME IInv, NEW u \in User, AskOwners(u) PROVE IInv'
<1> USE ClockAssumption
<1>1. LastAsked(u) \in Int /\ LastAsked(u) <= now /\ now \in Nat
  BY AskedType DEF IInv
<1>2. TypeOK'
  BY <1>1 DEF IInv, TypeOK, AskOwners
<1>3. Remembered'
  BY <1>1 DEF IInv, TypeOK, Remembered, AskOwners
<1>4. ASSUME NEW v \in User PROVE LastAsked(v) <= LastAsked(v)'
  <2>1. CASE v = u
    <3>1. asking'[u] = now + ProposalTTL /\ now' = now
      BY DEF IInv, TypeOK, AskOwners
    <3>2. asking'[u] # -1 /\ now <= asking'[u]
      BY <1>1, <3>1
    <3>3. LastAsked(u)' = now
      BY <3>1, <3>2 DEF LastAsked, Least, Never
    <3> QED BY <1>1, <2>1, <3>3
  <2>2. CASE v # u
    <3>1. LastAsked(v)' = LastAsked(v)
      BY <2>2 DEF IInv, TypeOK, AskOwners, LastAsked
    <3>2. LastAsked(v) \in Int
      BY AskedType DEF IInv
    <3> QED BY <3>1, <3>2
  <2> QED BY <2>1, <2>2
<1> QED BY <1>1, <1>2, <1>3, <1>4, NothingBegins DEF AskOwners

(* When the asking ends, the instant it ended is what is remembered. *)
LEMMA EndOfAsking ==
  ASSUME IInv, NEW u \in User, now' = now,
         asking' = [asking EXCEPT ![u] = Never],
         askedUntil' = [askedUntil EXCEPT ![u] = LastAsked(u)]
  PROVE  /\ \A v \in User : LastAsked(v) <= LastAsked(v)'
         /\ Remembered'
         /\ asking' \in [User -> Int] /\ askedUntil' \in [User -> Int]
<1>1. \A v \in User : LastAsked(v) \in Int /\ LastAsked(v) <= now /\ now \in Nat
  BY AskedType DEF IInv
<1>2. asking' \in [User -> Int] /\ askedUntil' \in [User -> Int]
  BY <1>1 DEF IInv, TypeOK, Never
<1>3. Remembered'
  BY <1>1 DEF IInv, TypeOK, Remembered
<1>4. ASSUME NEW v \in User PROVE LastAsked(v)' = LastAsked(v)
  <2>1. CASE v = u
    <3>1. asking'[u] = Never /\ askedUntil'[u] = LastAsked(u)
      BY DEF IInv, TypeOK
    <3>2. LastAsked(u)' = askedUntil'[u]
      BY <3>1 DEF LastAsked
    <3> QED BY <2>1, <3>1, <3>2
  <2>2. CASE v # u
    BY <2>2 DEF IInv, TypeOK, LastAsked
  <2> QED BY <2>1, <2>2
<1> QED BY <1>1, <1>2, <1>3, <1>4

LEMMA StopKeeps == ASSUME IInv, NEW u \in User, StopAsking(u) PROVE IInv'
<1>1. /\ \A v \in User : LastAsked(v) <= LastAsked(v)'
      /\ Remembered'
      /\ asking' \in [User -> Int] /\ askedUntil' \in [User -> Int]
  BY EndOfAsking DEF StopAsking
<1>2. TypeOK'
  BY <1>1 DEF IInv, TypeOK, StopAsking
<1>3. now \in Int
  BY DEF IInv, TypeOK, Time
<1> QED BY <1>1, <1>2, <1>3, NothingBegins DEF StopAsking

(***************************************************************************)
(* Verdicts and releases                                                   *)
(***************************************************************************)

Paired(a) == /\ a \in Account
             /\ a.until # Never <=> Held(a)
             /\ a.by # "none" => ~a.active

LEMMA AccountsPaired ==
  ASSUME TypeOK, NEW u \in User
  PROVE  Paired(account[u])
BY DEF TypeOK, Paired

LEMMA SuspendPaired ==
  ASSUME NEW a, Paired(a)
  PROVE  Paired(Suspend(a)) /\ ~Held(Suspend(a))
BY DEF Paired, Account, Suspend, Held, Never

LEMMA EnablePaired ==
  ASSUME NEW a, Paired(a), NEW at \in Int
  PROVE  Paired(Enable(a, at)) /\ ~Held(Enable(a, at))
BY DEF Paired, Account, Enable, Least, Held, Never

LEMMA HoldPaired ==
  ASSUME NEW a, Paired(a), NEW at \in Time
  PROVE  Paired(PlaceHold(a, at)) /\ PlaceHold(a, at).until = at + HoldTTL
BY ClockAssumption DEF Paired, Account, PlaceHold, Held, Never, Time

(* One account is written, and the types hold. *)
LEMMA WriteType ==
  ASSUME TypeOK, NEW u \in User, NEW a, Paired(a), account' = [account EXCEPT ![u] = a]
  PROVE  /\ account' \in [User -> Account]
         /\ \A v \in User : Paired(account'[v])
         /\ \A v \in User : v # u => account'[v] = account[v]
         /\ account'[u] = a
BY AccountsPaired DEF TypeOK, Paired

(* A write that leaves the account unheld, with the asking ended or as it was. *)
LEMMA ReleaseKeeps ==
  ASSUME IInv, NEW u \in User, NEW a, Paired(a), ~Held(a),
         account' = [account EXCEPT ![u] = a],
         UNCHANGED <<now, press, spoiled, pressedAt>>,
         sweep' \in SweepType,
         asking' \in [User -> Int], askedUntil' \in [User -> Int], Remembered',
         \A v \in User : LastAsked(v) <= LastAsked(v)'
  PROVE  IInv'
<1>1. /\ account' \in [User -> Account]
      /\ \A v \in User : Paired(account'[v])
      /\ \A v \in User : v # u => account'[v] = account[v]
      /\ account'[u] = a
  <2>1. TypeOK  BY DEF IInv
  <2> QED BY <2>1, WriteType
<1>2. TypeOK'
  BY <1>1 DEF IInv, TypeOK, Paired
<1>3. \A v \in User : Held(account'[v]) => account'[v] = account[v]
  BY <1>1
<1>4. now' >= now
  BY DEF IInv, TypeOK, Time
<1> QED BY <1>2, <1>3, <1>4, NothingBegins

(* ... when nobody's asking changes. *)
LEMMA LiftKeeps ==
  ASSUME IInv, NEW u \in User, NEW at \in Int,
         account' = [account EXCEPT ![u] = Enable(account[u], at)],
         UNCHANGED <<now, asking, press, spoiled, history>>,
         sweep' \in SweepType
  PROVE  IInv'
<1>1. Paired(account[u])
  BY AccountsPaired DEF IInv
<1>2. Paired(Enable(account[u], at)) /\ ~Held(Enable(account[u], at))
  BY <1>1, EnablePaired
<1>3. \A v \in User : LastAsked(v) \in Int /\ LastAsked(v)' = LastAsked(v)
  BY SameAsked, AskedType DEF IInv, history
<1>4. \A v \in User : LastAsked(v) <= LastAsked(v)'
  BY <1>3
<1>5. Remembered' /\ asking' \in [User -> Int] /\ askedUntil' \in [User -> Int]
  BY DEF IInv, TypeOK, Remembered, history
<1> QED BY <1>2, <1>4, <1>5, ReleaseKeeps DEF history

LEMMA RatifyKeeps == ASSUME IInv, NEW u \in User, Ratify(u) PROVE IInv'
<1>1. Paired(account[u])
  BY AccountsPaired DEF IInv
<1>2. Paired(Suspend(account[u])) /\ ~Held(Suspend(account[u]))
  BY <1>1, SuspendPaired
<1>3. account' = [account EXCEPT ![u] = Suspend(account[u])]
  BY DEF Ratify
<1>4. /\ \A v \in User : LastAsked(v) <= LastAsked(v)'
      /\ Remembered'
      /\ asking' \in [User -> Int] /\ askedUntil' \in [User -> Int]
  BY EndOfAsking DEF Ratify
<1>5. sweep' \in SweepType
  BY DEF IInv, TypeOK, Ratify
<1> QED BY <1>2, <1>3, <1>4, <1>5, ReleaseKeeps DEF Ratify

LEMMA LiftedByPeople ==
  ASSUME IInv, NEW u \in User, Pardon(u) \/ Reinstate(u)
  PROVE  IInv'
<1>1. account' = [account EXCEPT ![u] = Enable(account[u], now)]
  BY DEF Pardon, Reinstate
<1>2. now \in Int /\ sweep' \in SweepType
  BY DEF IInv, TypeOK, Time, Pardon, Reinstate
<1> QED BY <1>1, <1>2, LiftKeeps DEF Pardon, Reinstate

(***************************************************************************)
(* The sweep, the process and the table                                    *)
(***************************************************************************)

(* A step that writes no account and asks nobody. *)
LEMMA AccountsStand ==
  ASSUME IInv, UNCHANGED <<now, account, asking, history>>,
         \A p \in Press : press'[p] = press[p] \/ press'[p] = Free,
         press' \in [Press -> PressType],
         sweep' \in SweepType, spoiled' \subseteq Spoilable
  PROVE  IInv'
<1>1. TypeOK'
  BY DEF IInv, TypeOK, history
<1>2. Remembered'
  BY DEF IInv, Remembered, history
<1>3. \A v \in User : LastAsked(v) \in Int /\ LastAsked(v)' = LastAsked(v)
  BY SameAsked, AskedType DEF IInv, history
<1>4. \A v \in User : LastAsked(v) <= LastAsked(v)'
  BY <1>3
<1>5. now' >= now
  BY DEF IInv, TypeOK, Time
<1> QED BY <1>1, <1>2, <1>4, <1>5, NothingBegins DEF history

LEMMA RestingType == Resting \in SweepType
BY DEF Resting, SweepType, Never

LEMMA SweepOneKeeps == ASSUME IInv, NEW u \in User, SweepOne(u) PROVE IInv'
<1>1. sweep \in SweepType /\ sweep.at \in Int
  BY DEF IInv, TypeOK, SweepType
<1>2. sweep' \in SweepType
  BY <1>1, RestingType DEF SweepOne, SweepType
<1>3. CASE MayLapse(account[u], sweep.at)
  BY <1>1, <1>2, <1>3, LiftKeeps DEF SweepOne
<1>4. CASE ~MayLapse(account[u], sweep.at)
  <2>1. press' \in [Press -> PressType] /\ spoiled' \subseteq Spoilable
    BY DEF IInv, TypeOK, SweepOne
  <2> QED BY <1>2, <1>4, <2>1, AccountsStand DEF SweepOne
<1> QED BY <1>3, <1>4

LEMMA ScanKeeps == ASSUME IInv, Scan PROVE IInv'
<1>1. \A u \in User : account[u].until \in Int
  BY DEF IInv, TypeOK, Account
<1>2. now \in Int /\ DueFound(now) \subseteq User
  BY DEF IInv, TypeOK, Time, DueFound
<1>3. sweep' \in SweepType
  BY <1>1, <1>2 DEF Scan, SweepType
<1>4. press' \in [Press -> PressType] /\ spoiled' \subseteq Spoilable
  BY DEF IInv, TypeOK, Scan
<1> QED BY <1>3, <1>4, AccountsStand DEF Scan

LEMMA PassEnds == ASSUME IInv, NEW u \in User, SweepAborts(u) PROVE IInv'
<1>1. press' \in [Press -> PressType] /\ spoiled' \subseteq Spoilable
  BY DEF IInv, TypeOK, SweepAborts
<1> QED BY <1>1, RestingType, AccountsStand DEF SweepAborts

LEMMA SpoilKeeps == ASSUME IInv, NEW u \in User, RowSpoils(u) PROVE IInv'
<1>1. press' \in [Press -> PressType] /\ spoiled' \subseteq Spoilable /\ sweep' \in SweepType
  BY DEF IInv, TypeOK, RowSpoils
<1> QED BY <1>1, AccountsStand DEF RowSpoils

LEMMA FreeType == Free \in PressType
BY DEF Free, PressType

LEMMA RestartKeeps == ASSUME IInv, Restart PROVE IInv'
<1>1. press' \in [Press -> PressType] /\ \A p \in Press : press'[p] = Free
  BY FreeType DEF Restart
<1>2. spoiled' \subseteq Spoilable /\ sweep' \in SweepType
  BY RestingType DEF IInv, TypeOK, Restart
<1> QED BY <1>1, <1>2, AccountsStand DEF Restart

(***************************************************************************)
(* The request to hold                                                     *)
(***************************************************************************)

LEMMA FailKeeps == ASSUME IInv, NEW p \in Press, HoldFails(p) PROVE IInv'
<1>1. press' \in [Press -> PressType]
  BY FreeType DEF IInv, TypeOK, HoldFails
<1>2. \A q \in Press : press'[q] = press[q] \/ press'[q] = Free
  BY DEF IInv, TypeOK, HoldFails
<1>3. spoiled' \subseteq Spoilable /\ sweep' \in SweepType
  BY DEF IInv, TypeOK, HoldFails
<1> QED BY <1>1, <1>2, <1>3, AccountsStand DEF HoldFails

(* A request steps forward: what it rests on must be shown, nothing else moves. *)
LEMMA RequestSteps ==
  ASSUME IInv, NEW p \in Press, NEW r \in PressType,
         press' = [press EXCEPT ![p] = r],
         UNCHANGED <<now, account, asking, sweep, spoiled, history>>,
         r # Free => r.at <= now,
         r.phase = "deciding" /\ r.pending => r.at <= LastAsked(r.user)
  PROVE  IInv'
<1>1. TypeOK'
  BY DEF IInv, TypeOK, history
<1>2. Remembered'
  BY DEF IInv, Remembered, history
<1>3. \A v \in User : LastAsked(v)' = LastAsked(v)
  BY SameAsked DEF history
<1>4. press'[p] = r /\ \A q \in Press : q # p => press'[q] = press[q]
  BY DEF IInv, TypeOK
<1>5. Grounded'
  <2>1. ASSUME NEW q \in Press, press'[q] # Free PROVE press'[q].at <= now'
    BY <1>4, <2>1 DEF IInv, Grounded
  <2>2. ASSUME NEW q \in Press, NEW u \in User, Deciding(q)', press'[q].pending, press'[q].user = u
        PROVE  press'[q].at <= LastAsked(u)'
    <3>1. CASE q = p
      BY <1>3, <1>4, <2>2, <3>1 DEF Deciding
    <3>2. CASE q # p
      <4>1. press'[q] = press[q]
        BY <1>4, <3>2
      <4>2. press[q].at <= LastAsked(u)
        BY <2>2, <4>1 DEF IInv, Grounded, Deciding
      <4> QED BY <1>3, <4>1, <4>2
    <3> QED BY <3>1, <3>2
  <2> QED BY <2>1, <2>2 DEF Grounded
<1>6. HoldLapsesUnlessAsked'
  BY <1>3 DEF IInv, HoldLapsesUnlessAsked, history
<1> QED BY <1>1, <1>2, <1>5, <1>6 DEF IInv

LEMMA PressKeeps == ASSUME IInv, NEW p \in Press, NEW u \in User, PressHold(p, u) PROVE IInv'
<1> DEFINE r == [phase |-> "waiting", user |-> u, at |-> now]
<1>1. now \in Time /\ now <= now
  BY DEF IInv, TypeOK, Time
<1>2. r \in PressType
  BY <1>1 DEF PressType
<1>3. press' = [press EXCEPT ![p] = r] /\ r.phase = "waiting" /\ r.at <= now
  BY <1>1 DEF PressHold
<1> HIDE DEF r
<1> QED BY <1>2, <1>3, RequestSteps DEF PressHold

(* What is open by the request's clock was asked about no earlier than that. *)
LEMMA LockKeeps == ASSUME IInv, NEW p \in Press, LockAccount(p) PROVE IInv'
<1> DEFINE u == press[p].user
           pending == asking[u] # Never /\ press[p].at < asking[u]
           r == [phase |-> "deciding", user |-> u, at |-> press[p].at, pending |-> pending]
<1>1. u \in User /\ press[p].at \in Time /\ press[p] # Free
  BY DEF IInv, TypeOK, PressType, Free, LockAccount
<1>2. press[p].at <= now
  BY <1>1 DEF IInv, Grounded
<1>3. pending \in BOOLEAN
  OBVIOUS
<1>4. r \in PressType
  BY <1>1, <1>3 DEF PressType
<1>5. pending => press[p].at <= LastAsked(u)
  BY <1>1, <1>2 DEF IInv, TypeOK, Time, LastAsked, Least
<1>6. press' = [press EXCEPT ![p] = r]
  BY DEF LockAccount
<1>7. /\ r # Free => r.at <= now
      /\ r.phase = "deciding" /\ r.pending => r.at <= LastAsked(r.user)
  BY <1>2, <1>5
<1> HIDE DEF r
<1> QED BY <1>4, <1>6, <1>7, RequestSteps DEF LockAccount

LEMMA CommitKeeps == ASSUME IInv, NEW p \in Press, HoldCommits(p) PROVE IInv'
<1> USE ClockAssumption
<1> DEFINE r == press[p]
           u == press[p].user
<1>1. u \in User /\ r.at \in Time /\ r.at \in Int /\ r.pending \in BOOLEAN /\ r # Free
  BY DEF IInv, TypeOK, PressType, Free, HoldCommits, Time
<1>2. /\ r.phase = "deciding"
      /\ account' = [account EXCEPT ![u] = PlaceHold(account[u], r.at)]
      /\ pressedAt' = IF r.pending THEN pressedAt ELSE [pressedAt EXCEPT ![u] = r.at]
      /\ press' = [press EXCEPT ![p] = Free]
      /\ UNCHANGED <<now, asking, sweep, spoiled, askedUntil>>
  BY DEF HoldCommits
<1>3. Paired(PlaceHold(account[u], r.at)) /\ PlaceHold(account[u], r.at).until = r.at + HoldTTL
  <2>1. Paired(account[u])
    BY <1>1, AccountsPaired DEF IInv
  <2> QED BY <1>1, <2>1, HoldPaired
<1>4. /\ account' \in [User -> Account]
      /\ \A v \in User : Paired(account'[v])
      /\ \A v \in User : v # u => account'[v] = account[v]
      /\ account'[u] = PlaceHold(account[u], r.at)
  <2>1. TypeOK  BY DEF IInv
  <2> HIDE DEF r
  <2> QED BY <1>1, <1>2, <1>3, <2>1, WriteType
<1>5. pressedAt' \in [User -> Int] /\ \A v \in User : v # u => pressedAt'[v] = pressedAt[v]
  BY <1>1, <1>2 DEF IInv, TypeOK
<1>6. press' \in [Press -> PressType] /\ \A q \in Press : press'[q] = press[q] \/ press'[q] = Free
  BY <1>2, FreeType DEF IInv, TypeOK
<1>7. TypeOK'
  <2> HIDE DEF r, u
  <2> QED BY <1>2, <1>4, <1>5, <1>6 DEF IInv, TypeOK, Paired
<1>8. Remembered'
  BY <1>2 DEF IInv, Remembered
<1>9. \A v \in User : LastAsked(v) \in Int /\ LastAsked(v)' = LastAsked(v)
  BY <1>2, SameAsked, AskedType DEF IInv
<1>10. Grounded'
  <2>1. ASSUME NEW q \in Press, press'[q] # Free PROVE press'[q].at <= now'
    BY <1>2, <1>6, <2>1 DEF IInv, Grounded
  <2>2. ASSUME NEW q \in Press, NEW v \in User, Deciding(q)', press'[q].pending, press'[q].user = v
        PROVE  press'[q].at <= LastAsked(v)'
    <3>1. press'[q] = press[q]
      BY <1>6, <2>2 DEF Deciding, Free
    <3>2. press[q].at <= LastAsked(v)
      BY <2>2, <3>1 DEF IInv, Grounded, Deciding
    <3> QED BY <1>9, <3>1, <3>2
  <2> QED BY <2>1, <2>2 DEF Grounded
<1>11. ASSUME NEW v \in User, Held(account'[v])
       PROVE  account'[v].until <= Most(pressedAt'[v], LastAsked(v)') + HoldTTL
  <2>1. CASE v # u
    BY <1>4, <1>5, <1>9, <1>11, <2>1 DEF IInv, HoldLapsesUnlessAsked
  <2>2. CASE v = u /\ r.pending
    <3>1. r.at <= LastAsked(v)' /\ LastAsked(v)' \in Int
      BY <1>1, <1>2, <1>9, <2>2 DEF IInv, Grounded, Deciding
    <3>2. pressedAt'[v] \in Int
      BY <1>1, <1>5
    <3>3. r.at <= Most(pressedAt'[v], LastAsked(v)') /\ Most(pressedAt'[v], LastAsked(v)') \in Int
      BY <1>1, <3>1, <3>2 DEF Most
    <3> QED BY <1>1, <1>3, <1>4, <2>2, <3>3
  <2>3. CASE v = u /\ ~r.pending
    <3>1. pressedAt'[v] = r.at
      BY <1>1, <1>2, <2>3 DEF IInv, TypeOK
    <3>2. LastAsked(v)' \in Int
      BY <1>1, <1>9
    <3>3. r.at <= Most(pressedAt'[v], LastAsked(v)') /\ Most(pressedAt'[v], LastAsked(v)') \in Int
      BY <1>1, <3>1, <3>2 DEF Most
    <3> QED BY <1>1, <1>3, <1>4, <2>3, <3>3
  <2> QED BY <2>1, <2>2, <2>3
<1>12. HoldLapsesUnlessAsked'
  BY <1>11 DEF HoldLapsesUnlessAsked
<1> QED BY <1>7, <1>8, <1>10, <1>12 DEF IInv

(***************************************************************************)
(* Every step                                                              *)
(***************************************************************************)

LEMMA StepInvariant == ASSUME IInv, [Next]_vars PROVE IInv'
<1>1. CASE Tick  BY <1>1, TickKeeps
<1>2. CASE Scan  BY <1>2, ScanKeeps
<1>3. CASE Restart  BY <1>3, RestartKeeps
<1>4. CASE \E u \in User : AskOwners(u) \/ StopAsking(u) \/ Ratify(u) \/ Pardon(u) \/ Reinstate(u)
  BY <1>4, AskKeeps, StopKeeps, RatifyKeeps, LiftedByPeople
<1>5. CASE \E u \in User : SweepOne(u) \/ SweepAborts(u) \/ RowSpoils(u)
  BY <1>5, SweepOneKeeps, PassEnds, SpoilKeeps
<1>6. CASE \E p \in Press : (\E u \in User : PressHold(p, u)) \/ LockAccount(p) \/ HoldCommits(p) \/ HoldFails(p)
  BY <1>6, PressKeeps, LockKeeps, CommitKeeps, FailKeeps
<1>7. CASE UNCHANGED vars
  BY <1>7 DEF vars, IInv, TypeOK, Grounded, Remembered, HoldLapsesUnlessAsked, LastAsked, Deciding
<1> QED BY <1>1, <1>2, <1>3, <1>4, <1>5, <1>6, <1>7 DEF Next

LEMMA Invariance == Spec => []IInv
<1>1. Init => IInv
  BY InitInvariant
<1>2. IInv /\ [Next]_vars => IInv'
  BY StepInvariant
<1> QED BY <1>1, <1>2, PTL DEF Spec

(***************************************************************************)
(* The columns of an account always tell one story: a deadline exactly     *)
(* while it is held, a cause only while it is disabled (suspend_as and     *)
(* enable are the only writers).                                           *)
(***************************************************************************)
THEOREM TypeCorrect == Spec => []TypeOK
<1>1. IInv => TypeOK
  BY DEF IInv
<1> QED BY <1>1, Invariance, PTL

(***************************************************************************)
(* However holds are renewed, and from however stale a reading of the      *)
(* proposals, no hold outlives one HoldTTL after its press or after the    *)
(* last instant the owners were being asked (User::hold).                  *)
(***************************************************************************)
THEOREM BrakeIsNoSuspension == Spec => []HoldLapsesUnlessAsked
<1>1. IInv => HoldLapsesUnlessAsked
  BY DEF IInv
<1> QED BY <1>1, Invariance, PTL

(***************************************************************************)
(* The owners' verdict yields to the owners alone: neither a hold, nor its *)
(* lapse, nor one operator ever touches it.                                *)
(***************************************************************************)
THEOREM VerdictHolds == Spec => VerdictStands
<1>1. ASSUME IInv, [Next]_vars, NEW u \in User, Sentenced(account[u])
      PROVE  Sentenced(account'[u]) \/ Pardon(u)
  <2>1. account \in [User -> Account]
    BY <1>1 DEF IInv, TypeOK
  <2>2. ~Held(account[u])
    BY <1>1 DEF Sentenced, Held
  <2>3. CASE UNCHANGED account
    BY <1>1, <2>3
  <2>4. ASSUME NEW v \in User, Ratify(v) PROVE Sentenced(account'[u])
    BY <1>1, <2>1, <2>4 DEF Ratify, Suspend, Sentenced
  <2>5. ASSUME NEW v \in User, Pardon(v) PROVE Sentenced(account'[u]) \/ Pardon(u)
    BY <1>1, <2>1, <2>5 DEF Pardon
  <2>6. ASSUME NEW v \in User, Reinstate(v) PROVE Sentenced(account'[u])
    BY <1>1, <2>1, <2>6 DEF Reinstate
  <2>7. ASSUME NEW v \in User, SweepOne(v) PROVE Sentenced(account'[u])
    BY <1>1, <2>1, <2>2, <2>7 DEF SweepOne, MayLapse
  <2>8. ASSUME NEW p \in Press, HoldCommits(p) PROVE Sentenced(account'[u])
    BY <1>1, <2>1, <2>8 DEF HoldCommits, MayHold
  <2>9. CASE UNCHANGED vars
    BY <2>3, <2>9 DEF vars
  <2>10. CASE \/ Tick \/ Scan \/ Restart
              \/ \E v \in User : AskOwners(v) \/ StopAsking(v) \/ SweepAborts(v) \/ RowSpoils(v)
              \/ \E p \in Press : (\E v \in User : PressHold(p, v)) \/ LockAccount(p) \/ HoldFails(p)
    BY <2>3, <2>10 DEF Tick, Scan, Restart, AskOwners, StopAsking, SweepAborts, RowSpoils,
                        PressHold, LockAccount, HoldFails
  <2> QED BY <1>1, <2>4, <2>5, <2>6, <2>7, <2>8, <2>9, <2>10 DEF Next
<1>2. IInv /\ [Next]_vars =>
        [\A u \in User : Sentenced(account[u]) => (Sentenced(account'[u]) \/ Pardon(u))]_vars
  BY <1>1
<1> QED BY <1>2, Invariance, PTL DEF Spec, VerdictStands

(***************************************************************************)
(* The cooldown.  A press the owners were not asked about is followed by   *)
(* the true end of its hold or by an asking, because a request waits for   *)
(* less than one HoldTTL (Patient) and so never renews into the past.      *)
(***************************************************************************)
Patient == \A p \in Press : press[p] # Free => now <= press[p].at + Patience

Answered(u) ==
  \/ LastAsked(u) >= pressedAt[u]
  \/ Held(account[u]) /\ account[u].until >= pressedAt[u]
  \/ account[u].by = "none" /\ account[u].ended >= pressedAt[u]

SpacedAt(u) ==
  /\ Never <= pressedAt[u] /\ pressedAt[u] <= now
  /\ pressedAt[u] # Never => Answered(u)

Spaced == \A u \in User : SpacedAt(u)

LEMMA AskedMonotone ==
  ASSUME IInv, [Next]_vars, NEW u \in User
  PROVE  LastAsked(u) <= LastAsked(u)' /\ LastAsked(u)' \in Int /\ LastAsked(u) \in Int
<1> USE ClockAssumption
<1>1. LastAsked(u) \in Int /\ LastAsked(u) <= now /\ now \in Nat
  BY AskedType DEF IInv
<1>2. LastAsked(u)' \in Int
  <2>1. IInv'  BY StepInvariant
  <2> QED BY <2>1 DEF IInv, TypeOK, LastAsked, Least, Time
<1>3. CASE Tick
  BY <1>1, <1>3 DEF IInv, TypeOK, Tick, history, LastAsked, Least, Never
<1>4. ASSUME NEW v \in User, AskOwners(v) PROVE LastAsked(u) <= LastAsked(u)'
  <2>1. CASE v = u
    <3>1. asking'[u] = now + ProposalTTL /\ now' = now
      BY <1>4, <2>1 DEF IInv, TypeOK, AskOwners
    <3>2. asking'[u] # -1 /\ now <= asking'[u]
      BY <1>1, <3>1
    <3>3. LastAsked(u)' = now
      BY <3>1, <3>2 DEF LastAsked, Least, Never
    <3> QED BY <1>1, <3>3
  <2>2. CASE v # u
    <3>1. LastAsked(u)' = LastAsked(u)
      BY <1>4, <2>2 DEF IInv, TypeOK, AskOwners, LastAsked
    <3> QED BY <1>1, <3>1
  <2> QED BY <2>1, <2>2
<1>5. ASSUME NEW v \in User, StopAsking(v) \/ Ratify(v) PROVE LastAsked(u) <= LastAsked(u)'
  BY <1>5, EndOfAsking DEF StopAsking, Ratify
<1>6. CASE UNCHANGED <<now, asking, askedUntil>>
  BY <1>1, <1>6 DEF LastAsked
<1>7. CASE \/ Scan \/ Restart \/ UNCHANGED vars
           \/ \E v \in User : Pardon(v) \/ Reinstate(v) \/ SweepOne(v) \/ SweepAborts(v) \/ RowSpoils(v)
           \/ \E p \in Press : (\E v \in User : PressHold(p, v)) \/ LockAccount(p) \/ HoldCommits(p) \/ HoldFails(p)
  BY <1>6, <1>7 DEF vars, history, Scan, Restart, Pardon, Reinstate, SweepOne, SweepAborts, RowSpoils,
                     PressHold, LockAccount, HoldCommits, HoldFails
<1> QED BY <1>1, <1>2, <1>3, <1>4, <1>5, <1>7 DEF Next

LEMMA PatientStep == ASSUME IInv, Patient, [Next]_vars PROVE Patient'
<1> USE ClockAssumption
<1>1. now \in Nat /\ \A p \in Press : press[p] # Free => press[p].at \in Nat
  BY DEF IInv, TypeOK, Time, PressType, Free
<1>2. CASE Tick
  BY <1>1, <1>2 DEF Tick, Patient
<1>3. ASSUME NEW p \in Press, NEW u \in User, PressHold(p, u) PROVE Patient'
  BY <1>1, <1>3 DEF PressHold, Patient, IInv, TypeOK
<1>4. ASSUME NEW p \in Press, LockAccount(p) PROVE Patient'
  <2>1. press[p] # Free
    BY <1>4 DEF LockAccount, Free
  <2>2. \A q \in Press : press'[q] # Free => press[q] # Free /\ press'[q].at = press[q].at
    BY <1>4, <2>1 DEF LockAccount, IInv, TypeOK
  <2>3. now' = now
    BY <1>4 DEF LockAccount
  <2> QED BY <2>2, <2>3 DEF Patient
<1>5. ASSUME NEW p \in Press, HoldCommits(p) \/ HoldFails(p) PROVE Patient'
  BY <1>5 DEF HoldCommits, HoldFails, Patient, IInv, TypeOK
<1>6. CASE Restart
  BY <1>6 DEF Restart, Patient
<1>7. CASE UNCHANGED <<now, press>>
  BY <1>7 DEF Patient
<1>8. CASE \/ Scan \/ UNCHANGED vars
           \/ \E v \in User : \/ AskOwners(v) \/ StopAsking(v) \/ Ratify(v) \/ Pardon(v) \/ Reinstate(v)
                              \/ SweepOne(v) \/ SweepAborts(v) \/ RowSpoils(v)
  BY <1>7, <1>8 DEF vars, Scan, AskOwners, StopAsking, Ratify, Pardon, Reinstate, SweepOne, SweepAborts, RowSpoils
<1> QED BY <1>2, <1>3, <1>4, <1>5, <1>6, <1>8 DEF Next

(* An account nobody is pressing on stays answered for when it is lifted. *)
LEMMA LiftedIsAnswered ==
  ASSUME IInv, Spaced, NEW u \in User, pressedAt[u] # Never, NEW at \in Int,
         Held(account[u]) => (at >= pressedAt[u]),
         account'[u] = Enable(account[u], at), pressedAt'[u] = pressedAt[u],
         LastAsked(u)' >= LastAsked(u), LastAsked(u)' \in Int, LastAsked(u) \in Int
  PROVE  Answered(u)'
<1>1. Answered(u) /\ pressedAt[u] \in Int /\ account[u] \in Account
  BY DEF Spaced, SpacedAt, IInv, TypeOK
<1>2. account[u].until \in Int /\ account[u].ended \in Int
  BY <1>1 DEF Account
<1>3. CASE LastAsked(u) >= pressedAt[u]
  BY <1>1, <1>3 DEF Answered
<1>4. CASE Held(account[u]) /\ account[u].until >= pressedAt[u]
  BY <1>1, <1>2, <1>4 DEF Answered, Enable, Least, Held
<1>5. CASE account[u].by = "none" /\ account[u].ended >= pressedAt[u]
  BY <1>1, <1>2, <1>5 DEF Answered, Enable, Held
<1> QED BY <1>1, <1>3, <1>4, <1>5 DEF Answered

LEMMA SpacedStep == ASSUME IInv, Patient, Spaced, [Next]_vars PROVE Spaced'
<1> USE ClockAssumption
<1> SUFFICES ASSUME NEW u \in User
             PROVE  SpacedAt(u)'
  BY DEF Spaced
<1>1. LastAsked(u) <= LastAsked(u)' /\ LastAsked(u)' \in Int /\ LastAsked(u) \in Int
  BY AskedMonotone
<1>2. /\ pressedAt[u] \in Int /\ now \in Nat /\ account[u] \in Account /\ pressedAt[u] <= now /\ Never <= pressedAt[u]
      /\ account[u].until \in Int /\ account[u].ended \in Int
      /\ pressedAt[u] # Never => Answered(u)
  BY DEF IInv, TypeOK, Time, Account, Spaced, SpacedAt
<1>3. ASSUME account'[u] = account[u], pressedAt'[u] = pressedAt[u], now' >= now, now' \in Int
      PROVE  SpacedAt(u)'
  BY <1>1, <1>2, <1>3 DEF SpacedAt, Answered, Never
<1>4. CASE \/ Tick \/ Scan \/ Restart \/ UNCHANGED vars
           \/ \E v \in User : AskOwners(v) \/ StopAsking(v) \/ SweepAborts(v) \/ RowSpoils(v)
           \/ \E p \in Press : (\E v \in User : PressHold(p, v)) \/ LockAccount(p) \/ HoldFails(p)
  <2>1. account' = account /\ pressedAt' = pressedAt /\ (now' = now \/ now' = now + 1)
    BY <1>4 DEF vars, history, Tick, Scan, Restart, AskOwners, StopAsking, SweepAborts, RowSpoils,
                PressHold, LockAccount, HoldFails
  <2> QED BY <1>2, <1>3, <2>1
<1>5. ASSUME NEW v \in User, Ratify(v)
      PROVE  SpacedAt(u)'
  <2>1. now' = now /\ pressedAt' = pressedAt
    BY <1>5 DEF Ratify
  <2>2. CASE v # u
    <3>1. account'[u] = account[u]
      BY <1>5, <2>2 DEF Ratify, IInv, TypeOK
    <3> QED BY <1>2, <1>3, <2>1, <3>1
  <2>3. CASE v = u
    <3>1. asking'[u] = Never /\ askedUntil'[u] = LastAsked(u)
      BY <1>5, <2>3 DEF Ratify, IInv, TypeOK
    <3>2. LastAsked(u) = now
      BY <1>2, <1>5, <2>3 DEF Ratify, Live, LastAsked, Least, IInv, TypeOK
    <3>3. LastAsked(u)' = now
      BY <3>1, <3>2 DEF LastAsked
    <3> QED BY <1>2, <2>1, <3>3 DEF SpacedAt, Answered
  <2> QED BY <2>2, <2>3
<1>6. ASSUME NEW v \in User, Pardon(v) \/ Reinstate(v)
      PROVE  SpacedAt(u)'
  <2>1. now' = now /\ pressedAt' = pressedAt
    BY <1>6 DEF Pardon, Reinstate, history
  <2>2. CASE v # u
    <3>1. account'[u] = account[u]
      BY <1>6, <2>2 DEF Pardon, Reinstate, IInv, TypeOK
    <3> QED BY <1>2, <1>3, <2>1, <3>1
  <2>3. CASE v = u
    <3>1. account'[u] = Enable(account[u], now)
      BY <1>6, <2>3 DEF Pardon, Reinstate, IInv, TypeOK
    <3> QED BY <1>1, <1>2, <2>1, <3>1, LiftedIsAnswered DEF SpacedAt
  <2> QED BY <2>2, <2>3
<1>7. ASSUME NEW v \in User, SweepOne(v)
      PROVE  SpacedAt(u)'
  <2>1. now' = now /\ pressedAt' = pressedAt
    BY <1>7 DEF SweepOne, history
  <2>2. CASE account'[u] = account[u]
    BY <1>2, <1>3, <2>1, <2>2
  <2>3. CASE v = u /\ MayLapse(account[u], sweep.at)
    <3>1. account'[u] = Enable(account[u], sweep.at)
      BY <1>7, <2>3 DEF SweepOne, IInv, TypeOK
    <3>2. sweep.at \in Int /\ sweep.at >= account[u].until
      BY <2>3 DEF MayLapse, IInv, TypeOK, SweepType
    <3>3. CASE sweep.at >= pressedAt[u]
      BY <1>1, <1>2, <2>1, <3>1, <3>2, <3>3, LiftedIsAnswered DEF SpacedAt
    <3>4. CASE ~(sweep.at >= pressedAt[u])
      <4>1. ~(account[u].until >= pressedAt[u])
        BY <1>2, <3>2, <3>4
      <4>2. pressedAt[u] # Never => LastAsked(u) >= pressedAt[u]
        BY <1>2, <2>3, <4>1 DEF Answered, MayLapse, Held
      <4> QED BY <1>1, <1>2, <2>1, <4>2 DEF SpacedAt, Answered
    <3> QED BY <3>3, <3>4
  <2> QED BY <1>7, <2>2, <2>3 DEF SweepOne, IInv, TypeOK
<1>8. ASSUME NEW p \in Press, HoldCommits(p)
      PROVE  SpacedAt(u)'
  <2>1. /\ now' = now
        /\ press[p].user \in User /\ press[p].at \in Nat /\ press[p].pending \in BOOLEAN
        /\ press[p] # Free
    BY <1>8 DEF HoldCommits, IInv, TypeOK, PressType, Time, Free
  <2>2. press[p].at <= now /\ now <= press[p].at + Patience
    BY <2>1 DEF IInv, Grounded, Patient
  <2>3. CASE press[p].user # u
    <3>1. account'[u] = account[u] /\ pressedAt'[u] = pressedAt[u]
      BY <1>8, <2>1, <2>3 DEF HoldCommits, IInv, TypeOK
    <3> QED BY <1>2, <1>3, <2>1, <3>1
  <2>4. CASE press[p].user = u
    <3>1. account'[u] = PlaceHold(account[u], press[p].at)
      BY <1>8, <2>4 DEF HoldCommits, IInv, TypeOK
    <3>2. pressedAt'[u] = pressedAt[u] \/ pressedAt'[u] = press[p].at
      BY <1>8, <2>4 DEF HoldCommits, IInv, TypeOK
    <3>3. Held(account'[u]) /\ account'[u].until = press[p].at + HoldTTL
      BY <3>1 DEF PlaceHold, Held
    <3>4. pressedAt'[u] \in Int /\ pressedAt'[u] <= now /\ Never <= pressedAt'[u]
      BY <1>2, <2>1, <2>2, <3>2 DEF Never
    <3>5. account'[u].until >= pressedAt'[u]
      BY <2>1, <2>2, <1>2, <3>3, <3>4
    <3> QED BY <2>1, <3>3, <3>4, <3>5 DEF SpacedAt, Answered
  <2> QED BY <2>3, <2>4
<1> QED BY <1>4, <1>5, <1>6, <1>7, <1>8 DEF Next

(***************************************************************************)
(* Holds the owners were not asked about lie a cooldown apart, counted     *)
(* from the true end of the first, whichever clock each of the requests,   *)
(* the sweep and the proposals went by (HOLD_COOLDOWN_SECS).               *)
(***************************************************************************)
THEOREM HoldsAreSpaced == Spec => FreshHoldsAreSpaced
<1> DEFINE Apart ==
      \A u \in User :
        /\ pressedAt'[u] # pressedAt[u] /\ pressedAt[u] # Never
        => \/ LastAsked(u) >= pressedAt[u]
           \/ /\ account[u].ended >= pressedAt[u]
              /\ pressedAt'[u] >= account[u].ended + Cooldown
<1>1. Init => Patient /\ Spaced
  BY DEF Init, Patient, Spaced, SpacedAt, Never
<1>2. IInv /\ Patient /\ Spaced /\ [Next]_vars => (Patient /\ Spaced)'
  BY PatientStep, SpacedStep
<1>3. ASSUME IInv, Spaced, Next PROVE Apart
  <2> SUFFICES ASSUME NEW u \in User, pressedAt'[u] # pressedAt[u], pressedAt[u] # Never,
                      ~(LastAsked(u) >= pressedAt[u])
               PROVE  account[u].ended >= pressedAt[u] /\ pressedAt'[u] >= account[u].ended + Cooldown
    OBVIOUS
  <2>1. PICK p \in Press : HoldCommits(p)
    BY <1>3 DEF Next, history, Tick, Scan, Restart, AskOwners, StopAsking, Ratify, Pardon, Reinstate,
                SweepOne, SweepAborts, RowSpoils, PressHold, LockAccount, HoldFails
  <2>2. press[p].user = u /\ ~press[p].pending /\ pressedAt'[u] = press[p].at
    BY <1>3, <2>1 DEF HoldCommits, IInv, TypeOK
  <2>3. MayHold(account[u], press[p].at, press[p].pending)
    BY <2>1, <2>2 DEF HoldCommits
  <2>4. ~Held(account[u]) /\ (account[u].ended = Never \/ press[p].at >= account[u].ended + Cooldown)
    BY <2>2, <2>3 DEF MayHold
  <2>5. account[u].ended >= pressedAt[u]
    BY <1>3, <2>4 DEF Spaced, SpacedAt, Answered
  <2>6. account[u].ended # Never
    <3>1. Never <= pressedAt[u] /\ pressedAt[u] \in Int /\ account[u].ended \in Int
      BY <1>3 DEF Spaced, SpacedAt, IInv, TypeOK, Account
    <3> QED BY <2>5, <3>1 DEF Never
  <2> QED BY <2>2, <2>4, <2>5, <2>6
<1>4. IInv /\ Spaced /\ [Next]_vars => [Apart]_vars
  BY <1>3
<1> QED BY <1>1, <1>2, <1>4, Invariance, PTL DEF Spec, FreshHoldsAreSpaced
=============================================================================
