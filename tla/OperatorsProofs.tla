---------------------------- MODULE OperatorsProofs ----------------------------
(***************************************************************************)
(* Theorems about Console and about LockOrder, for any accounts, requests, *)
(* connections and bounds.                                                 *)
(*                                                                         *)
(* Of the console: a request past the gate was entitled once (Earned), an  *)
(* emergency access only because an empty register was empty all along;    *)
(* and whoever is about to commit a hold is not held by its target         *)
(* (Undecided), because that hold would have met the row he has locked.    *)
(*                                                                         *)
(* Of the locks: whatever is held was granted after everything its         *)
(* transaction asks for before it (GrantedInOrder), so along a circle of   *)
(* waits the Rank of the lock asked for would rise for ever.               *)
(***************************************************************************)
EXTENDS Console, LockOrder, FiniteSetTheorems, SequenceTheorems, WellFoundedInduction, TLAPS

(***************************************************************************)
(* What each variable of the console may hold                              *)
(***************************************************************************)
Standing ==
  [role : Role, active : BOOLEAN, by : {"none", "hold", "owners"}, holder : Account \union {Nobody},
   version : Nat, level : Nat]

Asked ==
  [step : {"gated", "permitted", "acting", "locked", "deciding"}, caller : Account, verb : Verb,
   target : Rows, version : Nat, role : Role \union {"stranger"}]

LevelsRow == [user : Account, from : Nat, to : Nat, by : Account \union {Vendor}]

ConsoleTyped ==
  /\ record \in [Account -> Standing]
  /\ sealed \in BOOLEAN /\ maintenance \in BOOLEAN
  /\ desk \in [Desk -> {Waiting} \union Asked]
  /\ levels \in Seq(LevelsRow)
  /\ entitled \in [Desk -> BOOLEAN]
  /\ acts \in Nat

(* Whoever is held is not active, and nobody holds a stranger. *)
HeldAreFrozen == \A u \in Account : record[u].holder # Nobody => u \in Rows /\ ~record[u].active

(* Past the gate, a request was entitled; at the gate, it was if its role or an empty register says so. *)
Earned ==
  \A d \in Desk :
    /\ desk[d].step \in {"permitted", "acting", "locked", "deciding"} => entitled[d]
    /\ desk[d].step = "gated" =>
         /\ desk[d].role = "stranger" <=> desk[d].caller \notin Rows
         /\ May(desk[d].role, desk[d].verb) => entitled[d]
         /\ desk[d].caller \in Listed /\ Owners = {} => entitled[d]

(* Nobody is about to hold whoever holds him, nor himself. *)
Undecided ==
  \A d \in Desk :
    /\ desk[d].step \in {"locked", "deciding"} => desk[d].target # desk[d].caller
    /\ desk[d].step = "deciding" => record[desk[d].caller].holder # desk[d].target

ConsoleInv ==
  ConsoleTyped /\ HeldAreFrozen /\ Earned /\ Undecided /\ HoldsAreNotMutual /\ LevelsFormAChain

(***************************************************************************)
(* Frames                                                                  *)
(***************************************************************************)
LEMMA WatchesKeep ==
  ASSUME ConsoleTyped, Watches
  PROVE  /\ entitled' \in [Desk -> BOOLEAN]
         /\ \A d \in Desk : desk'[d] # Waiting => (entitled'[d] <=> entitled[d] \/ Entitled(d)')
BY DEF ConsoleTyped, Watches

LEMMA StepsOfDesk ==
  ASSUME ConsoleTyped, NEW d \in Desk
  PROVE  /\ desk[d] = Waiting <=> desk[d].step = "waiting"
         /\ desk[d] # Waiting => desk[d] \in Asked
BY DEF ConsoleTyped, Waiting, Asked

(* A request keeps what it earned; a new step past the gate needs it, the gate itself shows it. *)
LEMMA EarnedStep ==
  ASSUME ConsoleTyped, Earned, Watches, Owners # {} => Owners' # {},
         \A d \in Desk :
           \/ desk'[d] \in {desk[d], Waiting}
           \/ desk'[d].step \in {"permitted", "acting", "locked", "deciding"} /\ entitled[d]
           \/ /\ desk'[d].step = "gated"
              /\ desk'[d].role = "stranger" <=> desk'[d].caller \notin Rows
              /\ May(desk'[d].role, desk'[d].verb) => Entitled(d)'
              /\ desk'[d].caller \in Listed /\ Owners' = {} => Entitled(d)'
  PROVE  Earned'
<1> SUFFICES ASSUME NEW d \in Desk, desk'[d] # Waiting
             PROVE  /\ desk'[d].step \in {"permitted", "acting", "locked", "deciding"} => entitled'[d]
                    /\ desk'[d].step = "gated" =>
                         /\ desk'[d].role = "stranger" <=> desk'[d].caller \notin Rows
                         /\ May(desk'[d].role, desk'[d].verb) => entitled'[d]
                         /\ desk'[d].caller \in Listed /\ Owners' = {} => entitled'[d]
  <2>1. Waiting.step = "waiting"
    BY DEF Waiting
  <2> QED BY <2>1 DEF Earned, May, Rows
<1>1. entitled'[d] <=> entitled[d] \/ Entitled(d)'
  BY WatchesKeep
<1>2. CASE desk'[d] = desk[d]
  BY <1>1, <1>2 DEF Earned
<1>3. CASE desk'[d].step \in {"permitted", "acting", "locked", "deciding"} /\ entitled[d]
  BY <1>1, <1>3
<1>4. CASE desk'[d].step = "gated" /\ desk'[d] # desk[d]
  BY <1>1, <1>4
<1> QED BY <1>2, <1>3, <1>4

LEMMA LevelsKept ==
  ASSUME LevelsFormAChain, UNCHANGED levels, \A u \in Rows : record'[u].level = record[u].level
  PROVE  LevelsFormAChain'
BY DEF LevelsFormAChain, Leaves, Rows

LEMMA LevelsAppended ==
  ASSUME ConsoleTyped, LevelsFormAChain, NEW t \in Rows, NEW new \in Nat, NEW by,
         levels' = Append(levels, [user |-> t, from |-> record[t].level, to |-> new, by |-> by]),
         record' = [record EXCEPT ![t].level = new],
         by # t, by = Vendor => new > record[t].level
  PROVE  LevelsFormAChain'
<1> DEFINE n == Len(levels)
           last == [user |-> t, from |-> record[t].level, to |-> new, by |-> by]
<1>1. /\ n \in Nat /\ Len(levels') = n + 1 /\ levels'[n + 1] = last
      /\ \A i \in 1 .. n : levels'[i] = levels[i]
  BY DEF ConsoleTyped
<1>2. record \in [Account -> Standing] /\ t \in Account
  BY DEF ConsoleTyped, Rows
<1>3. record'[t].level = new /\ \A u \in Rows \ {t} : record'[u] = record[u]
  BY <1>2 DEF Standing, Rows
<1>4. last.user = t /\ last.from = record[t].level /\ last.to = new /\ last.by = by
  OBVIOUS
<1> HIDE DEF last, n
<1>5. ASSUME NEW u, NEW m \in 0 .. n, NEW level PROVE Leaves(levels', u, m, level) <=> Leaves(levels, u, m, level)
  BY <1>1, <1>5 DEF Leaves
<1>6. Leaves(levels', t, n + 1, new)
  <2>1. n + 1 \in 1 .. n + 1 /\ \A j \in (n + 1) + 1 .. n + 1 : FALSE
    BY <1>1
  <2> QED BY <2>1, <1>1, <1>4 DEF Leaves
<1>7. ASSUME NEW u, u # t, NEW level, Leaves(levels, u, n, level) PROVE Leaves(levels', u, n + 1, level)
  <2>1. CASE level = 0 /\ \A i \in 1 .. n : levels[i].user # u
    <3>1. \A i \in 1 .. n + 1 : levels'[i].user # u
      BY <2>1, <1>1, <1>4, <1>7
    <3> QED BY <2>1, <3>1 DEF Leaves
  <2>2. CASE \E i \in 1 .. n : levels[i].user = u /\ levels[i].to = level /\ \A j \in i + 1 .. n : levels[j].user # u
    <3>1. PICK i \in 1 .. n : levels[i].user = u /\ levels[i].to = level /\ \A j \in i + 1 .. n : levels[j].user # u
      BY <2>2
    <3>2. \A j \in i + 1 .. n + 1 : levels'[j].user # u
      BY <3>1, <1>1, <1>4, <1>7
    <3>3. i \in 1 .. n + 1 /\ levels'[i].user = u /\ levels'[i].to = level
      BY <3>1, <1>1
    <3> QED BY <3>2, <3>3 DEF Leaves
  <2> QED BY <1>7, <2>1, <2>2 DEF Leaves, n
<1>8. ASSUME NEW u \in Rows PROVE Leaves(levels', u, n + 1, record'[u].level)
  BY <1>3, <1>6, <1>7 DEF LevelsFormAChain, n
<1>9. ASSUME NEW u \in Rows, NEW i \in 1 .. n + 1, levels'[i].user = u
      PROVE  /\ Leaves(levels', u, i - 1, levels'[i].from)
             /\ levels'[i].by # u
             /\ levels'[i].by = Vendor => levels'[i].to > levels'[i].from
  <2>0. i - 1 \in 0 .. n
    BY <1>1
  <2>1. CASE i \in 1 .. n
    <3>1. levels'[i] = levels[i] /\ levels[i].user = u
      BY <1>1, <1>9, <2>1
    <3>2. /\ Leaves(levels, u, i - 1, levels[i].from) /\ levels[i].by # u
          /\ levels[i].by = Vendor => levels[i].to > levels[i].from
      BY <2>1, <3>1 DEF LevelsFormAChain, n
    <3> QED BY <2>0, <3>1, <3>2, <1>5
  <2>2. CASE i = n + 1
    <3>1. u = t /\ i - 1 = n /\ levels'[i] = last
      BY <1>1, <1>4, <1>9, <2>2
    <3>2. Leaves(levels, t, n, record[t].level)
      BY DEF LevelsFormAChain, n
    <3> QED BY <2>0, <3>1, <3>2, <1>4, <1>5
  <2> QED BY <1>1, <2>1, <2>2
<1> QED BY <1>1, <1>8, <1>9 DEF LevelsFormAChain, Rows

(* A row written so that nobody comes to be held: everything but the placing of a hold. *)
LEMMA RowWritten ==
  ASSUME ConsoleInv, Watches, NEW t \in Rows, NEW row \in Standing,
         record' = [record EXCEPT ![t] = row], UNCHANGED <<levels, sealed, maintenance>>, acts' \in Nat,
         row.level = record[t].level,
         row.holder \in {Nobody, record[t].holder}, row.holder # Nobody => ~row.active,
         Owners # {} => Owners' # {},
         desk' \in [Desk -> {Waiting} \union Asked],
         \A d \in Desk : desk'[d] \in {desk[d], Waiting}
  PROVE  ConsoleInv'
<1> USE DEF ConsoleInv
<1>0. t \in Account /\ record \in [Account -> Standing]
  BY DEF Rows, ConsoleTyped
<1>1. record'[t] = row /\ \A u \in Account \ {t} : record'[u] = record[u]
  BY <1>0
<1>2. ConsoleTyped'
  <2>1. record' \in [Account -> Standing]
    BY <1>0
  <2> QED BY <2>1, WatchesKeep DEF ConsoleTyped
<1>3. HeldAreFrozen'
  BY <1>1 DEF HeldAreFrozen
<1>4. Earned'
  BY EarnedStep
<1>5. \A u \in Account : record'[u].holder \in {Nobody, record[u].holder}
  BY <1>1
<1>6. Undecided'
  <2> SUFFICES ASSUME NEW d \in Desk
               PROVE  /\ desk'[d].step \in {"locked", "deciding"} => desk'[d].target # desk'[d].caller
                      /\ desk'[d].step = "deciding" => record'[desk'[d].caller].holder # desk'[d].target
    BY DEF Undecided
  <2>1. CASE desk'[d] = Waiting
    BY <2>1 DEF Waiting
  <2>2. CASE desk'[d] = desk[d] /\ desk[d] # Waiting
    <3>1. desk[d].caller \in Account /\ desk[d].target \in Account
      BY <2>2, StepsOfDesk DEF Asked, Rows
    <3>2. Nobody \notin Account
      BY ConsoleAssumption
    <3> QED BY <2>2, <3>1, <3>2, <1>5 DEF Undecided
  <2> QED BY <2>1, <2>2
<1>7. HoldsAreNotMutual'
  <2>1. Nobody \notin Rows
    BY ConsoleAssumption DEF Rows
  <2> QED BY <1>5, <2>1 DEF HoldsAreNotMutual, Rows
<1>8. LevelsFormAChain'
  <2>1. \A u \in Rows : record'[u].level = record[u].level
    BY <1>1 DEF Rows
  <2> QED BY <2>1, LevelsKept
<1> QED BY <1>2, <1>3, <1>4, <1>6, <1>7, <1>8

(* A level written, with its row in the log. *)
LEMMA LevelWritten ==
  ASSUME ConsoleInv, Watches, NEW t \in Rows, NEW new \in Nat, NEW by \in Account \union {Vendor},
         record' = [record EXCEPT ![t].level = new], LevelRow(t, new, by),
         by # t, by = Vendor => new > record[t].level,
         UNCHANGED <<sealed, maintenance>>, acts' \in Nat,
         desk' \in [Desk -> {Waiting} \union Asked],
         \A d \in Desk : desk'[d] \in {desk[d], Waiting}
  PROVE  ConsoleInv'
<1> USE DEF ConsoleInv
<1>0. t \in Account /\ record \in [Account -> Standing]
  BY DEF Rows, ConsoleTyped
<1>1. /\ \A u \in Account \ {t} : record'[u] = record[u]
      /\ record'[t] \in Standing /\ record'[t].level = new
      /\ record'[t].role = record[t].role /\ record'[t].active = record[t].active
      /\ record'[t].holder = record[t].holder
  BY <1>0 DEF Standing
<1>2. record' \in [Account -> Standing]
  BY <1>0, <1>1
<1>3. levels' = Append(levels, [user |-> t, from |-> record[t].level, to |-> new, by |-> by])
  BY DEF LevelRow
<1>4. levels' \in Seq(LevelsRow)
  <2>1. [user |-> t, from |-> record[t].level, to |-> new, by |-> by] \in LevelsRow
    BY <1>0 DEF LevelsRow, Standing
  <2> QED BY <2>1, <1>3, AppendProperties DEF ConsoleTyped
<1>5. ConsoleTyped'
  BY <1>2, <1>4, WatchesKeep DEF ConsoleTyped
<1>6. HeldAreFrozen'
  BY <1>1 DEF HeldAreFrozen
<1>7. Owners' = Owners
  BY <1>1 DEF Owners, Rows
<1>8. Earned'
  BY <1>7, EarnedStep
<1>9. \A u \in Account : record'[u].holder = record[u].holder
  BY <1>1
<1>10. Undecided'
  <2> SUFFICES ASSUME NEW d \in Desk
               PROVE  /\ desk'[d].step \in {"locked", "deciding"} => desk'[d].target # desk'[d].caller
                      /\ desk'[d].step = "deciding" => record'[desk'[d].caller].holder # desk'[d].target
    BY DEF Undecided
  <2>1. CASE desk'[d] = Waiting
    BY <2>1 DEF Waiting
  <2>2. CASE desk'[d] = desk[d] /\ desk[d] # Waiting
    <3>1. desk[d].caller \in Account
      BY <2>2, StepsOfDesk DEF Asked
    <3> QED BY <2>2, <3>1, <1>9 DEF Undecided
  <2> QED BY <2>1, <2>2
<1>11. HoldsAreNotMutual'
  BY <1>9 DEF HoldsAreNotMutual, Rows
<1>12. LevelsFormAChain'
  BY <1>3, LevelsAppended
<1> QED BY <1>5, <1>6, <1>8, <1>10, <1>11, <1>12

(* A step of one request that writes nothing. *)
LEMMA Unwriting ==
  ASSUME ConsoleInv, Watches, Unwritten, sealed' \in BOOLEAN,
         desk' \in [Desk -> {Waiting} \union Asked], Earned', Undecided'
  PROVE  ConsoleInv'
<1> USE DEF ConsoleInv, Unwritten
<1>1. ConsoleTyped'
  BY WatchesKeep DEF ConsoleTyped
<1>2. HeldAreFrozen' /\ HoldsAreNotMutual'
  BY DEF HeldAreFrozen, HoldsAreNotMutual, Rows
<1>3. LevelsFormAChain'
  BY LevelsKept DEF Rows
<1> QED BY <1>1, <1>2, <1>3

LEMMA Turning ==
  ASSUME ConsoleInv, Watches, Unwritten, sealed' \in BOOLEAN,
         NEW d \in Desk, NEW next \in {Waiting} \union Asked, Turns(d, next),
         \/ next = Waiting
         \/ /\ next.step \in {"permitted", "acting", "locked", "deciding"} /\ entitled[d]
            /\ next.step \in {"locked", "deciding"} => next.target # next.caller
            /\ next.step = "deciding" => record[next.caller].holder # next.target
         \/ /\ next.step = "gated"
            /\ next.role = "stranger" <=> next.caller \notin Rows
            /\ May(next.role, next.verb) => Entitled(d)'
            /\ next.caller \in Listed /\ Owners' = {} => Entitled(d)'
  PROVE  ConsoleInv'
<1>1. desk' = [desk EXCEPT ![d] = next] /\ desk \in [Desk -> {Waiting} \union Asked]
  BY DEF Turns, ConsoleInv, ConsoleTyped
<1>2. desk' \in [Desk -> {Waiting} \union Asked] /\ desk'[d] = next /\ \A e \in Desk \ {d} : desk'[e] = desk[e]
  BY <1>1
<1>3. Owners' = Owners
  BY DEF Owners, Unwritten, Rows
<1>4. Earned'
  BY <1>2, <1>3, EarnedStep DEF ConsoleInv
<1>5. Undecided'
  BY <1>2 DEF Undecided, ConsoleInv, Unwritten, Waiting
<1> QED BY <1>2, <1>4, <1>5, Unwriting

(***************************************************************************)
(* The gate and the second look                                            *)
(***************************************************************************)
LEMMA InitConsoleInv == ConsoleInit => ConsoleInv
<1> SUFFICES ASSUME ConsoleInit PROVE ConsoleInv
  OBVIOUS
<1>1. PICK role \in [Rows -> {"investor", "admin", "owner"}] :
        record = [u \in Account |-> Fresh(IF u \in Rows THEN role[u] ELSE "investor")]
  BY DEF ConsoleInit
<1>2. \A u \in Account : record[u] \in Standing /\ record[u].holder = Nobody /\ record[u].level = 0
  BY <1>1 DEF Fresh, Standing, Role
<1>3. \A d \in Desk : desk[d] = Waiting /\ desk[d].step = "waiting"
  BY DEF ConsoleInit, Waiting
<1>4. ConsoleTyped
  <2>1. record \in [Account -> Standing]
    BY <1>1, <1>2
  <2>2. levels \in Seq(LevelsRow)
    BY DEF ConsoleInit
  <2> QED BY <2>1, <2>2 DEF ConsoleInit, ConsoleTyped
<1>5. HeldAreFrozen /\ HoldsAreNotMutual
  BY <1>2, ConsoleAssumption DEF HeldAreFrozen, HoldsAreNotMutual, Rows
<1>6. Earned /\ Undecided
  BY <1>3 DEF Earned, Undecided
<1>7. LevelsFormAChain
  <2>1. levels = <<>> /\ Len(levels) = 0
    BY DEF ConsoleInit
  <2> QED BY <1>2, <2>1 DEF LevelsFormAChain, Leaves, Rows
<1> QED BY <1>4, <1>5, <1>6, <1>7 DEF ConsoleInv

LEMMA ReceiveStep ==
  ASSUME ConsoleInv, Watches, NEW d \in Desk, NEW u \in Account, NEW target \in Rows, NEW verb \in Verb,
         NEW version \in 0 .. record[u].version, Receive(d, u, verb, target, version)
  PROVE  ConsoleInv'
<1> DEFINE role == IF u \in Rows THEN record[u].role ELSE "stranger"
           next == [step |-> "gated", caller |-> u, verb |-> verb, target |-> target, version |-> version, role |-> role]
<1>1. record[u] \in Standing
  BY DEF ConsoleInv, ConsoleTyped
<1>2. next \in Asked
  BY <1>1 DEF Asked, Standing
<1>3. role = "stranger" <=> u \notin Rows
  BY <1>1 DEF Standing, Role
<1>4. UNCHANGED <<record, maintenance, levels, acts, sealed>> /\ Turns(d, next)
  BY DEF Receive, Unwritten
<1>5. desk'[d] = next
  BY <1>4 DEF Turns, ConsoleInv, ConsoleTyped
<1>5a. /\ desk'[d].step = "gated" /\ desk'[d].caller = u /\ desk'[d].verb = verb
       /\ desk'[d].version = version
  BY <1>5
<1>6. CallerGate(u, version)
  BY DEF Receive
<1>7. May(role, verb) => u \in Rows
  BY DEF May, Needs, Permissions
<1>8. Entitled(d)' <=> (u \in Rows /\ May(record[u].role, verb)) \/ (u \in Listed /\ Owners = {})
  <2>1. Entitled(d)' <=>
          /\ u \in Rows => record[u].active /\ version >= record[u].version
          /\ (u \in Rows /\ May(record[u].role, verb)) \/ (u \in Listed /\ Owners = {})
    BY <1>4, <1>5a DEF Entitled, CallerGate, Owners, Rows, May
  <2> QED BY <1>6, <2>1 DEF CallerGate
<1>9. Owners' = Owners
  BY <1>4 DEF Owners, Rows
<1>10. /\ Unwritten /\ sealed' \in BOOLEAN
       /\ next.step = "gated" /\ next.role = role /\ next.caller = u /\ next.verb = verb
  BY <1>4 DEF Unwritten, ConsoleInv, ConsoleTyped
<1>11. /\ May(role, verb) => Entitled(d)'
       /\ u \in Listed /\ Owners' = {} => Entitled(d)'
  <2>1. u \in Rows => role = record[u].role
    OBVIOUS
  <2> HIDE DEF role
  <2> QED BY <1>7, <1>8, <1>9, <2>1
<1> HIDE DEF next, role
<1> QED BY <1>2, <1>3, <1>4, <1>10, <1>11, Turning

LEMMA RequirePermissionStep ==
  ASSUME ConsoleInv, Watches, NEW d \in Desk, NEW readable \in BOOLEAN, RequirePermission(d, readable)
  PROVE  ConsoleInv'
<1>1. desk[d].step = "gated" /\ desk[d] \in Asked
  BY StepsOfDesk DEF RequirePermission, Stands, ConsoleInv, Waiting
<1>2. Unwritten /\ sealed' \in BOOLEAN
  BY DEF RequirePermission, Snapshot, ConsoleInv, ConsoleTyped
<1>3. CASE May(RoleOf(d, readable), desk[d].verb)
  <2> DEFINE next == [desk[d] EXCEPT !.step = "permitted"]
  <2>1. next \in Asked /\ next.step = "permitted" /\ Turns(d, next)
    BY <1>1, <1>3 DEF Asked, RequirePermission
  <2>2. entitled[d]
    <3>1. CASE Elevates(desk[d].caller, readable)
      BY <1>1, <3>1 DEF Elevates, ConsoleInv, Earned
    <3>2. CASE ~Elevates(desk[d].caller, readable)
      BY <1>1, <1>3, <3>2 DEF RoleOf, ConsoleInv, Earned
    <3> QED BY <3>1, <3>2
  <2> QED BY <1>2, <2>1, <2>2, Turning
<1>4. CASE ~May(RoleOf(d, readable), desk[d].verb)
  <2>1. Turns(d, Waiting)
    BY <1>4 DEF RequirePermission
  <2> QED BY <1>2, <2>1, Turning
<1> QED BY <1>3, <1>4

(* What passed the gate goes on towards its transaction, or stops. *)
LEMMA AdvanceStep ==
  ASSUME ConsoleInv, Watches, NEW d \in Desk,
         ActingOperator(d) \/ HoldLocks(d) \/ HoldReadsActor(d) \/ Refused(d)
  PROVE  ConsoleInv'
<1>1. Unwritten /\ sealed' = sealed /\ sealed \in BOOLEAN
  BY DEF ActingOperator, HoldLocks, HoldReadsActor, Refused, ConsoleInv, ConsoleTyped
<1>2. desk[d].step \in {"permitted", "acting", "locked", "deciding"} => desk[d] \in Asked /\ entitled[d]
  BY StepsOfDesk DEF ConsoleInv, Earned, Waiting
<1>3. CASE ActingOperator(d)
  <2> DEFINE next == [desk[d] EXCEPT !.step = "acting"]
  <2>1. desk[d].step = "permitted" /\ Turns(d, next)
    BY <1>3 DEF ActingOperator, Stands
  <2>2. next \in Asked /\ next.step = "acting"
    BY <1>2, <2>1 DEF Asked
  <2> QED BY <1>1, <1>2, <2>1, <2>2, Turning
<1>4. CASE HoldLocks(d)
  <2> DEFINE next == [desk[d] EXCEPT !.step = "locked"]
  <2>1. desk[d].step = "acting" /\ desk[d].target # desk[d].caller /\ Turns(d, next)
    BY <1>4 DEF HoldLocks, Stands
  <2>2. next \in Asked /\ next.step = "locked" /\ next.target = desk[d].target /\ next.caller = desk[d].caller
    BY <1>2, <2>1 DEF Asked
  <2> QED BY <1>1, <1>2, <2>1, <2>2, Turning
<1>5. CASE HoldReadsActor(d)
  <2> DEFINE next == [desk[d] EXCEPT !.step = "deciding"]
  <2>1. desk[d].step = "locked" /\ ActorStands(desk[d].caller) /\ Turns(d, next)
    BY <1>5 DEF HoldReadsActor, Stands
  <2>2. next \in Asked /\ next.step = "deciding" /\ next.target = desk[d].target /\ next.caller = desk[d].caller
    BY <1>2, <2>1 DEF Asked
  <2>3. desk[d].caller \in Account /\ desk[d].target \in Account /\ desk[d].target # desk[d].caller
    BY <1>2, <2>1 DEF Asked, Rows, ConsoleInv, Undecided
  <2>4. record[desk[d].caller].holder # desk[d].target
    <3>1. CASE desk[d].caller \in Rows
      <4>1. record[desk[d].caller].holder = Nobody
        BY <2>1, <2>3, <3>1 DEF ActorStands, ConsoleInv, HeldAreFrozen
      <4> QED BY <2>3, <4>1, ConsoleAssumption
    <3>2. CASE desk[d].caller \notin Rows
      BY <2>3, <3>2, ConsoleAssumption DEF ConsoleInv, HeldAreFrozen
    <3> QED BY <3>1, <3>2
  <2> QED BY <1>1, <1>2, <2>1, <2>2, <2>3, <2>4, Turning
<1>6. CASE Refused(d)
  <2>1. Turns(d, Waiting)
    BY <1>6 DEF Refused
  <2> QED BY <1>1, <2>1, Turning
<1> QED BY <1>3, <1>4, <1>5, <1>6

(***************************************************************************)
(* The transactions                                                        *)
(***************************************************************************)
LEMMA ActsWrite ==
  ASSUME ConsoleInv, Watches, NEW d \in Desk, NEW verb, NEW row, Acts(d, verb, row)
  PROVE  /\ desk[d].target \in Rows /\ desk[d].target \in Account
         /\ record' = [record EXCEPT ![desk[d].target] = row]
         /\ desk[d] \in Asked /\ Target(d) \in Standing
         /\ UNCHANGED <<sealed, maintenance>> /\ acts' \in Nat
         /\ desk' \in [Desk -> {Waiting} \union Asked]
         /\ \A e \in Desk : desk'[e] \in {desk[e], Waiting}
<1>1. desk[d] \in Asked
  BY StepsOfDesk DEF Acts, Stands, ConsoleInv, Waiting
<1> QED BY <1>1 DEF Acts, Turns, Counts, Target, Rows, ConsoleInv, ConsoleTyped

(* The register is not emptied by whoever keeps every seat. *)
LEMMA SeatsKept ==
  ASSUME ConsoleTyped, NEW t \in Rows, NEW row, record' = [record EXCEPT ![t] = row],
         record[t].role = "owner" => row.role = "owner"
  PROVE  Owners # {} => Owners' # {}
BY DEF ConsoleTyped, Owners, Rows

LEMMA RevokeTokensStep ==
  ASSUME ConsoleInv, Watches, NEW d \in Desk, RevokeTokens(d)
  PROVE  ConsoleInv'
<1> DEFINE row == [Target(d) EXCEPT !.version = @ + 1]
<1>1. Acts(d, "revoke_tokens", row) /\ UNCHANGED levels
  BY DEF RevokeTokens
<1>2. Target(d) = record[desk[d].target] /\ Target(d) \in Standing /\ desk[d].target \in Rows
  BY <1>1, ActsWrite DEF Target
<1>3. /\ row \in Standing /\ row.level = Target(d).level /\ row.holder = Target(d).holder
      /\ row.active = Target(d).active /\ row.role = Target(d).role
  BY <1>2 DEF Standing
<1>4. row.holder # Nobody => ~row.active
  BY <1>2, <1>3 DEF ConsoleInv, HeldAreFrozen, Rows
<1> HIDE DEF row
<1> QED BY <1>1, <1>2, <1>3, <1>4, ActsWrite, SeatsKept, RowWritten DEF ConsoleInv

LEMMA EditRoleStep ==
  ASSUME ConsoleInv, Watches, NEW d \in Desk, NEW role \in Role, EditRole(d, role)
  PROVE  ConsoleInv'
<1> DEFINE row == [Target(d) EXCEPT !.role = role]
<1>1. Acts(d, "set_role", row) /\ UNCHANGED levels /\ ((role = "owner") = (Target(d).role = "owner"))
  BY DEF EditRole
<1>2. Target(d) = record[desk[d].target] /\ Target(d) \in Standing /\ desk[d].target \in Rows
  BY <1>1, ActsWrite DEF Target
<1>3. /\ row \in Standing /\ row.level = Target(d).level /\ row.holder = Target(d).holder
      /\ row.active = Target(d).active /\ row.role = role
  BY <1>2 DEF Standing
<1>4. row.holder # Nobody => ~row.active
  BY <1>2, <1>3 DEF ConsoleInv, HeldAreFrozen, Rows
<1> HIDE DEF row
<1> QED BY <1>1, <1>2, <1>3, <1>4, ActsWrite, SeatsKept, RowWritten DEF ConsoleInv

LEMMA ReinstateStep ==
  ASSUME ConsoleInv, Watches, NEW d \in Desk, Reinstate(d)
  PROVE  ConsoleInv'
<1> DEFINE row == [Target(d) EXCEPT !.active = TRUE, !.by = "none", !.holder = Nobody]
<1>1. Acts(d, "reinstate", row) /\ UNCHANGED levels
  BY DEF Reinstate
<1>2. Target(d) = record[desk[d].target] /\ Target(d) \in Standing /\ desk[d].target \in Rows
  BY <1>1, ActsWrite DEF Target
<1>3. /\ row \in Standing /\ row.level = Target(d).level /\ row.holder = Nobody
      /\ row.role = Target(d).role
  BY <1>2 DEF Standing
<1> HIDE DEF row
<1> QED BY <1>1, <1>2, <1>3, ActsWrite, SeatsKept, RowWritten DEF ConsoleInv

LEMMA SetKycLevelStep ==
  ASSUME ConsoleInv, Watches, NEW d \in Desk, NEW level \in 0 .. MaxLevel, SetKycLevel(d, level)
  PROVE  ConsoleInv'
<1>1. /\ Acts(d, "set_kyc_level", [Target(d) EXCEPT !.level = level])
      /\ LevelRow(desk[d].target, level, desk[d].caller) /\ desk[d].target # desk[d].caller
  BY DEF SetKycLevel
<1>2. record' = [record EXCEPT ![desk[d].target].level = level]
  BY <1>1, ActsWrite DEF Target, ConsoleInv, ConsoleTyped
<1>3. level \in Nat
  BY ConsoleAssumption
<1>4. desk[d].caller \in Account /\ desk[d].caller # Vendor
  BY <1>1, ActsWrite, ConsoleAssumption DEF Asked
<1> QED BY <1>1, <1>2, <1>3, <1>4, ActsWrite, LevelWritten

LEMMA SetMaintenanceStep ==
  ASSUME ConsoleInv, Watches, NEW d \in Desk, SetMaintenance(d)
  PROVE  ConsoleInv'
<1> USE DEF ConsoleInv
<1>1. /\ UNCHANGED <<record, sealed, levels>> /\ maintenance' \in BOOLEAN /\ acts' \in Nat
      /\ Turns(d, Waiting)
  BY DEF SetMaintenance, Counts, ConsoleTyped
<1>2. desk' \in [Desk -> {Waiting} \union Asked] /\ \A e \in Desk : desk'[e] \in {desk[e], Waiting}
  BY <1>1 DEF Turns, ConsoleTyped
<1>3. ConsoleTyped'
  BY <1>1, <1>2, WatchesKeep DEF ConsoleTyped
<1>4. Owners' = Owners
  BY <1>1 DEF Owners, Rows
<1>5. Earned'
  BY <1>2, <1>4, EarnedStep
<1>6. Undecided'
  BY <1>1, <1>2 DEF Undecided, Waiting
<1>7. HeldAreFrozen' /\ HoldsAreNotMutual'
  BY <1>1 DEF HeldAreFrozen, HoldsAreNotMutual, Rows
<1>8. LevelsFormAChain'
  BY <1>1, LevelsKept DEF Rows
<1> QED BY <1>3, <1>5, <1>6, <1>7, <1>8

(* Nobody else commits a hold on the caller: its actor's row is the one that is locked here. *)
LEMMA HoldCommitsStep ==
  ASSUME ConsoleInv, Watches, NEW d \in Desk, HoldCommits(d)
  PROVE  ConsoleInv'
<1> USE DEF ConsoleInv
<1> DEFINE t == desk[d].target
           c == desk[d].caller
           row == [record[t] EXCEPT !.active = FALSE, !.by = "hold", !.holder = c]
<1>1. /\ desk[d].step = "deciding" /\ c \in Rows /\ RowFree(d, c)
      /\ UNCHANGED <<sealed, maintenance, levels>> /\ Turns(d, Waiting) /\ acts' \in Nat
  BY DEF HoldCommits, Stands, Counts, ConsoleTyped
<1>2. desk[d] \in Asked
  BY <1>1, StepsOfDesk DEF Waiting
<1>3. t \in Rows /\ t \in Account /\ c \in Account /\ t # c /\ record \in [Account -> Standing]
  BY <1>1, <1>2 DEF Asked, Rows, Undecided, ConsoleTyped
<1>4. record' = [record EXCEPT ![t] = row]
  BY <1>3 DEF HoldCommits
<1>5. /\ row \in Standing /\ row.level = record[t].level /\ row.holder = c /\ ~row.active
      /\ row.role = record[t].role
  <2>1. PICK s \in Standing : s = record[t]
    BY <1>3
  <2> DEFINE n == [s EXCEPT !.active = FALSE, !.by = "hold", !.holder = c]
  <2>2. n \in Standing /\ n.level = s.level /\ n.holder = c /\ ~n.active /\ n.role = s.role
    BY <1>3 DEF Standing
  <2>3. row = n
    BY <2>1
  <2> HIDE DEF n, row
  <2> QED BY <2>1, <2>2, <2>3
<1>6. c # Nobody
  BY <1>3, ConsoleAssumption
<1> HIDE DEF row
<1>7. record'[t] = row /\ \A u \in Account \ {t} : record'[u] = record[u]
  BY <1>3, <1>4
<1>8. /\ desk' \in [Desk -> {Waiting} \union Asked]
      /\ desk'[d] = Waiting /\ \A e \in Desk \ {d} : desk'[e] = desk[e]
  BY <1>1 DEF Turns, ConsoleTyped
<1>9. ConsoleTyped'
  <2>1. record' \in [Account -> Standing]
    BY <1>3, <1>4, <1>5
  <2> QED BY <1>1, <1>8, <2>1, WatchesKeep DEF ConsoleTyped
<1>10. HeldAreFrozen'
  BY <1>3, <1>5, <1>7 DEF HeldAreFrozen, Rows
<1>11. Owners # {} => Owners' # {}
  BY <1>3, <1>4, <1>5, SeatsKept
<1>12. Earned'
  BY <1>8, <1>11, EarnedStep
<1>13. Undecided'
  <2> SUFFICES ASSUME NEW e \in Desk \ {d}
               PROVE  /\ desk[e].step \in {"locked", "deciding"} => desk[e].target # desk[e].caller
                      /\ desk[e].step = "deciding" => record'[desk[e].caller].holder # desk[e].target
    BY <1>8 DEF Undecided, Waiting
  <2>1. desk[e].step \in {"locked", "deciding"} => desk[e].target # desk[e].caller
    BY DEF Undecided
  <2>2. ASSUME desk[e].step = "deciding" PROVE record'[desk[e].caller].holder # desk[e].target
    <3>1. desk[e].caller \in Account
      BY <2>2, StepsOfDesk DEF Waiting, Asked
    <3>2. CASE desk[e].caller # t
      BY <2>2, <3>1, <3>2, <1>7 DEF Undecided
    <3>3. CASE desk[e].caller = t
      <4>1. desk[e].target # c
        BY <1>1, <2>2 DEF RowFree, Locking
      <4> QED BY <3>3, <4>1, <1>5, <1>7
    <3> QED BY <3>2, <3>3
  <2> QED BY <2>1, <2>2
<1>14. HoldsAreNotMutual'
  <2> SUFFICES ASSUME NEW u \in Rows, NEW v \in Rows, record'[u].holder = v, record'[v].holder = u PROVE FALSE
    BY DEF HoldsAreNotMutual, Rows
  <2>1. record[c].holder # t
    BY <1>1 DEF Undecided
  <2>2. CASE u # t /\ v # t
    BY <2>2, <1>7 DEF HoldsAreNotMutual, Rows
  <2>3. CASE u = t
    BY <2>1, <2>3, <1>3, <1>5, <1>7
  <2>4. CASE v = t
    BY <2>1, <2>4, <1>3, <1>5, <1>7
  <2> QED BY <2>2, <2>3, <2>4
<1>15. LevelsFormAChain'
  BY <1>1, <1>5, <1>7, LevelsKept DEF Rows
<1> QED BY <1>9, <1>10, <1>12, <1>13, <1>14, <1>15

(***************************************************************************)
(* What moves beside the console                                           *)
(***************************************************************************)
LEMMA MovedStep ==
  ASSUME ConsoleInv, Watches, NEW u \in Account, NEW row, Moved(u, row),
         row \in Standing, row.level = record[u].level,
         row.holder \in {Nobody, record[u].holder}, row.holder # Nobody => ~row.active,
         Owners # {} => Owners' # {}
  PROVE  ConsoleInv'
<1>1. /\ u \in Rows /\ record' = [record EXCEPT ![u] = row]
      /\ UNCHANGED <<sealed, desk, maintenance, levels>> /\ acts' \in Nat
  BY DEF Moved, Counts, ConsoleInv, ConsoleTyped
<1>2. desk' \in [Desk -> {Waiting} \union Asked] /\ \A d \in Desk : desk'[d] \in {desk[d], Waiting}
  BY <1>1 DEF ConsoleInv, ConsoleTyped
<1> QED BY <1>1, <1>2, RowWritten

(* A register above the floor keeps somebody when one leaves it. *)
LEMMA SomebodyStays ==
  ASSUME NEW u, Cardinality(Owners) > MinOwners
  PROVE  Owners \ {u} # {}
<1>1. MinOwners \in Nat /\ MinOwners >= 1 /\ IsFiniteSet(Owners)
  BY ConsoleAssumption, FS_Subset DEF Owners, Rows
<1>2. SUFFICES ASSUME Owners \subseteq {u} PROVE FALSE
  OBVIOUS
<1>3. IsFiniteSet({u}) /\ Cardinality({u}) = 1
  BY FS_Singleton
<1>4. Cardinality(Owners) <= 1 /\ Cardinality(Owners) \in Nat
  BY <1>1, <1>2, <1>3, FS_Subset, FS_CardinalityType
<1> QED BY <1>1, <1>4

LEMMA OtherWritesStep ==
  ASSUME ConsoleInv, Watches, NEW u \in Account, RevokeAll(u) \/ SeatOwner(u) \/ Unseat(u) \/ Suspend(u)
  PROVE  ConsoleInv'
<1>1. record[u] \in Standing /\ (record[u].holder # Nobody => ~record[u].active) /\ u \in Rows
  BY DEF ConsoleInv, ConsoleTyped, HeldAreFrozen, RevokeAll, SeatOwner, Unseat, Suspend, Moved
<1>2. CASE RevokeAll(u)
  <2> DEFINE row == [record[u] EXCEPT !.version = @ + 1]
  <2>1. /\ row \in Standing /\ row.level = record[u].level /\ row.holder = record[u].holder
        /\ row.active = record[u].active /\ row.role = record[u].role
    BY <1>1 DEF Standing
  <2>2. Moved(u, row) /\ record' = [record EXCEPT ![u] = row]
    BY <1>2 DEF RevokeAll, Moved
  <2> HIDE DEF row
  <2> QED BY <1>1, <2>1, <2>2, SeatsKept, MovedStep DEF ConsoleInv
<1>3. CASE SeatOwner(u)
  <2> DEFINE row == [record[u] EXCEPT !.role = "owner"]
  <2>1. /\ row \in Standing /\ row.level = record[u].level /\ row.holder = record[u].holder
        /\ row.active = record[u].active /\ row.role = "owner"
    BY <1>1 DEF Standing, Role
  <2>2. Moved(u, row) /\ record' = [record EXCEPT ![u] = row]
    BY <1>3 DEF SeatOwner, Moved
  <2> HIDE DEF row
  <2> QED BY <1>1, <2>1, <2>2, SeatsKept, MovedStep DEF ConsoleInv
<1>4. CASE Suspend(u)
  <2> DEFINE row == [record[u] EXCEPT !.active = FALSE, !.by = "owners", !.holder = Nobody]
  <2>1. /\ row \in Standing /\ row.level = record[u].level /\ row.holder = Nobody
        /\ row.role = record[u].role
    BY <1>1 DEF Standing
  <2>2. Moved(u, row) /\ record' = [record EXCEPT ![u] = row]
    BY <1>4 DEF Suspend, Moved
  <2> HIDE DEF row
  <2> QED BY <1>1, <2>1, <2>2, SeatsKept, MovedStep DEF ConsoleInv
<1>5. CASE Unseat(u)
  <2> DEFINE row == [record[u] EXCEPT !.role = "investor"]
  <2>1. /\ row \in Standing /\ row.level = record[u].level /\ row.holder = record[u].holder
        /\ row.active = record[u].active
    BY <1>1 DEF Standing, Role
  <2>2. Moved(u, row) /\ record' = [record EXCEPT ![u] = row]
    BY <1>5 DEF Unseat, Moved
  <2>3. Owners \ {u} # {}
    BY <1>5, SomebodyStays DEF Unseat
  <2>4. Owners' # {}
    BY <2>2, <2>3 DEF Owners, Rows, ConsoleInv, ConsoleTyped
  <2> HIDE DEF row
  <2> QED BY <1>1, <2>1, <2>2, <2>4, MovedStep
<1> QED BY <1>2, <1>3, <1>4, <1>5

LEMMA RaiseStep ==
  ASSUME ConsoleInv, Watches, NEW u \in Account, NEW level \in 0 .. MaxLevel, RaiseKycLevelTo(u, level)
  PROVE  ConsoleInv'
<1>1. /\ u \in Rows /\ record' = [record EXCEPT ![u].level = level] /\ LevelRow(u, level, Vendor)
      /\ level > record[u].level
      /\ UNCHANGED <<sealed, desk, maintenance>> /\ acts' \in Nat
  BY DEF RaiseKycLevelTo, MayRaise, Counts, ConsoleInv, ConsoleTyped
<1>2. desk' \in [Desk -> {Waiting} \union Asked] /\ \A d \in Desk : desk'[d] \in {desk[d], Waiting}
  BY <1>1 DEF ConsoleInv, ConsoleTyped
<1>3. level \in Nat /\ Vendor # u
  BY ConsoleAssumption
<1> QED BY <1>1, <1>2, <1>3, LevelWritten

LEMMA RestartStep ==
  ASSUME ConsoleInv, Watches, Restart
  PROVE  ConsoleInv'
<1>1. Unwritten /\ sealed' \in BOOLEAN /\ desk' = [d \in Desk |-> Waiting]
  BY DEF Restart
<1>2. Owners' = Owners
  BY <1>1 DEF Owners, Unwritten, Rows
<1>3. \A d \in Desk : desk'[d] = Waiting /\ Waiting.step = "waiting"
  BY <1>1 DEF Waiting
<1>4. Earned'
  BY <1>2, <1>3, EarnedStep DEF ConsoleInv
<1>5. Undecided'
  BY <1>3 DEF Undecided
<1> QED BY <1>1, <1>4, <1>5, Unwriting

LEMMA NextConsoleInv == ConsoleInv /\ [ConsoleNext]_consoleVars => ConsoleInv'
<1> SUFFICES ASSUME ConsoleInv, [ConsoleNext]_consoleVars PROVE ConsoleInv'
  OBVIOUS
<1>1. CASE UNCHANGED consoleVars
  BY <1>1 DEF consoleVars, ConsoleInv, ConsoleTyped, HeldAreFrozen, Earned, Undecided, HoldsAreNotMutual,
       LevelsFormAChain, Owners, Rows
<1>2. CASE ConsoleNext
  <2>0. Watches
    BY <1>2 DEF ConsoleNext
  <2>1. ASSUME NEW d \in Desk, NEW u \in Account, NEW target \in Rows, NEW verb \in Verb,
               NEW version \in 0 .. record[u].version, Receive(d, u, verb, target, version)
        PROVE  ConsoleInv'
    BY <2>0, <2>1, ReceiveStep
  <2>2. ASSUME NEW d \in Desk, NEW readable \in BOOLEAN, RequirePermission(d, readable) PROVE ConsoleInv'
    BY <2>0, <2>2, RequirePermissionStep
  <2>3. ASSUME NEW d \in Desk, ActingOperator(d) \/ HoldLocks(d) \/ HoldReadsActor(d) \/ Refused(d) PROVE ConsoleInv'
    BY <2>0, <2>3, AdvanceStep
  <2>4. ASSUME NEW d \in Desk, Writes(d) PROVE ConsoleInv'
    BY <2>0, <2>4, RevokeTokensStep, ReinstateStep, HoldCommitsStep, SetMaintenanceStep, EditRoleStep,
       SetKycLevelStep DEF Writes
  <2>5. ASSUME NEW u \in Account, RevokeAll(u) \/ SeatOwner(u) \/ Unseat(u) \/ Suspend(u) PROVE ConsoleInv'
    BY <2>0, <2>5, OtherWritesStep
  <2>6. ASSUME NEW u \in Account, NEW level \in 0 .. MaxLevel, RaiseKycLevelTo(u, level) PROVE ConsoleInv'
    BY <2>0, <2>6, RaiseStep
  <2>7. ASSUME Restart PROVE ConsoleInv'
    BY <2>0, <2>7, RestartStep
  <2> QED BY <1>2, <2>1, <2>2, <2>3, <2>4, <2>5, <2>6, <2>7 DEF ConsoleNext
<1> QED BY <1>1, <1>2

THEOREM ConsoleInvariance == ConsoleSpec => []ConsoleInv
<1> QED BY InitConsoleInv, NextConsoleInv, PTL DEF ConsoleSpec

(***************************************************************************)
(* Two people never hold each other, whatever order their requests read    *)
(* and commit in: the audit row's key makes one of them wait (hold_user).  *)
(***************************************************************************)
THEOREM NoMutualHolds == ConsoleSpec => []HoldsAreNotMutual
<1>1. ConsoleInv => HoldsAreNotMutual
  BY DEF ConsoleInv
<1> QED BY <1>1, ConsoleInvariance, PTL

(***************************************************************************)
(* The log of levels is a chain for every account (set_kyc_level,          *)
(* raise_kyc_level_to).                                                    *)
(***************************************************************************)
THEOREM LevelsChain == ConsoleSpec => []LevelsFormAChain
<1>1. ConsoleInv => LevelsFormAChain
  BY DEF ConsoleInv
<1> QED BY <1>1, ConsoleInvariance, PTL

(***************************************************************************)
(* Whoever writes was entitled to it at one moment since the request came, *)
(* whatever register, seat and standing have become since                  *)
(* (require_permission, acting_operator).                                  *)
(***************************************************************************)
THEOREM WritersWereEntitled == ConsoleSpec => ActsWereAuthorised
<1>1. ConsoleInv /\ [ConsoleNext]_consoleVars => [\A d \in Desk : Writes(d) => entitled[d]]_consoleVars
  <2> SUFFICES ASSUME ConsoleInv, NEW d \in Desk, Writes(d) PROVE entitled[d]
    OBVIOUS
  <2>1. desk[d].step \in {"permitted", "acting", "deciding"}
    BY DEF Writes, RevokeTokens, Reinstate, HoldCommits, SetMaintenance, EditRole, SetKycLevel, Acts, Stands
  <2> QED BY <2>1 DEF ConsoleInv, Earned
<1> QED BY <1>1, ConsoleInvariance, PTL DEF ConsoleSpec, ActsWereAuthorised

(***************************************************************************)
(* Who waits for whom                                                      *)
(*                                                                         *)
(* Every lock was granted when whatever its transaction asks for before it *)
(* was held already.  So whoever is waited for wants something further on, *)
(* unless it is an operator's decision, which references his row when it   *)
(* holds the outbox, or a grant beside a consilium that locks the owners.  *)
(***************************************************************************)
GrantedInOrder ==
  \A t \in Tx : \A h \in held[t] :
    /\ Running(t)
    /\ \E r \in Requests(op[t]) :
         /\ h = [lock |-> r.lock, mode |-> r.mode]
         /\ \A q \in Requests(op[t]) : Precedes(q, r) => Holds(t, q.lock, q.mode)

LockInv == TypeOK /\ LocksExclude /\ GrantedInOrder

(* What each kind asks for, at which of its statements. *)
Asks(i, l) == [at |-> i, lock |-> l, mode |-> "exclusive"]
Shares(i, u) == [at |-> i, lock |-> Row(u), mode |-> "key_share"]

AsksFor(o) ==
  CASE o.kind = "own_write" -> {Asks(1, Row(o.subject)), Asks(2, Outbox)}
    [] o.kind = "set_role"  ->
         {Asks(1, Row(o.subject))}
           \union (IF o.subject \in Owner THEN {} ELSE {Asks(2, Outbox), Shares(3, o.actor)})
    [] o.kind = "grant"     -> {Asks(1, Row(o.subject)), Asks(1, Row(o.actor))}
    [] o.kind = "ballot"    -> {Asks(1, Revision), Shares(2, o.actor)}
    [] o.kind = "open"      ->
         {Asks(1, Revision)} \union {Asks(2, Row(u)) : u \in Owner} \union {Shares(3, o.subject)}
    [] o.kind = "verdict"   ->
         {Asks(1, Revision)} \union {Asks(2, Row(u)) : u \in Owner}
           \union {Asks(3, Row(o.subject)), Asks(4, Outbox), Shares(5, o.actor)}

LEMMA RequestsOfTwo ==
  ASSUME NEW o, NEW s1, NEW s2, Statements(o) = <<s1, s2>>
  PROVE  Requests(o) = {[at |-> 1, lock |-> l, mode |-> s1.mode] : l \in s1.locks}
                         \union {[at |-> 2, lock |-> l, mode |-> s2.mode] : l \in s2.locks}
<1>1. DOMAIN Statements(o) = {1, 2} /\ Statements(o)[1] = s1 /\ Statements(o)[2] = s2
  OBVIOUS
<1> QED BY <1>1 DEF Requests

LEMMA AsksForOwnWrite ==
  ASSUME NEW o \in Operation, o.kind = "own_write"
  PROVE  Requests(o) = AsksFor(o)
<1>1. Statements(o) = <<ForUpdate({o.subject}), DrainOutbox>>
  BY DEF Statements, OwnWrite
<1>2. ForUpdate({o.subject}).locks = {Row(o.subject)} /\ ForUpdate({o.subject}).mode = "exclusive"
  BY DEF ForUpdate
<1>3. DrainOutbox.locks = {Outbox} /\ DrainOutbox.mode = "exclusive"
  BY DEF DrainOutbox, Exclusive
<1> QED BY <1>1, <1>2, <1>3, RequestsOfTwo DEF AsksFor, Asks

LEMMA AsksForBallot ==
  ASSUME NEW o \in Operation, o.kind = "ballot"
  PROVE  Requests(o) = AsksFor(o)
<1>1. Statements(o) = <<LockGovernance, References(o.actor)>>
  BY DEF Statements, CastBallot
<1>2. LockGovernance.locks = {Revision} /\ LockGovernance.mode = "exclusive"
  BY DEF LockGovernance, Exclusive
<1>3. References(o.actor).locks = {Row(o.actor)} /\ References(o.actor).mode = "key_share"
  BY DEF References
<1> QED BY <1>1, <1>2, <1>3, RequestsOfTwo DEF AsksFor, Asks, Shares

LEMMA AsksForGrant ==
  ASSUME NEW o \in Operation, o.kind = "grant"
  PROVE  Requests(o) = AsksFor(o)
<1>1. Statements(o) = <<ForUpdate({o.subject, o.actor})>>
  BY DEF Statements, Grant
<1>2. DOMAIN Statements(o) = {1} /\ Statements(o)[1] = ForUpdate({o.subject, o.actor})
  BY <1>1
<1>3. ForUpdate({o.subject, o.actor}).locks = {Row(o.subject), Row(o.actor)}
  BY DEF ForUpdate
<1>4. ForUpdate({o.subject, o.actor}).mode = "exclusive"
  BY DEF ForUpdate
<1>5. Requests(o) = {[at |-> 1, lock |-> l, mode |-> "exclusive"] : l \in {Row(o.subject), Row(o.actor)}}
  BY <1>2, <1>3, <1>4 DEF Requests
<1> QED BY <1>5 DEF AsksFor, Asks

LEMMA AsksForOpen ==
  ASSUME NEW o \in Operation, o.kind = "open"
  PROVE  Requests(o) = AsksFor(o)
<1>1. Statements(o) = <<LockGovernance, ForUpdate(Owner), References(o.subject)>>
  BY DEF Statements, Open
<1>2. /\ DOMAIN Statements(o) = {1, 2, 3} /\ Statements(o)[1] = LockGovernance
      /\ Statements(o)[2] = ForUpdate(Owner) /\ Statements(o)[3] = References(o.subject)
  BY <1>1
<1>3. LockGovernance.locks = {Revision} /\ LockGovernance.mode = "exclusive"
  BY DEF LockGovernance, Exclusive
<1>4. References(o.subject).locks = {Row(o.subject)} /\ References(o.subject).mode = "key_share"
  BY DEF References
<1>5. ForUpdate(Owner).locks = {Row(u) : u \in Owner} /\ ForUpdate(Owner).mode = "exclusive"
  BY DEF ForUpdate
<1>6. Requests(o) = {[at |-> 1, lock |-> l, mode |-> "exclusive"] : l \in {Revision}}
        \union {[at |-> 2, lock |-> l, mode |-> "exclusive"] : l \in {Row(u) : u \in Owner}}
        \union {[at |-> 3, lock |-> l, mode |-> "key_share"] : l \in {Row(o.subject)}}
  BY <1>2, <1>3, <1>4, <1>5 DEF Requests
<1> QED BY <1>6 DEF AsksFor, Asks, Shares

LEMMA AsksForVerdict ==
  ASSUME NEW o \in Operation, o.kind = "verdict"
  PROVE  Requests(o) = AsksFor(o)
<1>1. Statements(o) = <<LockGovernance, ForUpdate(Owner), ForUpdate({o.subject}), DrainOutbox, References(o.actor)>>
  BY DEF Statements, Verdict
<1>2. /\ DOMAIN Statements(o) = {1, 2, 3, 4, 5} /\ Statements(o)[1] = LockGovernance
      /\ Statements(o)[2] = ForUpdate(Owner) /\ Statements(o)[3] = ForUpdate({o.subject})
      /\ Statements(o)[4] = DrainOutbox /\ Statements(o)[5] = References(o.actor)
  BY <1>1
<1>3. /\ LockGovernance.locks = {Revision} /\ LockGovernance.mode = "exclusive"
      /\ DrainOutbox.locks = {Outbox} /\ DrainOutbox.mode = "exclusive"
  BY DEF LockGovernance, DrainOutbox, Exclusive
<1>4. References(o.actor).locks = {Row(o.actor)} /\ References(o.actor).mode = "key_share"
  BY DEF References
<1>5. /\ ForUpdate(Owner).locks = {Row(u) : u \in Owner} /\ ForUpdate(Owner).mode = "exclusive"
      /\ ForUpdate({o.subject}).locks = {Row(o.subject)} /\ ForUpdate({o.subject}).mode = "exclusive"
  BY DEF ForUpdate
<1>6. Requests(o) = {[at |-> 1, lock |-> l, mode |-> "exclusive"] : l \in {Revision}}
        \union {[at |-> 2, lock |-> l, mode |-> "exclusive"] : l \in {Row(u) : u \in Owner}}
        \union {[at |-> 3, lock |-> l, mode |-> "exclusive"] : l \in {Row(o.subject)}}
        \union {[at |-> 4, lock |-> l, mode |-> "exclusive"] : l \in {Outbox}}
        \union {[at |-> 5, lock |-> l, mode |-> "key_share"] : l \in {Row(o.actor)}}
  BY <1>2, <1>3, <1>4, <1>5 DEF Requests
<1> QED BY <1>6 DEF AsksFor, Asks, Shares

LEMMA AsksForSetRole ==
  ASSUME NEW o \in Operation, o.kind = "set_role"
  PROVE  Requests(o) = AsksFor(o)
<1>1. /\ ForUpdate({o.subject}).locks = {Row(o.subject)} /\ ForUpdate({o.subject}).mode = "exclusive"
      /\ DrainOutbox.locks = {Outbox} /\ DrainOutbox.mode = "exclusive"
      /\ References(o.actor).locks = {Row(o.actor)} /\ References(o.actor).mode = "key_share"
  BY DEF ForUpdate, DrainOutbox, Exclusive, References
<1>2. CASE o.subject \in Owner
  <2>1. Statements(o) = <<ForUpdate({o.subject})>>
    BY <1>2 DEF Statements, SetRole
  <2>2. DOMAIN Statements(o) = {1} /\ Statements(o)[1] = ForUpdate({o.subject})
    BY <2>1
  <2>3. Requests(o) = {[at |-> 1, lock |-> l, mode |-> "exclusive"] : l \in {Row(o.subject)}}
    BY <1>1, <2>2 DEF Requests
  <2> QED BY <1>2, <2>3 DEF AsksFor, Asks
<1>3. CASE o.subject \notin Owner
  <2>1. Statements(o) = <<ForUpdate({o.subject}), DrainOutbox, References(o.actor)>>
    BY <1>3 DEF Statements, SetRole, Audited
  <2>2. /\ DOMAIN Statements(o) = {1, 2, 3} /\ Statements(o)[1] = ForUpdate({o.subject})
        /\ Statements(o)[2] = DrainOutbox /\ Statements(o)[3] = References(o.actor)
    BY <2>1
  <2>3. Requests(o) = {[at |-> 1, lock |-> l, mode |-> "exclusive"] : l \in {Row(o.subject)}}
          \union {[at |-> 2, lock |-> l, mode |-> "exclusive"] : l \in {Outbox}}
          \union {[at |-> 3, lock |-> l, mode |-> "key_share"] : l \in {Row(o.actor)}}
    BY <1>1, <2>2 DEF Requests
  <2> QED BY <1>3, <2>3 DEF AsksFor, Asks, Shares
<1> QED BY <1>2, <1>3

LEMMA RequestsAreAsked ==
  ASSUME NEW o \in Operation
  PROVE  Requests(o) = AsksFor(o)
BY AsksForOwnWrite, AsksForBallot, AsksForGrant, AsksForOpen, AsksForVerdict, AsksForSetRole
   DEF Operation, OpKinds

LEMMA RequestsAreTyped ==
  ASSUME NEW o \in Operation
  PROVE  Requests(o) \subseteq [at : Nat, lock : Lock, mode : Mode]
<1>1. o.subject \in User /\ o.actor \in User /\ o.kind \in OpKinds
  BY DEF Operation
<1>2. Owner \subseteq User
  BY AccountsAssumption
<1>3. /\ Revision \in Lock /\ Outbox \in Lock
      /\ \A u \in User : Row(u) \in Lock
  BY DEF Lock
<1>4. "exclusive" \in Mode /\ "key_share" \in Mode
  BY DEF Mode
<1>5. /\ \A i \in Nat, l \in Lock : Asks(i, l) \in [at : Nat, lock : Lock, mode : Mode]
      /\ \A i \in Nat, u \in User : Shares(i, u) \in [at : Nat, lock : Lock, mode : Mode]
  BY <1>3, <1>4 DEF Asks, Shares
<1>6. AsksFor(o) \subseteq [at : Nat, lock : Lock, mode : Mode]
  <2> DEFINE T == [at : Nat, lock : Lock, mode : Mode]
  <2>1. /\ Asks(1, Revision) \in T /\ Asks(2, Outbox) \in T /\ Asks(4, Outbox) \in T
        /\ \A u \in User : Asks(1, Row(u)) \in T /\ Asks(2, Row(u)) \in T /\ Asks(3, Row(u)) \in T
        /\ \A u \in User : Shares(2, u) \in T /\ Shares(3, u) \in T /\ Shares(5, u) \in T
    <3> HIDE DEF T
    <3>1. \A i \in Nat, l \in Lock : Asks(i, l) \in T
      BY <1>5 DEF T
    <3>2. \A i \in Nat, u \in User : Shares(i, u) \in T
      BY <1>5 DEF T
    <3> QED BY <1>3, <3>1, <3>2
  <2> HIDE DEF T
  <2> SUFFICES AsksFor(o) \subseteq T
    BY DEF T
  <2>2. CASE o.kind = "own_write"
    BY <1>1, <2>1, <2>2 DEF AsksFor
  <2>3. CASE o.kind = "set_role"
    BY <1>1, <2>1, <2>3 DEF AsksFor
  <2>4. CASE o.kind = "grant"
    BY <1>1, <2>1, <2>4 DEF AsksFor
  <2>5. CASE o.kind = "ballot"
    BY <1>1, <2>1, <2>5 DEF AsksFor
  <2>6. CASE o.kind = "open"
    BY <1>1, <1>2, <2>1, <2>6 DEF AsksFor
  <2>7. CASE o.kind = "verdict"
    BY <1>1, <1>2, <2>1, <2>7 DEF AsksFor
  <2> QED BY <1>1, <2>2, <2>3, <2>4, <2>5, <2>6, <2>7 DEF OpKinds
<1> QED BY <1>6, RequestsAreAsked

LEMMA LockInvInit == Init => LockInv
<1> SUFFICES ASSUME Init PROVE LockInv
  OBVIOUS
<1>1. TypeOK
  BY DEF Init, TypeOK
<1>2. LocksExclude /\ GrantedInOrder
  BY DEF Init, LocksExclude, GrantedInOrder
<1> QED BY <1>1, <1>2 DEF LockInv

LEMMA LockInvNext == LockInv /\ [Next]_vars => LockInv'
<1> SUFFICES ASSUME LockInv, [Next]_vars PROVE LockInv'
  OBVIOUS
<1> USE DEF LockInv
<1>1. ASSUME NEW t \in Tx, NEW o \in Operation, Begin(t, o) PROVE LockInv'
  <2>1. /\ op[t] = Idle /\ held[t] = {} /\ held' = held /\ traffic' = traffic
        /\ op' = [op EXCEPT ![t] = o]
    BY <1>1 DEF Begin, Running, TypeOK
  <2>2. op' \in [Tx -> Operation \union {Idle}] /\ \A s \in Tx \ {t} : op'[s] = op[s]
    BY <2>1 DEF TypeOK
  <2>3. TypeOK'
    BY <2>1, <2>2 DEF TypeOK, Running
  <2>4. LocksExclude'
    BY <2>1 DEF LocksExclude
  <2>5. ASSUME NEW s \in Tx, NEW h \in held'[s]
        PROVE  /\ Running(s)'
               /\ \E r \in Requests(op'[s]) :
                    /\ h = [lock |-> r.lock, mode |-> r.mode]
                    /\ \A q \in Requests(op'[s]) : Precedes(q, r) => Holds(s, q.lock, q.mode)'
    <3>1. s # t /\ h \in held[s] /\ op'[s] = op[s]
      BY <2>1, <2>2, <2>5
    <3>2. PICK r \in Requests(op[s]) :
            /\ h = [lock |-> r.lock, mode |-> r.mode]
            /\ \A q \in Requests(op[s]) : Precedes(q, r) => Holds(s, q.lock, q.mode)
      BY <3>1 DEF GrantedInOrder
    <3> QED BY <2>1, <3>1, <3>2 DEF GrantedInOrder, Running, Holds
  <2>6. GrantedInOrder'
    BY <2>5 DEF GrantedInOrder
  <2> QED BY <2>3, <2>4, <2>6
<1>2. ASSUME NEW t \in Tx, Acquire(t) PROVE LockInv'
  <2> DEFINE granted == {[lock |-> r.lock, mode |-> r.mode] : r \in Wanted(t)}
  <2>1. /\ WaitsFor(t) = {} /\ Wanted(t) # {} /\ op' = op /\ traffic' = traffic
        /\ held' = [held EXCEPT ![t] = held[t] \union granted]
    BY <1>2 DEF Acquire
  <2>2. Running(t) /\ op[t] \in Operation /\ Wanted(t) \subseteq Missing(t) /\ Missing(t) \subseteq Requests(op[t])
    BY <2>1 DEF Wanted, Missing, Running, TypeOK
  <2>3. Wanted(t) \subseteq [at : Nat, lock : Lock, mode : Mode]
    BY <2>2, RequestsAreTyped
  <2>4. granted \subseteq [lock : Lock, mode : Mode]
    BY <2>3
  <2>5. /\ held' \in [Tx -> SUBSET [lock : Lock, mode : Mode]]
        /\ held'[t] = held[t] \union granted
        /\ \A s \in Tx \ {t} : held'[s] = held[s]
    <3> HIDE DEF granted
    <3> QED BY <2>1, <2>4 DEF TypeOK
  <2>6. TypeOK'
    BY <2>1, <2>2, <2>5 DEF TypeOK, Running
  <2>7. \A h \in granted, u \in Tx \ {t} : \A k \in held[u] : h.lock = k.lock => ~Conflict(h.mode, k.mode)
    BY <2>1 DEF WaitsFor
  <2>8. \A m, n : Conflict(m, n) <=> Conflict(n, m)
    BY DEF Conflict
  <2>9. LocksExclude'
    <3> HIDE DEF granted
    <3> SUFFICES ASSUME NEW s \in Tx, NEW u \in Tx, s # u,
                        NEW h \in held'[s], NEW k \in held'[u], h.lock = k.lock
                 PROVE  ~Conflict(h.mode, k.mode)
      BY DEF LocksExclude
    <3>1. CASE s # t /\ u # t
      BY <2>5, <3>1 DEF LocksExclude
    <3>2. CASE s = t
      BY <2>5, <2>7, <3>2 DEF LocksExclude
    <3>3. CASE u = t
      BY <2>5, <2>7, <2>8, <3>3 DEF LocksExclude
    <3> QED BY <3>1, <3>2, <3>3
  <2>10. \A s \in Tx : \A l, m : Holds(s, l, m) => Holds(s, l, m)'
    BY <2>5 DEF Holds
  <2>11. ASSUME NEW s \in Tx, NEW h \in held'[s]
         PROVE  /\ Running(s)'
                /\ \E r \in Requests(op'[s]) :
                     /\ h = [lock |-> r.lock, mode |-> r.mode]
                     /\ \A q \in Requests(op'[s]) : Precedes(q, r) => Holds(s, q.lock, q.mode)'
    <3>1. CASE h \in held[s]
      <4>1. PICK r \in Requests(op[s]) :
              /\ h = [lock |-> r.lock, mode |-> r.mode]
              /\ \A q \in Requests(op[s]) : Precedes(q, r) => Holds(s, q.lock, q.mode)
        BY <3>1 DEF GrantedInOrder
      <4>2. Running(s)
        BY <3>1 DEF GrantedInOrder
      <4> QED BY <2>1, <2>10, <4>1, <4>2 DEF Running
    <3>2. CASE h \notin held[s]
      <4>1. s = t /\ h \in granted
        <5> HIDE DEF granted
        <5> QED BY <2>5, <2>11, <3>2
      <4>2. PICK r \in Wanted(t) : h = [lock |-> r.lock, mode |-> r.mode]
        BY <4>1
      <4>3. \A q \in Requests(op[t]) : Precedes(q, r) => Holds(t, q.lock, q.mode)
        BY <2>2, <4>2 DEF Wanted, Missing
      <4>4. r \in Requests(op[t])
        BY <2>2, <4>2
      <4> QED BY <2>1, <2>2, <2>10, <4>1, <4>2, <4>3, <4>4 DEF Running
    <3> QED BY <3>1, <3>2
  <2>12. GrantedInOrder'
    BY <2>11 DEF GrantedInOrder
  <2> QED BY <2>6, <2>9, <2>12
<1>3. ASSUME NEW t \in Tx, EndOf(t) PROVE LockInv'
  <2>1. /\ op' = [op EXCEPT ![t] = Idle] /\ held' = [held EXCEPT ![t] = {}] /\ traffic' = traffic
    BY <1>3 DEF EndOf
  <2>2. /\ op'[t] = Idle /\ held'[t] = {}
        /\ \A s \in Tx \ {t} : op'[s] = op[s] /\ held'[s] = held[s]
    BY <2>1 DEF TypeOK
  <2>3. TypeOK'
    BY <2>1, <2>2 DEF TypeOK, Running
  <2>4. LocksExclude'
    BY <2>2 DEF LocksExclude
  <2>5. ASSUME NEW s \in Tx, NEW h \in held'[s]
        PROVE  /\ Running(s)'
               /\ \E r \in Requests(op'[s]) :
                    /\ h = [lock |-> r.lock, mode |-> r.mode]
                    /\ \A q \in Requests(op'[s]) : Precedes(q, r) => Holds(s, q.lock, q.mode)'
    <3>1. s # t /\ h \in held[s] /\ op'[s] = op[s] /\ held'[s] = held[s]
      BY <2>2, <2>5
    <3>2. PICK r \in Requests(op[s]) :
            /\ h = [lock |-> r.lock, mode |-> r.mode]
            /\ \A q \in Requests(op[s]) : Precedes(q, r) => Holds(s, q.lock, q.mode)
      BY <3>1 DEF GrantedInOrder
    <3> QED BY <3>1, <3>2 DEF GrantedInOrder, Running, Holds
  <2>6. GrantedInOrder'
    BY <2>5 DEF GrantedInOrder
  <2> QED BY <2>3, <2>4, <2>6
<1>4. CASE UNCHANGED vars
  BY <1>4 DEF vars, TypeOK, LocksExclude, GrantedInOrder, Running, Holds
<1> QED BY <1>1, <1>2, <1>3, <1>4 DEF Next, Commit, Rollback

(* What is held was granted in the order it was asked for, and excludes whatever conflicts. *)
THEOREM LockInvariance == Spec => []LockInv
BY LockInvInit, LockInvNext, PTL DEF Spec

LEMMA LocksDiffer ==
  /\ Revision # Outbox
  /\ \A u \in User : Row(u) # Revision /\ Row(u) # Outbox /\ Row(u)[2] = u
  /\ \A u, v \in User : Row(u) = Row(v) => u = v
BY DEF Revision, Outbox, Row

LEMMA PartsOfRequests ==
  /\ \A i, l : Asks(i, l).at = i /\ Asks(i, l).lock = l /\ Asks(i, l).mode = "exclusive"
  /\ \A i, u : Shares(i, u).at = i /\ Shares(i, u).lock = Row(u) /\ Shares(i, u).mode = "key_share"
BY DEF Asks, Shares

LEMMA Subjects ==
  ASSUME NEW o \in Operation
  PROVE  /\ o.kind \in OpKinds /\ o.subject \in User /\ o.actor \in User /\ Owner \subseteq User
         /\ o.kind = "verdict" => o.actor \in Owner
BY AccountsAssumption DEF Operation

LEMMA HeldWasAsked ==
  ASSUME LockInv, NEW t \in Tx, NEW h \in held[t]
  PROVE  /\ op[t] \in Operation
         /\ \E r \in AsksFor(op[t]) :
              /\ r.lock = h.lock /\ r.mode = h.mode
              /\ \A q \in AsksFor(op[t]) : Precedes(q, r) => Holds(t, q.lock, q.mode)
<1>1. Running(t) /\ op[t] \in Operation
  BY DEF LockInv, GrantedInOrder, TypeOK, Running
<1>2. Requests(op[t]) = AsksFor(op[t])
  BY <1>1, RequestsAreAsked
<1>3. PICK r \in Requests(op[t]) :
        /\ h = [lock |-> r.lock, mode |-> r.mode]
        /\ \A q \in Requests(op[t]) : Precedes(q, r) => Holds(t, q.lock, q.mode)
  BY DEF LockInv, GrantedInOrder
<1> QED BY <1>1, <1>2, <1>3

LEMMA WantedIsNext ==
  ASSUME LockInv, NEW t \in Tx, NEW w \in Wanted(t)
  PROVE  /\ op[t] \in Operation /\ w \in AsksFor(op[t]) /\ ~Holds(t, w.lock, w.mode)
         /\ \A q \in AsksFor(op[t]) : Precedes(q, w) => Holds(t, q.lock, q.mode)
<1>1. w \in Missing(t) /\ \A q \in Missing(t) : ~Precedes(q, w)
  BY DEF Wanted
<1>2. Running(t) /\ op[t] \in Operation
  BY <1>1 DEF LockInv, TypeOK, Running, Missing
<1>3. Requests(op[t]) = AsksFor(op[t])
  BY <1>2, RequestsAreAsked
<1> QED BY <1>1, <1>2, <1>3 DEF Missing

LEMMA CoveredByHeld ==
  ASSUME LockInv, NEW t \in Tx, NEW h \in held[t]
  PROVE  /\ h.mode \in Mode
         /\ Holds(t, h.lock, h.mode)
         /\ h.mode = "exclusive" => \A m : Holds(t, h.lock, m)
BY DEF LockInv, TypeOK, Holds, Mode

(* Whoever appends to the outbox has every row it needs, an operator's decision apart. *)
LEMMA OutboxIsLast ==
  ASSUME LockInv, NEW t \in Tx, NEW h \in held[t], h.lock = Outbox, op[t].kind # "set_role"
  PROVE  Wanted(t) = {}
<1> SUFFICES ASSUME NEW w \in Wanted(t) PROVE FALSE
  OBVIOUS
<1> DEFINE o == op[t]
<1>1. PICK r \in AsksFor(o) :
        /\ r.lock = Outbox /\ r.mode = h.mode
        /\ \A q \in AsksFor(o) : Precedes(q, r) => Holds(t, q.lock, q.mode)
  BY HeldWasAsked
<1>2. /\ o \in Operation /\ w \in AsksFor(o) /\ ~Holds(t, w.lock, w.mode)
  BY WantedIsNext
<1>3. /\ o.kind \in OpKinds \ {"set_role"} /\ o.subject \in User /\ o.actor \in User /\ Owner \subseteq User
      /\ o.kind = "verdict" => o.actor \in Owner
  BY <1>2, Subjects
<1>4. h.mode = "exclusive" => Holds(t, Outbox, "exclusive")
  BY CoveredByHeld
<1> HIDE DEF o
<1>5. CASE o.kind = "own_write"
  <2>1. AsksFor(o) = {Asks(1, Row(o.subject)), Asks(2, Outbox)}
    BY <1>5 DEF AsksFor
  <2>2. r = Asks(2, Outbox) /\ h.mode = "exclusive"
    BY <1>1, <1>3, <2>1, LocksDiffer, PartsOfRequests
  <2>3. Precedes(Asks(1, Row(o.subject)), r)
    BY <2>2, PartsOfRequests DEF Precedes
  <2> QED BY <1>1, <1>2, <1>4, <2>1, <2>2, <2>3, PartsOfRequests
<1>6. CASE o.kind = "verdict"
  <2>1. AsksFor(o) = {Asks(1, Revision)} \union {Asks(2, Row(u)) : u \in Owner}
           \union {Asks(3, Row(o.subject)), Asks(4, Outbox), Shares(5, o.actor)}
    BY <1>6 DEF AsksFor
  <2>2. r = Asks(4, Outbox) /\ h.mode = "exclusive"
    BY <1>1, <1>3, <2>1, LocksDiffer, PartsOfRequests
  <2>3. \A q \in AsksFor(o) : q.at < 4 => Holds(t, q.lock, q.mode)
    BY <1>1, <2>2, PartsOfRequests DEF Precedes
  <2>4. Holds(t, Row(o.actor), "exclusive")
    BY <1>3, <1>6, <2>1, <2>3, PartsOfRequests
  <2>5. Holds(t, Row(o.actor), "key_share")
    BY <2>4 DEF Holds
  <2>6. w.at < 4 \/ w = Asks(4, Outbox) \/ w = Shares(5, o.actor)
    BY <1>2, <2>1, PartsOfRequests
  <2> QED BY <1>2, <1>4, <2>2, <2>3, <2>5, <2>6, PartsOfRequests
<1>7. CASE o.kind \in {"grant", "ballot", "open"}
  <2>1. \A q \in AsksFor(o) : q.lock = Revision \/ \E u \in User : q.lock = Row(u)
    BY <1>3, <1>7, PartsOfRequests DEF AsksFor
  <2> QED BY <1>1, <2>1, LocksDiffer
<1> QED BY <1>3, <1>5, <1>6, <1>7 DEF OpKinds

(* The consilia take the revision before anything else. *)
LEMMA RevisionComesFirst ==
  ASSUME LockInv, NEW t \in Tx, op[t].kind \in {"open", "ballot", "verdict"}
  PROVE  /\ \A h \in held[t] : Holds(t, Revision, "exclusive")
         /\ \A w \in Wanted(t) : w.lock = Revision \/ Holds(t, Revision, "exclusive")
<1> DEFINE o == op[t]
<1>1. ASSUME o \in Operation
      PROVE  /\ Asks(1, Revision) \in AsksFor(o)
             /\ \A q \in AsksFor(o) : q = Asks(1, Revision) \/ q.at > 1
  BY PartsOfRequests DEF AsksFor
<1>2. ASSUME NEW h \in held[t] PROVE Holds(t, Revision, "exclusive")
  <2>1. PICK r \in AsksFor(o) :
          /\ r.lock = h.lock /\ r.mode = h.mode
          /\ \A q \in AsksFor(o) : Precedes(q, r) => Holds(t, q.lock, q.mode)
    BY <1>2, HeldWasAsked
  <2>2. o \in Operation /\ Holds(t, h.lock, h.mode)
    BY <1>2, HeldWasAsked, CoveredByHeld
  <2>3. CASE r = Asks(1, Revision)
    BY <2>1, <2>2, <2>3, PartsOfRequests
  <2>4. CASE r.at > 1
    <3>1. Precedes(Asks(1, Revision), r)
      BY <2>4, PartsOfRequests DEF Precedes
    <3> QED BY <1>1, <2>1, <2>2, <3>1, PartsOfRequests
  <2> QED BY <1>1, <2>2, <2>3, <2>4
<1>3. ASSUME NEW w \in Wanted(t), w.lock # Revision PROVE Holds(t, Revision, "exclusive")
  <2>1. /\ o \in Operation /\ w \in AsksFor(o)
        /\ \A q \in AsksFor(o) : Precedes(q, w) => Holds(t, q.lock, q.mode)
    BY <1>3, WantedIsNext
  <2>2. w.at > 1
    BY <1>1, <1>3, <2>1, PartsOfRequests
  <2>3. Precedes(Asks(1, Revision), w)
    BY <2>2, PartsOfRequests DEF Precedes
  <2> QED BY <1>1, <2>1, <2>3, PartsOfRequests
<1> QED BY <1>2, <1>3

(* So two of them are never both past it. *)
LEMMA OneConsilium ==
  ASSUME LockInv, NEW t \in Tx, NEW u \in Tx, t # u,
         Holds(t, Revision, "exclusive"), Holds(u, Revision, "exclusive")
  PROVE  FALSE
<1>1. PICK h \in held[t] : h.lock = Revision /\ h.mode = "exclusive"
  BY DEF Holds
<1>2. PICK k \in held[u] : k.lock = Revision /\ k.mode = "exclusive"
  BY DEF Holds
<1> QED BY <1>1, <1>2 DEF LockInv, LocksExclude, Conflict

LEMMA OwnWriteWantsTheOutbox ==
  ASSUME LockInv, NEW t \in Tx, op[t].kind = "own_write", NEW h \in held[t], NEW w \in Wanted(t)
  PROVE  w.lock = Outbox
<1> DEFINE o == op[t]
<1>1. PICK r \in AsksFor(o) :
        /\ r.lock = h.lock /\ r.mode = h.mode
        /\ \A q \in AsksFor(o) : Precedes(q, r) => Holds(t, q.lock, q.mode)
  BY HeldWasAsked
<1>2. o \in Operation /\ w \in AsksFor(o) /\ ~Holds(t, w.lock, w.mode)
  BY WantedIsNext
<1>3. h.mode = "exclusive" => Holds(t, h.lock, "exclusive")
  BY CoveredByHeld
<1> HIDE DEF o
<1>4. AsksFor(o) = {Asks(1, Row(o.subject)), Asks(2, Outbox)}
  BY DEF AsksFor, o
<1>5. Precedes(Asks(1, Row(o.subject)), Asks(2, Outbox))
  BY PartsOfRequests DEF Precedes
<1>6. Holds(t, Row(o.subject), "exclusive")
  BY <1>1, <1>3, <1>4, <1>5, PartsOfRequests
<1> QED BY <1>2, <1>4, <1>6, PartsOfRequests

LEMMA BallotEndsWithTheRow ==
  ASSUME LockInv, NEW t \in Tx, op[t].kind = "ballot", NEW h \in held[t], h.lock # Revision
  PROVE  Wanted(t) = {}
<1> SUFFICES ASSUME NEW w \in Wanted(t) PROVE FALSE
  OBVIOUS
<1> DEFINE o == op[t]
<1>1. PICK r \in AsksFor(o) : r.lock = h.lock /\ r.mode = h.mode
  BY HeldWasAsked
<1>2. o \in Operation /\ w \in AsksFor(o) /\ ~Holds(t, w.lock, w.mode)
  BY WantedIsNext
<1>3. Holds(t, h.lock, h.mode) /\ Holds(t, Revision, "exclusive")
  BY CoveredByHeld, RevisionComesFirst
<1> HIDE DEF o
<1>4. AsksFor(o) = {Asks(1, Revision), Shares(2, o.actor)}
  BY DEF AsksFor, o
<1> QED BY <1>1, <1>2, <1>3, <1>4, PartsOfRequests

LEMMA GrantsClimb ==
  ASSUME LockInv, NEW t \in Tx, op[t].kind = "grant", NEW h \in held[t], NEW w \in Wanted(t)
  PROVE  \E u, v \in User : h.lock = Row(u) /\ w.lock = Row(v) /\ u < v
<1> DEFINE o == op[t]
<1>1. PICK r \in AsksFor(o) :
        /\ r.lock = h.lock /\ r.mode = h.mode
        /\ \A q \in AsksFor(o) : Precedes(q, r) => Holds(t, q.lock, q.mode)
  BY HeldWasAsked
<1>2. o \in Operation /\ w \in AsksFor(o) /\ ~Holds(t, w.lock, w.mode)
  BY WantedIsNext
<1>3. Holds(t, h.lock, h.mode)
  BY CoveredByHeld
<1>4. o.subject \in User /\ o.actor \in User /\ User \subseteq Nat
  BY <1>2, Subjects, AccountsAssumption
<1> HIDE DEF o
<1>5. AsksFor(o) = {Asks(1, Row(o.subject)), Asks(1, Row(o.actor))}
  BY DEF AsksFor, o
<1>6. PICK u \in User : r = Asks(1, Row(u))
  BY <1>1, <1>4, <1>5
<1>7. PICK v \in User : w = Asks(1, Row(v))
  BY <1>2, <1>4, <1>5
<1>8. ~Precedes(w, r)
  BY <1>1, <1>2
<1>9. ~(v < u)
  BY <1>6, <1>7, <1>8, PartsOfRequests, LocksDiffer DEF Precedes
<1>10. u # v
  BY <1>1, <1>2, <1>3, <1>6, <1>7
<1>11. u \in Nat /\ v \in Nat
  BY <1>4
<1>12. u < v
  BY <1>9, <1>10, <1>11
<1> QED BY <1>1, <1>6, <1>7, <1>12, PartsOfRequests

(* The order in which the transactions ask: the revision, rows, rows of a grant by id, the outbox. *)
Rank(t, l, top) ==
  CASE l = Outbox -> top + 3
    [] l = Revision -> 0
    [] l \notin {Outbox, Revision} ->
         IF op[t].kind = "grant" THEN l[2] + 2 ELSE IF op[t].kind = "own_write" THEN 0 ELSE 1

(* An operator's decision asks for his own row last; a grant takes its rows by id only. *)
Compatible(t, u) ==
  /\ op[t].kind # "set_role"
  /\ op[u].kind # "set_role"
  /\ ~(op[t].kind = "grant" /\ op[u].kind \in {"open", "verdict"})
  /\ ~(op[u].kind = "grant" /\ op[t].kind \in {"open", "verdict"})

LEMMA RankIsNat ==
  ASSUME LockInv, NEW t \in Tx, NEW w \in Wanted(t), NEW top \in Nat, \A u \in User : u <= top
  PROVE  /\ w.lock \in {Outbox, Revision} \/ \E u \in User : w.lock = Row(u)
         /\ Rank(t, w.lock, top) \in 0 .. top + 3
         /\ w.lock # Outbox => Rank(t, w.lock, top) < top + 3
<1>1. op[t] \in Operation /\ w \in Requests(op[t])
  BY WantedIsNext, RequestsAreAsked
<1>2. w.lock \in Lock
  BY <1>1, RequestsAreTyped
<1>3. w.lock \in {Outbox, Revision} \/ \E u \in User : w.lock = Row(u)
  BY <1>2 DEF Lock
<1>4. CASE w.lock = Outbox
  BY <1>3, <1>4 DEF Rank
<1>5. CASE w.lock = Revision
  BY <1>3, <1>5, LocksDiffer DEF Rank
<1>6. ASSUME NEW u \in User, w.lock = Row(u)
      PROVE  Rank(t, w.lock, top) \in 0 .. top + 2
  <2>1. w.lock # Outbox /\ w.lock # Revision /\ w.lock[2] = u /\ u \in Nat /\ u <= top
    BY <1>6, LocksDiffer, AccountsAssumption
  <2>2. Rank(t, w.lock, top) = IF op[t].kind = "grant" THEN u + 2 ELSE IF op[t].kind = "own_write" THEN 0 ELSE 1
    BY <2>1 DEF Rank
  <2> QED BY <2>1, <2>2
<1>7. \A n : n \in 0 .. top + 2 => n \in 0 .. top + 3 /\ n < top + 3
  OBVIOUS
<1> QED BY <1>3, <1>4, <1>5, <1>6, <1>7

LEMMA RankRises ==
  ASSUME LockInv, NEW top \in Nat, \A v \in User : v <= top,
         NEW t \in Tx, NEW u \in Tx, t # u, Compatible(t, u),
         NEW w \in Wanted(t), NEW h \in held[u], w.lock = h.lock, Conflict(w.mode, h.mode),
         NEW x \in Wanted(u)
  PROVE  Rank(t, w.lock, top) < Rank(u, x.lock, top)
<1>1. /\ op[t] \in Operation /\ op[u] \in Operation
      /\ op[t].kind \in OpKinds /\ op[u].kind \in OpKinds
  BY WantedIsNext, Subjects
<1>2. ~Holds(u, x.lock, x.mode) /\ ~Holds(t, w.lock, w.mode)
  BY WantedIsNext
<1>3. h.lock # Outbox
  BY OutboxIsLast DEF Compatible
<1>4. /\ Rank(t, w.lock, top) \in 0 .. top + 3 /\ Rank(u, x.lock, top) \in 0 .. top + 3
      /\ Rank(t, w.lock, top) < top + 3
  BY <1>3, RankIsNat
<1>5. x.lock = Outbox => Rank(u, x.lock, top) = top + 3
  BY LocksDiffer DEF Rank
<1>6. CASE x.lock = Outbox
  BY <1>4, <1>5, <1>6
<1>7. CASE op[u].kind = "own_write"
  BY <1>6, <1>7, OwnWriteWantsTheOutbox
<1>8. ASSUME op[u].kind = "grant", x.lock # Outbox
      PROVE  Rank(t, w.lock, top) < Rank(u, x.lock, top)
  <2>1. PICK a \in User, b \in User : h.lock = Row(a) /\ x.lock = Row(b) /\ a < b
    BY <1>8, GrantsClimb
  <2>2. a \in Nat /\ b \in Nat
    BY AccountsAssumption
  <2>3. /\ w.lock # Revision /\ w.lock # Outbox /\ w.lock[2] = a
        /\ x.lock # Revision /\ x.lock # Outbox /\ x.lock[2] = b
    BY <2>1, LocksDiffer
  <2>4. Rank(u, x.lock, top) = b + 2
    BY <1>8, <2>3 DEF Rank
  <2>5. Rank(t, w.lock, top) \in {a + 2, 1, 0}
    BY <2>3 DEF Rank
  <2> QED BY <2>1, <2>2, <2>4, <2>5
<1>9. ASSUME op[u].kind \in {"open", "ballot", "verdict"}, x.lock # Outbox
      PROVE  Rank(t, w.lock, top) < Rank(u, x.lock, top)
  <2>1. Holds(u, Revision, "exclusive")
    BY <1>9, RevisionComesFirst
  <2>2. x.lock # Revision
    <3>1. \A m : Holds(u, Revision, m)
      BY <2>1 DEF Holds
    <3> QED BY <1>2, <3>1
  <2>3. Rank(u, x.lock, top) = 1
    BY <1>9, <2>2 DEF Rank
  <2>4. CASE w.lock = Revision
    <3>1. Rank(t, w.lock, top) = 0
      BY <2>4, LocksDiffer DEF Rank
    <3> QED BY <2>3, <3>1
  <2>5. CASE w.lock # Revision
    <3>1. op[u].kind # "ballot"
      BY <2>5, BallotEndsWithTheRow
    <3>2. op[t].kind \notin {"open", "ballot", "verdict"}
      BY <2>1, <2>5, RevisionComesFirst, OneConsilium
    <3>3. op[t].kind = "own_write"
      BY <1>1, <1>9, <3>1, <3>2 DEF Compatible, OpKinds
    <3>4. Rank(t, w.lock, top) = 0
      BY <1>3, <2>5, <3>3 DEF Rank
    <3> QED BY <2>3, <3>4
  <2> QED BY <2>4, <2>5
<1> QED BY <1>1, <1>6, <1>7, <1>8, <1>9 DEF Compatible, OpKinds

LEMMA LeastOf ==
  ASSUME NEW T, T \subseteq Nat, T # {}
  PROVE  \E n \in T : \A m \in T : n <= m
<1>1. PICK n \in T : \A m \in T : ~(<<m, n>> \in OpToRel(<, Nat))
  BY NatLessThanWellFounded, WFMin
<1>2. \A m \in T : ~(m < n)
  BY <1>1 DEF OpToRel
<1> QED BY <1>2

(* Finitely many ids have a highest one. *)
LEMMA IdsAreBounded == \E top \in Nat : \A u \in User : u <= top
<1> DEFINE n == Cardinality(User)
<1>1. n \in Nat /\ ExistsBijection(1 .. n, User)
  BY FS_CardinalityType, AccountsAssumption
<1>2. PICK f \in [1 .. n -> User] : \A u \in User : \E i \in 1 .. n : f[i] = u
  BY <1>1 DEF ExistsBijection, Bijection, Surjection, Injection
<1> DEFINE Bounded(m) == \E top \in Nat : \A i \in 1 .. m : i \in 1 .. n => f[i] <= top
           failing == {m \in Nat : ~Bounded(m)}
<1>3. failing = {}
  <2> SUFFICES ASSUME failing # {} PROVE FALSE
    OBVIOUS
  <2>1. failing \subseteq Nat
    OBVIOUS
  <2> HIDE DEF failing
  <2>2. PICK m \in failing : \A k \in failing : m <= k
    BY <2>1, LeastOf
  <2>3. m \in Nat /\ ~Bounded(m)
    BY <2>2 DEF failing
  <2>4. CASE m = 0
    <3>1. \A i \in 1 .. m : FALSE
      BY <2>4
    <3>2. Bounded(m)
      BY <3>1
    <3> QED BY <2>3, <3>2
  <2>5. CASE m # 0
    <3>1. m - 1 \in Nat /\ ~(m <= m - 1)
      BY <2>3, <2>5
    <3>2. m - 1 \notin failing
      BY <2>2, <3>1
    <3>3. Bounded(m - 1)
      BY <3>1, <3>2 DEF failing
    <3>4. PICK top \in Nat : \A i \in 1 .. m - 1 : i \in 1 .. n => f[i] <= top
      BY <3>3
    <3>5. User \subseteq Nat
      BY AccountsAssumption
    <3>6. CASE m \in 1 .. n
      <4>1. f[m] \in Nat
        BY <1>2, <3>5, <3>6
      <4>2. PICK b \in Nat : f[m] <= b /\ top <= b
        BY <4>1
      <4>3. \A i \in 1 .. m : i \in 1 .. n => f[i] <= b
        <5> SUFFICES ASSUME NEW i \in 1 .. m, i \in 1 .. n PROVE f[i] <= b
          OBVIOUS
        <5>1. f[i] \in Nat
          BY <1>2, <3>5
        <5>2. i = m \/ i \in 1 .. m - 1
          BY <2>3
        <5> QED BY <3>4, <4>2, <5>1, <5>2
      <4> QED BY <2>3, <4>3
    <3>7. CASE m \notin 1 .. n
      <4>1. \A i \in 1 .. m : i \in 1 .. n => i \in 1 .. m - 1
        BY <2>3, <3>7
      <4>2. \A i \in 1 .. m : i \in 1 .. n => f[i] <= top
        BY <3>4, <4>1
      <4> QED BY <2>3, <4>2
    <3> QED BY <3>6, <3>7
  <2> QED BY <2>3, <2>4, <2>5
<1>4. Bounded(n)
  BY <1>1, <1>3
<1>5. PICK top \in Nat : \A i \in 1 .. n : f[i] <= top
  BY <1>4
<1>6. \A u \in User : u <= top
  BY <1>2, <1>5
<1> QED BY <1>6

(* Along a circle of compatible transactions the rank of what is asked for would rise for ever. *)
LEMMA CirclesHaveACause ==
  ASSUME LockInv, NEW S \in SUBSET Tx, WaitCycle(S)
  PROVE  \E t, u \in S : ~Compatible(t, u)
<1> SUFFICES ASSUME \A t, u \in S : Compatible(t, u) PROVE FALSE
  OBVIOUS
<1>1. PICK top \in Nat : \A u \in User : u <= top
  BY IdsAreBounded
<1> DEFINE Waits(t, w) == \E u \in S \ {t} : \E h \in held[u] : w.lock = h.lock /\ Conflict(w.mode, h.mode)
           Left(t, w) == top + 3 - Rank(t, w.lock, top)
           lefts == {n \in Nat : \E t \in S : \E w \in Wanted(t) : Waits(t, w) /\ n = Left(t, w)}
<1>2. \A t \in S : \E w \in Wanted(t) : Waits(t, w)
  BY DEF WaitCycle, WaitsFor
<1>3. ASSUME NEW t \in S, NEW w \in Wanted(t), Waits(t, w)
      PROVE  Left(t, w) \in lefts
  <2>1. Rank(t, w.lock, top) \in 0 .. top + 3
    BY <1>1, RankIsNat
  <2>2. Left(t, w) \in Nat
    BY <2>1
  <2> QED BY <1>3, <2>2
<1>4. lefts # {}
  BY <1>2, <1>3 DEF WaitCycle
<1>5. PICK n \in lefts : \A m \in lefts : n <= m
  <2>1. lefts \subseteq Nat
    OBVIOUS
  <2> HIDE DEF lefts
  <2> QED BY <1>4, <2>1, LeastOf
<1>6. PICK t \in S : \E w \in Wanted(t) : Waits(t, w) /\ n = Left(t, w)
  BY <1>5
<1>7. PICK w \in Wanted(t) : Waits(t, w) /\ n = Left(t, w)
  BY <1>6
<1>8. PICK u \in S \ {t} : \E h \in held[u] : w.lock = h.lock /\ Conflict(w.mode, h.mode)
  BY <1>7
<1>9. PICK x \in Wanted(u) : Waits(u, x)
  BY <1>2
<1>10. Rank(t, w.lock, top) < Rank(u, x.lock, top)
  <2>1. t \in Tx /\ u \in Tx /\ t # u /\ Compatible(t, u)
    BY <1>8
  <2>2. PICK h \in held[u] : w.lock = h.lock /\ Conflict(w.mode, h.mode)
    BY <1>8
  <2> QED BY <1>1, <2>1, <2>2, RankRises
<1>11. Left(u, x) \in lefts
  BY <1>3, <1>9
<1>12. Left(t, w) <= Left(u, x)
  <2> HIDE DEF lefts, Left
  <2> QED BY <1>5, <1>7, <1>11
<1>13. Rank(t, w.lock, top) \in Int /\ Rank(u, x.lock, top) \in Int
  BY <1>1, RankIsNat
<1> QED BY <1>10, <1>12, <1>13

(* The kinds that run side by side are such that nobody needs a row that another took early. *)
Orderly == \A T \in Traffics : "set_role" \notin T /\ ("grant" \in T => T \intersect {"open", "verdict"} = {})

OfTraffic == \A t \in Tx : Running(t) => op[t].kind \in traffic

LEMMA KindsAreOfTraffic == Spec => []OfTraffic
<1>1. Init => OfTraffic
  BY DEF Init, OfTraffic, Running
<1>2. LockInv /\ OfTraffic /\ [Next]_vars => OfTraffic'
  <2> SUFFICES ASSUME LockInv, OfTraffic, [Next]_vars PROVE OfTraffic'
    OBVIOUS
  <2>1. op \in [Tx -> Operation \union {Idle}]
    BY DEF LockInv, TypeOK
  <2>2. ASSUME NEW t \in Tx, NEW o \in Operation, Begin(t, o) PROVE OfTraffic'
    BY <2>1, <2>2 DEF Begin, OfTraffic, Running
  <2>3. ASSUME NEW t \in Tx, Acquire(t) PROVE OfTraffic'
    BY <2>3 DEF Acquire, OfTraffic, Running
  <2>4. ASSUME NEW t \in Tx, EndOf(t) PROVE OfTraffic'
    BY <2>1, <2>4 DEF EndOf, OfTraffic, Running
  <2>5. CASE UNCHANGED vars
    BY <2>5 DEF vars, OfTraffic, Running
  <2> QED BY <2>2, <2>3, <2>4, <2>5 DEF Next, Commit, Rollback
<1> QED BY <1>1, <1>2, LockInvariance, PTL DEF Spec

(***************************************************************************)
(* NoWaitCycle, for any accounts, owners and number of connections: the    *)
(* edits of the accounts, the consilia and the sweep never wait for each   *)
(* other in a circle, and neither do grants and everything but a           *)
(* consilium that locks the owners.                                        *)
(***************************************************************************)
THEOREM NobodyWaitsInACircle == Orderly => (Spec => []NoWaitCycle)
<1> SUFFICES ASSUME Orderly PROVE Spec => []NoWaitCycle
  OBVIOUS
<1>1. LockInv /\ OfTraffic => NoWaitCycle
  <2> SUFFICES ASSUME LockInv, OfTraffic, NEW S \in SUBSET Tx, WaitCycle(S) PROVE FALSE
    BY DEF NoWaitCycle
  <2>1. PICK t \in S, u \in S : ~Compatible(t, u)
    BY CirclesHaveACause
  <2>2. \A v \in S : Running(v)
    BY DEF WaitCycle, WaitsFor, Wanted, Missing
  <2>3. op[t].kind \in traffic /\ op[u].kind \in traffic /\ traffic \in Traffics
    BY <2>2 DEF OfTraffic, LockInv, TypeOK
  <2> QED BY <2>1, <2>3 DEF Compatible, Orderly
<1> QED BY <1>1, LockInvariance, KindsAreOfTraffic, PTL

(***************************************************************************)
(* Whatever runs side by side, a circle contains an operator's decision,   *)
(* which references his own row after the outbox, or a grant beside a      *)
(* consilium that locks the owners before its subject.                     *)
(***************************************************************************)
THEOREM CirclesNeedADecisionOrAGrant ==
  Spec => [](\A S \in SUBSET Tx : WaitCycle(S) => \E t, u \in S : ~Compatible(t, u))
<1>1. LockInv => \A S \in SUBSET Tx : WaitCycle(S) => \E t, u \in S : ~Compatible(t, u)
  BY CirclesHaveACause
<1> QED BY <1>1, LockInvariance, PTL

=============================================================================
