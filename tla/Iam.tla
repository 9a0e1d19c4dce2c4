---------------------------------- MODULE Iam ----------------------------------
(***************************************************************************)
(* What a grant means: names, patterns and catalogs (iam/src/lib.rs,       *)
(* domain/src/iam.rs), their publication by the tenants' clients           *)
(* (runner/src/relying_party.rs, infrastructure/grants.rs) and the         *)
(* permissions a session or a relying party is shown, which are put        *)
(* together from three reads in no common transaction (directory.rs).      *)
(*                                                                         *)
(* Who may grant is the matter of Grants; here grants come and go.         *)
(***************************************************************************)
EXTENDS Naturals, SequencesExt

CONSTANTS
  Person,
  Namespace,       \* the namespaces of the tenants, one for each
  Trusting,        \* those whose tenant lets a granting seat hold everything
  Segment,         \* what stands between two colons
  Star,            \* the segment that stands for others
  Names,           \* what an operator may type as the target of a grant
  Publications,    \* what a tenant's client may publish, well formed or not
  SeatPermissions, \* what a granting seat may do on this plane
  Lead,            \* how far ahead of the clock a version may lie
  MaxTime,         \* bound: instants of the clock, 0 .. MaxTime
  MaxGrants        \* bound: grants in force at once

Reserved == {"iam", "concierge", "bank", "seat"}
FirstParty == "first party"

ASSUME StarAssumption == Star \notin Segment
(* The CHECK of the table of tenants. *)
ASSUME NamespaceAssumption == Namespace \subseteq Segment \ Reserved
(* Segments are never used up: any two targets leave one that neither of them mentions. *)
ASSUME NamesAssumption ==
  /\ Names \subseteq Seq(Segment \union {Star})
  /\ \A t, s \in Names : \E x \in Segment : x \notin ToSet(t) \union ToSet(s)
ASSUME SeatAssumption == \A n \in SeatPermissions : n[1] \in Reserved

VARIABLES
  now,      \* seconds
  seated,   \* the accounts whose seat may grant
  grants,   \* the grants in force: [user, target]
  catalogs, \* the catalog of the highest version of each namespace
  reader    \* a GetMe or a ListGrants under way, and what it answered

iamVars == <<now, seated, grants, catalogs, reader>>

(***************************************************************************)
(* Names and patterns                                                      *)
(***************************************************************************)
IsSegment(s) == s \in Segment

IsPattern(n) == Len(n) >= 2 /\ IsSegment(n[1]) /\ \A i \in 2 .. Len(n) : n[i] = Star \/ IsSegment(n[i])

Trailing(n) == n[Len(n)] = Star

(* Mutant: a star at the end stands for one segment, as any other does. *)
Includes_OneForMany(mine, theirs) ==
  /\ Len(theirs) = Len(mine)
  /\ \A i \in 1 .. Len(mine) : mine[i] = Star \/ mine[i] = theirs[i]

(* A star stands for one segment, at the end for one or more. *)
Includes(mine, theirs) ==
  LET fixed == IF Trailing(mine) THEN Len(mine) - 1 ELSE Len(mine)
  IN  /\ IF Trailing(mine) THEN Len(theirs) > fixed ELSE Len(theirs) = fixed
      /\ \A i \in 1 .. fixed : mine[i] = Star \/ mine[i] = theirs[i]
      /\ Trailing(theirs) => Len(theirs) > fixed

Matches(pattern, permission) == Includes(pattern, permission)

IsAlias(n) == Len(n) = 2 /\ ~Trailing(n)

(* No pattern spans two namespaces, and the seats' namespaces are nobody's to grant in. *)
IsTarget(n) == IsPattern(n) /\ n[1] \notin Reserved

(***************************************************************************)
(* Catalogs                                                                *)
(***************************************************************************)
None == [version |-> 0, permissions |-> {}, aliases |-> {}]

Members(c, name) == UNION {a.members : a \in {b \in c.aliases : b.name = name}}
Delegates(c, name) == UNION {a.delegates : a \in {b \in c.aliases : b.name = name}}
Defines(c, name) == \E a \in c.aliases : a.name = name

(* Mutant: the names are checked for their form alone. *)
Check_FormAlone(namespace, c) ==
  /\ \A p \in c.permissions : Len(p) >= 3 /\ ToSet(p) \subseteq Segment
  /\ \A a \in c.aliases :
       /\ IsAlias(a.name) /\ ToSet(a.name) \subseteq Segment
       /\ a.members \subseteq c.permissions
       /\ \A d \in a.delegates : Defines(c, d) /\ Delegates(c, d) = {}

(* Mutant: that what is delegated delegates nothing is not checked. *)
Check_Peers(namespace, c) ==
  /\ \A p \in c.permissions : Len(p) >= 3 /\ ToSet(p) \subseteq Segment /\ p[1] = namespace
  /\ \A a \in c.aliases :
       /\ IsAlias(a.name) /\ ToSet(a.name) \subseteq Segment /\ a.name[1] = namespace
       /\ a.members \subseteq c.permissions
       /\ \A d \in a.delegates : Defines(c, d)

Check(namespace, c) ==
  /\ \A p \in c.permissions : Len(p) >= 3 /\ ToSet(p) \subseteq Segment /\ p[1] = namespace
  /\ \A a \in c.aliases :
       /\ IsAlias(a.name) /\ ToSet(a.name) \subseteq Segment /\ a.name[1] = namespace
       /\ a.members \subseteq c.permissions
       /\ \A d \in a.delegates : Defines(c, d) /\ Delegates(c, d) = {}

PublishedTwice(c) == \E a, b \in c.aliases : a # b /\ a.name = b.name

(* What a target grants under a catalog; nothing, if it defines no such name any more. *)
Granted(target, c) ==
  IF IsAlias(target) THEN Members(c, target) ELSE {p \in c.permissions : Matches(target, p)}

Resolve(granting, trusting, targets, c) ==
  IF granting /\ trusting THEN c.permissions ELSE UNION {Granted(t, c) : t \in targets}

(* Only the alias itself delegates, never a pattern that covers it. *)
MayPassOn(targets, c) == UNION {Delegates(c, t) : t \in targets}

TargetsOf(u) == {g.target : g \in {h \in grants : h.user = u}}
Ours(targets, namespace) == {t \in targets : t[1] = namespace}

(***************************************************************************)
(* Publication, grants and seats                                           *)
(***************************************************************************)
NoReader == [step |-> "idle"]

IamInit ==
  /\ now = 0
  /\ seated \in SUBSET Person
  /\ grants = {}
  /\ catalogs = [n \in Namespace |-> None]
  /\ reader = NoReader

(* A version is the time of a build's commit; what it does not supersede is kept. *)
Accepts(n, c) ==
  /\ c.version <= now + Lead
  /\ ~PublishedTwice(c)
  /\ Check(n, c)

PublishCatalog(n, c) ==
  /\ Accepts(n, c)
  /\ catalogs[n].version < c.version
  /\ catalogs' = [catalogs EXCEPT ![n] = c]
  /\ UNCHANGED <<now, seated, grants, reader>>

GrantTarget(u, target) ==
  /\ Cardinality(grants) < MaxGrants
  /\ IsTarget(target)
  /\ target[1] \in Namespace /\ Granted(target, catalogs[target[1]]) # {}
  /\ grants' = grants \union {[user |-> u, target |-> target]}
  /\ UNCHANGED <<now, seated, catalogs, reader>>

RevokeTarget(g) ==
  /\ grants' = grants \ {g}
  /\ UNCHANGED <<now, seated, catalogs, reader>>

SetSeat(u) ==
  /\ seated' = IF u \in seated THEN seated \ {u} ELSE seated \union {u}
  /\ UNCHANGED <<now, grants, catalogs, reader>>

Tick ==
  /\ now < MaxTime
  /\ now' = now + 1
  /\ UNCHANGED <<seated, grants, catalogs, reader>>

(***************************************************************************)
(* The permissions somebody is shown                                       *)
(***************************************************************************)

(* Whoever asks for the user: a session of this plane, or the relying party of a tenant. *)
Audience == Namespace \union {FirstParty}

GetMe(u, audience) ==
  /\ reader.step \in {"idle", "shown", "listed"}
  /\ reader' = [step |-> "gated", user |-> u, audience |-> audience, granting |-> u \in seated]
  /\ UNCHANGED <<now, seated, grants, catalogs>>

(* Mutant: a relying party is shown what a session of this plane is. *)
Catalogs_All(audience) == catalogs

(* A relying party reads its own tenant's namespace. *)
Catalogs(audience) ==
  [n \in IF audience = FirstParty THEN Namespace ELSE {audience} |-> catalogs[n]]

ReadCatalogs ==
  /\ reader.step = "gated"
  /\ reader' = [step |-> "read", user |-> reader.user, audience |-> reader.audience,
                granting |-> reader.granting, catalogs |-> Catalogs(reader.audience)]
  /\ UNCHANGED <<now, seated, grants, catalogs>>

PermissionsOf(r, targets) ==
  (IF r.audience = FirstParty /\ r.granting THEN SeatPermissions ELSE {})
    \union UNION {Resolve(r.granting, n \in Trusting, Ours(targets, n), r.catalogs[n]) : n \in DOMAIN r.catalogs}

Show ==
  /\ reader.step = "read"
  /\ reader' = [step |-> "shown", user |-> reader.user, audience |-> reader.audience,
                granting |-> reader.granting, permissions |-> PermissionsOf(reader, TargetsOf(reader.user))]
  /\ UNCHANGED <<now, seated, grants, catalogs>>

(***************************************************************************)
(* The holders of a namespace, for whoever has a say in it                 *)
(***************************************************************************)
Authority(u, n) ==
  CASE u \in seated -> "seat"
    [] u \notin seated /\ MayPassOn(Ours(TargetsOf(u), n), catalogs[n]) # {} -> "delegate"
    [] OTHER -> "none"

ListGrants(u, n) ==
  /\ reader.step \in {"idle", "shown", "listed"}
  /\ Authority(u, n) # "none"
  /\ reader' = [step |-> "listing", namespace |-> n, names |-> Authority(u, n) = "seat"]
  /\ UNCHANGED <<now, seated, grants, catalogs>>

Holders(n) ==
  /\ reader.step = "listing" /\ reader.namespace = n
  /\ reader' = [step |-> "held", namespace |-> n, names |-> reader.names,
                rows |-> {g \in grants : g.target[1] = n}]
  /\ UNCHANGED <<now, seated, grants, catalogs>>

(* What the catalog, read last, no longer defines is shown as orphaned. *)
Answer ==
  /\ reader.step = "held"
  /\ reader' = [step |-> "listed", namespace |-> reader.namespace, names |-> reader.names,
                rows |-> {[user |-> g.user, target |-> g.target,
                           orphaned |-> Granted(g.target, catalogs[reader.namespace]) = {}] : g \in reader.rows}]
  /\ UNCHANGED <<now, seated, grants, catalogs>>

IamNext ==
  \/ \E n \in Namespace, c \in Publications : PublishCatalog(n, c)
  \/ \E u \in Person :
       \/ \E target \in Names : GrantTarget(u, target)
       \/ \E audience \in Audience : GetMe(u, audience)
       \/ \E n \in Namespace : ListGrants(u, n)
       \/ SetSeat(u)
  \/ \E g \in grants : RevokeTarget(g)
  \/ ReadCatalogs \/ Show \/ (\E n \in Namespace : Holders(n)) \/ Answer
  \/ Tick

IamSpec == IamInit /\ [][IamNext]_iamVars

(***************************************************************************)
(* What is promised                                                        *)
(***************************************************************************)

InForce == {g.target : g \in grants}

(* The names in the namespaces of two patterns, of their segments and one other, *)
(* and a segment longer than either.                                              *)
Written(t, s) ==
  LET letters == (ToSet(t) \union ToSet(s) \union {CHOOSE x \in Segment : x \notin ToSet(t) \union ToSet(s)}) \ {Star}
      longest == 1 + Max({Len(t), Len(s)})
  IN  UNION {{<<namespace>> \o rest : rest \in UNION {[1 .. k -> letters] : k \in 1 .. longest - 1}} :
               namespace \in {t[1], s[1]}}

(* The reference: the star at the end, written as often as need be, and each star filled in. *)
Stretched(pattern, k) ==
  IF Trailing(pattern) THEN Front(pattern) \o [i \in 1 .. k |-> Star] ELSE pattern

Fills(pattern, name) ==
  \E k \in 1 .. Len(name) :
    LET long == Stretched(pattern, k)
    IN  Len(long) = Len(name) /\ \A i \in 1 .. Len(name) : long[i] \in {Star, name[i]}

(***************************************************************************)
(* "A `*` stands for one segment, a trailing `*` for one or more" and      *)
(* "whether everything `other` matches, `self` matches too" (iam/lib.rs):  *)
(* of the targets in force, one contains another exactly when every name   *)
(* the other can be filled in to is one the first can be filled in to.     *)
(***************************************************************************)
InclusionIsExact ==
  \A t, s \in InForce :
    Includes(t, s) <=> \A name \in Written(t, s) : Fills(s, name) => Fills(t, name)

(***************************************************************************)
(* "Seats never live in a tenant namespace and are never granted ... no    *)
(* grant can reach a seat's permissions" and "a relying party reads its    *)
(* own tenant's namespace and nothing else" (domain/iam.rs, directory.rs): *)
(* whatever the tenants publish, the operators type and the reads of one   *)
(* answer fall between.                                                    *)
(***************************************************************************)
TenantsStayApart ==
  reader.step = "shown" =>
    \A p \in reader.permissions :
      CASE p[1] \in Reserved -> reader.audience = FirstParty /\ p \in SeatPermissions
        [] p[1] \notin Reserved -> reader.audience \in {FirstParty, p[1]}

(***************************************************************************)
(* "A holder can never mint a peer, nor someone who could mint them"       *)
(* (iam/lib.rs): what a delegate may pass on under the present catalog      *)
(* lets nobody pass on anything, republished or not.                       *)
(***************************************************************************)
NobodyMintsAPeer ==
  \A u \in Person, n \in Namespace :
    MayPassOn(MayPassOn(TargetsOf(u), catalogs[n]), catalogs[n]) = {}
=============================================================================
