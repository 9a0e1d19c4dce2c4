\* The system may stop: everybody without authority, and the changes of the bound made.
SPECIFICATION MCSpec
CONSTANTS
  u1 = u1  u2 = u2  u3 = u3  w1 = w1  w2 = w2
  none = none  several = several
  admin = admin  operator = operator
  User = {u1, u2, u3}
  Worker = {w1, w2}
  Unnamed = {none, several}
  Alias = {admin, operator}
  Versions = 2
  Defined <- Catalogs2
  Delegations <- AdminsDelegate
  MaxMoves = 1
  Elevated = {u2}
  p1 = p1
  Person = {p1}
  Namespace = {"sa", "arb"}
  Trusting = {"sa"}
  Segment <- Segments
  Star = "*"
  Names <- Typed
  Publications <- Offered
  SeatPermissions <- SeatMay
  Lead = 1
  MaxTime = 1
  MaxGrants = 2
INVARIANTS GrantsNeverClash GrantsAreNoOracle InclusionIsExact TenantsStayApart NobodyMintsAPeer
PROPERTY GrantsNeedPresentAuthority
SYMMETRY Interchangeable
CHECK_DEADLOCK FALSE
