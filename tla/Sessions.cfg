SPECIFICATION FairSpec
CONSTANTS
  u = u  v = v  p = p  q = q
  Web = {u, v}
  Worker = {p, q}
  MaxVersion = 1
  MaxRotations = 1
  MaxFaults = 1
INVARIANTS SessionsDieForAReason
PROPERTIES RevokedTokensAreNotRenewed EndedSessionsLeaveTheLocker
