SPECIFICATION MCSpec
CONSTANTS
  User <- Numbered
  Owner <- Seated
  t1 = t1  t2 = t2  t3 = t3
  Tx = {t1, t2, t3}
  Traffics <- Ordered
  o1 = o1  o2 = o2  o3 = o3
  d1 = d1  d2 = d2
  Account = {o1, o2, o3}
  Desk = {d1, d2}
  Strangers = {o3}
  Listed = {o2, o3}
  Unproven = {}
  MinOwners = 1
  Boards <- Paired
  MaxLevel = 1
  MaxActs = 2
CHECK_DEADLOCK FALSE
SYMMETRY Interchangeable
INVARIANTS  HoldsAreNotMutual LevelsFormAChain
PROPERTY ActsWereAuthorised
