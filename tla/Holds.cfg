\* One account, two racing requests to hold it, an unreadable row, and the sweep.
SPECIFICATION FairSpec
CONSTANTS
  User = {u1}
  Press = {p1,p2}
  u1 = u1
  p1 = p1
  p2 = p2
  HoldTTL = 2
  ProposalTTL = 3
  Cooldown = 4
  Batch = 1
  Unlabelled = {}
  Spoilable = {u1}
  Asked = {u1}
  Patience = 1
  MaxTime = 5
CHECK_DEADLOCK FALSE
INVARIANTS
  HoldLapsesUnlessAsked
PROPERTIES
  VerdictStands
  FreshHoldsAreSpaced
  DueHoldsAreReleased
