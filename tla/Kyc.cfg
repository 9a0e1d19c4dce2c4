SPECIFICATION FairSpec
CONSTANTS
  u1 = u1  u2 = u2  doc = doc  w1 = w1  w2 = w2
  Account = {u1, u2}
  Document = {doc}
  NoDocument = NoDocument
  Level = {0}
  Sessions = 2
  Worker = {w1, w2}
  Word <- Words3
  StartMax = 2
  MaxWords = 2
  MaxFaults = 1
INVARIANTS  LostLevelsAreRaised
PROPERTY ApprovedReachesTheLevel
