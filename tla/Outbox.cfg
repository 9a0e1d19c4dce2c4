SPECIFICATION FairSpec
CONSTANTS
  t1 = t1
  t2 = t2
  User <- Two
  Tx = {t1, t2}
  Page = 2
  MaxVersion <- Uneven
  MaxPosition = 4
  MaxGeneration = 1
CHECK_DEADLOCK FALSE
PROPERTIES FeedSpec MirrorCatchesUp
