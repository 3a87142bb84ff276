CONSTANTS
  a = a
  b = b
  k1 = k1
  k3 = k3
  NoConn = NoConn
  Node <- Two
  Rank <- RankAB
  Conn <- Pairwise
  From <- FromPair
  To <- ToPair
  MaxAttempts = 1
  EventBuffer = 3
  Forgetful <- OnlyA
  MaxCalls = 3
SPECIFICATION FairSpec
INVARIANTS TableIsServed DesiredIsPursued
PROPERTIES OwnCleanupOnly SupersededCloses TablesAgree ForgetSticks
CHECK_DEADLOCK FALSE
