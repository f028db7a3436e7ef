\* A Set, a subscriber that reads and a goroutine that registers.
SPECIFICATION FairSpec
CONSTANTS
  s1 = s1  s2 = s2  g1 = g1  g2 = g2
  NoOne = NoOne
  Publisher = publisher
  Setters = {s1, s2}
  Registrars = {g1}
  SubscriberReads = TRUE
  ReloadLevel1 = FALSE
PROPERTY SetAlwaysReturns
CHECK_DEADLOCK FALSE
