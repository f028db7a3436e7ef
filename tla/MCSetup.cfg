\* Three keys that share prefixes; two writers, two goroutines that register, subscribers that read and
\* hot reloads; three signals and two calls of Close; four metas, without and with a buffer of two.
SPECIFICATION MCSpec
CONSTANTS
  m1 = m1
  Keys <- MCKeys
  Events = {"before_set"}
  Observers = {o1, o2}
  Metas = {m1}
  NoMeta = NoMeta
  Sections <- TwoFields
  MaxObs = 2
  NoOne = NoOne
  Publisher = publisher
  Setters = {s1, s2}
  Registrars = {g1, g2}
  SubscriberReads = TRUE
  ReloadLevel1 = TRUE
  NLoaders = 2
  Closers = {c1, c2}
  MaxSignals = 3
  N = 4
  Caps = {0, 2}
  MaxLoads = 2
PROPERTIES TrieIsAMap EveryoneReturns ReloadsUntilClosed LoadEndsTruly
CHECK_DEADLOCK FALSE
