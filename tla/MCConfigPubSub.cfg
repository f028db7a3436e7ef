\* A writer, two closers and two subscriptions; subscribers may fail or call back.
SPECIFICATION FairSpec
CONSTANTS
  Senders = {s1}
  Closers = {c1, c2}
  Segments <- MCSegments
  Paths <- MCPaths
  Topics <- MCTopics
  HasLog = TRUE
  Reentrant = TRUE
  MaxSubs = 2
  MaxSends = 2
INVARIANTS QuietAfterClose PanicNeedsTwoClosers
PROPERTIES NoCallAfterRemoval AtMostOncePerMessage MessagesGoThrough
CHECK_DEADLOCK FALSE
