\* Two recordings, the second may start while the first is on; two keyboards.
SPECIFICATION FairSpec
CONSTANTS
  Listener = {l1, l2}
  MaxSessions = 2
  MaxEvents = 2
  Uptime = 10
INVARIANTS
  TypeOK
  OrderKept
  FlushedBetweenTicks
  NoLaterSession
  Chronological
PROPERTIES
  EventuallyWritten
  TimersEnd
  KeepsLog
