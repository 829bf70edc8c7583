\* One replay thread, one stop thread; a client waits for its calls to return.
SPECIFICATION FairSpec
CONSTANTS
  down = down
  up = up
  NoTask = NoTask
  NoExecutor = NoExecutor
  Replayer = {r1}
  Stopper = {s1}
  Executor = {e1, e2}
  Report <- MCReport
  Zero = up
  Tasks <- TapRoll
  RepeatCount = 2
  MaxDelay = 2
  Jitter = 1
  Serial = TRUE
INVARIANTS
  TypeOK
  Conveyor
  NotEarly
  StopSticks
  NothingLeft
  StopReleases
PROPERTIES
  ReplayReturns
  PlaysBack
