\* Two replay threads that clients may drive at the same time; nobody asks for a stop.
SPECIFICATION Spec
CONSTANTS
  down = down
  up = up
  NoTask = NoTask
  NoExecutor = NoExecutor
  Replayer = {r1, r2}
  Stopper = {}
  Executor = {e1, e2}
  Report <- MCReport
  Zero = up
  Tasks <- OneTap
  RepeatCount = 1
  MaxDelay = 1
  Jitter = 0
  Serial = FALSE
INVARIANT
  RepeatHonoured
