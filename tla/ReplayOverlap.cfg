\* Two replay threads that clients may drive at the same time, and one stop thread.
SPECIFICATION Spec
CONSTANTS
  down = down
  up = up
  NoTask = NoTask
  NoExecutor = NoExecutor
  Replayer = {r1, r2}
  Stopper = {s1}
  Executor = {e1, e2}
  Report <- MCReport
  Zero = up
  Tasks <- OnePress
  RepeatCount = 1
  MaxDelay = 0
  Jitter = 0
  Serial = FALSE
INVARIANTS
  LateAtMostOne
SYMMETRY Symmetry
