\* A keyboard and a capture board, each plugged in twice, and an activity created twice.
SPECIFICATION Spec
CONSTANTS
  keyboard = keyboard
  board = board
  Device = {keyboard, board}
  Type <- TypeOf
  MaxPlugs = 2
  MaxLaunches = 2
INVARIANTS
  TypeOK
  NeverShutOut
  NotHeardTwice
CHECK_DEADLOCK FALSE
