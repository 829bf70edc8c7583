\* One keyboard; what the file of the second recording holds.
SPECIFICATION Spec
CONSTANTS
  Listener = {l1}
  MaxSessions = 2
  MaxEvents = 1
  Uptime = 10
INVARIANT
  StopStops
