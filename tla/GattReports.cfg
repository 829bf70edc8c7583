\* Two senders, two hosts that come and go, both report characteristics.
SPECIFICATION Spec
CONSTANTS
  keyboard = keyboard
  mouse = mouse
  h1 = h1
  h2 = h2
  NoHost = NoHost
  Sender = {s1, s2}
  Fatal = {s1}
  Host <- Hosts
  Channel <- Channels
  MaxReports = 3
  MaxCallbacks = 2
INVARIANTS
  TypeOK
  Converged
  OnlyHostServed
SYMMETRY Symmetry
