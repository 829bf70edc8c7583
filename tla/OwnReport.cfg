\* Two senders and a host: what each notification carries.
SPECIFICATION Spec
CONSTANTS
  keyboard = keyboard
  mouse = mouse
  h1 = h1
  h2 = h2
  NoHost = NoHost
  Sender = {s1, s2}
  Fatal = {s1}
  Host <- Hosts
  Channel <- Channels
  MaxReports = 2
  MaxCallbacks = 2
PROPERTY
  OwnReport
