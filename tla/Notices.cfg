\* Two complex replays, in turn or at once, and one capture device.
SPECIFICATION Spec
CONSTANTS
  Camera = {c1}
  MaxCalls = 2
  MaxTime <- LastSecond
  Uptime <- FirstSecond
  NotifyGap <- Gap
  DetectionTimeout <- Timeout
INVARIANTS
  TypeOK
  FlagsFollowReplay
  ServedWhilePlaying
  NotEarlierClient
  PlayerNoticeTimely
PROPERTIES
  NoticesApart
