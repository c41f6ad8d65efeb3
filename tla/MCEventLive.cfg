\* Two pages, two reconnects, fair timers and ports.
CONSTANTS
  Page = {p1, p2}
  Source = {e1, e2, e3}
  Timer = {k1, k2}
  None = None
  MaxEvents = 0
  Closer = {p2}
SPECIFICATION FairSpec
PROPERTY Recovers
CHECK_DEADLOCK FALSE
