\* A page that logs out, and one that comes back, around two reconnects.
CONSTANTS
  Page = {p1, p2}
  Source = {e1, e2, e3}
  Timer = {k1, k2}
  None = None
  MaxEvents = 0
  Closer = {}
SPECIFICATION Spec
INVARIANT NoIdleStream
CHECK_DEADLOCK FALSE
