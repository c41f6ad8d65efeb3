\* Two pages that come and go, two reconnects and the timers between them, events.
CONSTANTS
  Page = {p1, p2}
  Source = {e1, e2, e3}
  Timer = {k1, k2}
  None = None
  MaxEvents = 2
  Closer = {p1, p2}
SPECIFICATION Spec
SYMMETRY Symmetry
INVARIANTS TypeOK SeenInOrder StatusAgrees OneStream ReconnectIsAhead
CHECK_DEADLOCK FALSE
