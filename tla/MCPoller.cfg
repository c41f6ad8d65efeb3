\* One node, two polls at a time, one failure of any kind.
CONSTANTS
  n1 = n1
  Node = {n1}
  MaxChanges = 2
  MaxFaults = 1
  Poll = {q1, q2}
  Ticket = {k1, k2, k3}
  None = None
  Schedules <- Schedule
  Broken <- NoStorage
SPECIFICATION FairSpec
PROPERTIES  LostIsReplaced
INVARIANTS TypeOK
