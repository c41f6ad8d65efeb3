\* A node with a container and a VM, two requests.
CONSTANTS
  ct = ct
  vm = vm
  Guest = {ct, vm}
  Lxc = {ct}
  Section <- NodeReloads
  Rows <- ListRows
  Reloads <- NodeReloads
  Tab <- OneTab
  Request = {r1, r2}
  MaxOthers = 1
  None = None
SPECIFICATION ActionsSpec
INVARIANTS ActionsTypeOK PanelFitsStatus BusyTellsTheRequest
PROPERTY ConfirmationKept
SYMMETRY Symmetry
CHECK_DEADLOCK FALSE
