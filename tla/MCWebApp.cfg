CONSTANTS
  p1 = p1
  p2 = p2
  Page = {p1, p2}
  Address <- MCAddress
  Host <- MCHost
  Mode <- MCMode
  Cut <- MCCut
  Server = {s1}
  Id = {i1, i2}
  Key <- MCView
  Offer <- MCOffer
  Quit = {q1, q2}
  MaxRestarts = 1
  View <- MCView
  Home = "home"
  LiveView = {"home"}
  MaxMoves = 5
  Nowhere = Nowhere
  None = None
  Free = Free
  Gone = Gone
SPECIFICATION Spec
SYMMETRY Symmetry
CHECK_DEADLOCK FALSE
INVARIANTS WebTypeOK TicketStaysHome ModeAsAgreed ShowsItsRoute DataIsOfTheHeader LogoutEndsTheSession
