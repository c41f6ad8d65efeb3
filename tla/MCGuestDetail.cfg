\* One guest of either kind, two fields of one panel; two saves, one action at a time, none after the second save.
CONSTANTS
  g1 = g1
  Guest = {g1}
  Section <- OneSection
  Rows <- OneRow
  Reloads <- OneSection
  Tab <- AllTabs
  Request = {r1}
  MaxOthers = 0
  Touched = {"startup", "protection"}
  Typed = {"new"}
  Save = {s1, s2}
  MaxWrites = 1
  None = None
SPECIFICATION Spec
INVARIANTS DetailTypeOK DraftMatchesShown ReadsItsWrites TypedIsSent
PROPERTIES SaveWritesWhatWasTyped DraftKept
CONSTRAINT Quiet
CHECK_DEADLOCK FALSE
