SPECIFICATION Spec
CONSTANTS
  Sessions = {"s1", "s2"}
  Files = {"f", "m"}
  UserFiles = {"f"}
  MetaNamed = {"m"}
  Writers = {"w1"}
  Readers = {"r1"}
  Serial = TRUE
  MaxSaves = 2
  MaxEvents = 2
  MaxRewinds = 1
INVARIANTS SavedStaysReadable LoadsAreWhole KeptEventsSurvive
CHECK_DEADLOCK FALSE
