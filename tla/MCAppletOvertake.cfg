SPECIFICATION Spec
CONSTANTS
  w1 = w1
  w2 = w2
  Widget = {w1, w2}
  EVENT_CAPACITY = 1
  PageCount = 2
  MaxEpoch = 2
  Scenarios <- Hover
INVARIANTS
  LeasesAreExact
CHECK_DEADLOCK FALSE
