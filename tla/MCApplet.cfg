SPECIFICATION Spec
CONSTANTS
  w1 = w1
  w2 = w2
  Widget = {w1, w2}
  EVENT_CAPACITY = 1
  PageCount = 2
  MaxEpoch = 2
  Scenarios <- Outside
INVARIANTS
  LeasesFollowIntent
  LostIsLast
  ViewCatchesUp
PROPERTY
  SettlesDown
CHECK_DEADLOCK FALSE
