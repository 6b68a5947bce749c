CONSTANTS
  NodeIds = {1, 2}
  Values = {1, 2}
  MaxId = 2
  Data = {d1, d2}
  Unset = Unset
  Notices <- SomeNotices
  MaxResends = 1
  MaxSteps = 3
SPECIFICATION Spec
INVARIANTS NeverFollowsNull TableMirrorsDriver PostedIsPresent
CHECK_DEADLOCK FALSE
