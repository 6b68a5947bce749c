SPECIFICATION Spec
CONSTANTS
  WaitForNet = FALSE
  Gateways = {}
  MaxReleases = 1
  MaxRequests = 1
  MaxOutages = 1
  MaxReboots = 1
  MaxMoves = 0
  MaxIntrusions = 0
INVARIANT UpgradeHappened
