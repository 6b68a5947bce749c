SPECIFICATION FairSpec
CONSTANTS
  WaitForNet = TRUE
  Gateways = {"router"}
  MaxReleases = 2
  MaxRequests = 2
  MaxOutages = 1
  MaxReboots = 1
  MaxMoves = 1
  MaxIntrusions = 1
INVARIANTS UpgradeSurvivesReset SettingsOfRelease
PROPERTIES ServerStarts FollowsGateway
