SPECIFICATION FairSpec
CONSTANTS
  Scripts = {61, 62}
  Pids = {71, 72, 171}
  None = None
  Within <- Digits
  Variants = {"ideal.sh", "util/ideal"}
  MaxOps = 2
  MaxReboots = 1
  MaxOthers = 1
  MaxOutages = 1
INVARIANTS SingleServer ServerIsRecorded StopStops
PROPERTIES ServerComesBack InitdRebootStartsServer
