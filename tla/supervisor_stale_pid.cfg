SPECIFICATION FairSpec
CONSTANTS
  Scripts = {61, 62}
  Pids = {71, 72, 171}
  None = None
  Within <- Digits
  Variants = {"ideal.sh"}
  MaxOps = 0
  MaxReboots = 1
  MaxOthers = 1
  MaxOutages = 0
PROPERTY RebootStartsServer
