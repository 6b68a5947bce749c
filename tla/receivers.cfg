SPECIFICATION FairSpec
CONSTANTS
  Scripts = {"startutils", "bigsmallstartutils"}
  Runs = {r1, r2}
  Procs = {1, 2, 3}
  Homes = {h1}
  None = None
  Missing = Missing
  Empty = Empty
  MaxWrites = 1
  MaxUnplugs = 1
  MaxErrors = 1
INVARIANTS SingleReceiver OneLateReading 
PROPERTIES ReceiversHear BigSmallRuns
