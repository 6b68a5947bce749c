SPECIFICATION FairSpec
CONSTANTS
  MaxNode = 3
  Nodes = {1, 2, 3}
  Sleepers = {2, 3}
  Meters = {2}
  Mandatory <- Classes
  Optional <- MoreClasses
  Retarget = {2}
  Scenarios <- SmallScenarios
  StartIds = {129, 253}
INVARIANTS TypeOK NeverWaitsForNothing QueriesGoOn StageSettled TellsWhenDone SleepingMeterAsked
PROPERTIES LateCallbackIgnored QueriesSettle
CHECK_DEADLOCK FALSE
