SPECIFICATION FairSpec
CONSTANTS
  h1 = h1
  h2 = h2
  Homes = {h1, h2}
  NoHome = NoHome
  Undefined = Undefined
  Unknown = Unknown
  HostName = HostName
  HomeOffset = 0
  PulseModulus = 65536
  PER_UNIT_30A = 2426
  PER_UNIT_100A = 8086
  POWER_LIMIT = 4000000
  SaveBufferSize = 2
  config <- Production
  Packets <- Mixed
  Failing = {"prompt", "home_id"}
  MaxLines = 4
  MaxExceptions = 1
  MaxIdleTicks = 1
INVARIANTS TypeOK SentOnce FullBatches
PROPERTIES HomeFileWritten ImplementsRelay
