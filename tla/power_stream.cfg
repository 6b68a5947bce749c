SPECIFICATION Spec
CONSTANTS
  home = h1
  Homes = {h1}
  NoHome = NoHome
  Undefined = Undefined
  HomeOffset = 0
  PulseModulus = 65536
  PER_UNIT_30A = 2426
  PER_UNIT_100A = 8086
  POWER_LIMIT = 4000000
  UNIT_30A = 10547
  UNIT_100A = 35156
  VOLTAGE = 230
  Loads = {40, 40000}
  Installed <- Places
  MaxWindow = 4
PROPERTIES MappingLearned MappingKept PowerAccurate
