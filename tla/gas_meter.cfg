SPECIFICATION Spec
CONSTANTS
  home = h1
  node = 5
  Homes = {h1}
  NoHome = NoHome
  Undefined = Undefined
  HomeOffset = 0
  PulseModulus = 4
  MaxTotal = 13
  MaxPackets = 4
INVARIANTS NeverOverReports ShortByWraps
