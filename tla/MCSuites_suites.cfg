SPECIFICATION DeployedSpec
CONSTANTS
  Accounts = {platform}
  Platform = platform
  Factory = factory
  References = {main, other}
  Main = main
  Other = other
  Auxiliaries = {aux}
  s1 = s1
  s2 = s2
  Suites = {s1, s2}
  Versions = {v1, v2}
  First = v1
  Second = v2
  Releases = {x, y}
  None = none
  Movable = {"irs"}
SYMMETRY Symmetry
INVARIANTS
  SuitesTypeOK
  SuitesRunOneRelease
PROPERTIES
  OnlyUpgradesChangeCode
