SPECIFICATION Spec
CONSTANTS
  Proc = {p1, p2}
  None = None
  File = {f1, f2}
  Value = {v1, v2}
  Stamps = 2
  MaxBackups = 1
  Torn = Torn
  Setting <- MCSetting
  Saved = {"production", "dev"}
  Version = {1, 2}
  Depth = 3
  Second = {s1, s2}
  Installed = Installed
  Broken = Broken
  Hosts <- MCHosts
SYMMETRY Alike
INVARIANTS TypeOK BinarySurvives
PROPERTIES ReportsAreTrue FailsForAReason
CHECK_DEADLOCK FALSE
