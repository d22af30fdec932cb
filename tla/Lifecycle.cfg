SPECIFICATION FairSpec
CONSTANTS
  Process = {p1, p2, p3}
  Pid = {k1, k2}
  Absent = absent
  Empty = empty
  NoPid = none
  NoProcess = nobody
  MaxBusy = 1
INVARIANTS TypeOK OneInstance FileNamesServer
PROPERTIES TermStops
CHECK_DEADLOCK FALSE
