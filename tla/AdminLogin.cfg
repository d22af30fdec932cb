SPECIFICATION FairSpec
CONSTANTS
  Client = {a, b}
  Threshold = 3
  LockTime = 2
  MaxWrong = 5
INVARIANTS TypeOK LockEarned
PROPERTY RightPasswordGetsIn
