SPECIFICATION Spec
CONSTANTS
  Request = {r1, r2, r3}
  Username = {root, chief}
  MaxStarts = 3
INVARIANTS TypeOK SuccessIsDurable NeverLockedOut SecondAdminNeedsAFault
PROPERTY DoorStaysShut
CHECK_DEADLOCK FALSE
