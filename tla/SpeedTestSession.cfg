SPECIFICATION FairSpec
CONSTANTS
  Cap = 2
  MaxTicks = 2
INVARIANTS
  TypeOK
  ScriptInOrder
  ToldAfterInsert
PROPERTIES
  ImplementsTestRun
  SteadyClientIsTold
  AbandonedHandlerEnds
CHECK_DEADLOCK FALSE
