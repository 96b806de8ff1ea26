\* Units of 5 seconds: 5, 10 and 30 seconds.  The process ends.
SPECIFICATION Spec
CONSTANTS
  Requests = {r1, r2}
  HandlerTimeout = 1
  TimeoutInners = 2
  TimeoutCommon = 6
INVARIANTS
  HandlersAreDone
PROPERTIES
  ForcedOnlyIfStuck
  ProcessEnds
CHECK_DEADLOCK FALSE
