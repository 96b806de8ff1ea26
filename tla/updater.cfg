\* Batches, pauses, failures and shutdown of two workers.
SPECIFICATION FairSpec
CONSTANTS
  Workers = {w1, w2}
  RetryAfter = {1, 2}
  NotANumber = NotANumber
  MaxTime = 4
  Failures = TRUE
INVARIANTS TypeOK BatchBarrier NeverBlocks FewEarlyRequests
PROPERTIES ShutdownEnds BatchEnds
CHECK_DEADLOCK FALSE
