\* The first order of a batch is done before it is counted.
SPECIFICATION Spec
CONSTANTS
  Workers = {w1}
  RetryAfter = {}
  NotANumber = NotANumber
  MaxTime = 1
  Failures = FALSE
INVARIANT CounterNotNegative
CHECK_DEADLOCK FALSE
