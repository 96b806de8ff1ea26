\* Two users race to upload the same numbers.
SPECIFICATION Spec
CONSTANTS
  Users = {u1, u2}
  Numbers = {n1, n2}
  None = None
  MaxAmount = 2
  Withdrawers = {}
  Sums = {2}
  Uploaders = {p1, p2}
  Workers = {w1, w2}
  Calculated = {n1, n2}
  AccrualSums = {2}
SYMMETRY Interchangeable
INVARIANTS AcceptedIsRecorded AcceptedOnce AnswerNamesOwner OneJobPerOrder
PROPERTY OrderIsMonotone
