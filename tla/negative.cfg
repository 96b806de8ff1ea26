\* A withdrawal of a negative sum.
SPECIFICATION UploadedSpec
CONSTANTS
  Users = {u1}
  Numbers = {n1}
  None = None
  MaxAmount = 4
  Withdrawers = {r1}
  Sums <- NegativeSums
  Uploaders = {}
  Workers = {w1}
  Calculated = {n1}
  AccrualSums = {2}
INVARIANT NoMoreThanEarned
