\* A withdrawal of half a kopeck.
SPECIFICATION UploadedSpec
CONSTANTS
  Users = {u1}
  Numbers = {n1}
  None = None
  MaxAmount = 4
  Withdrawers = {r1}
  Sums = {1}
  Uploaders = {}
  Workers = {w1}
  Calculated = {n1}
  AccrualSums = {2}
INVARIANT BalanceIsExact
