\* Two older orders without a final answer fill the batch of one worker.
SPECIFICATION UploadedFairSpec
CONSTANTS
  Users = {u1}
  Numbers = {n1, n2, n3}
  None = None
  MaxAmount = 4
  Withdrawers = {}
  Sums = {2}
  Uploaders = {}
  Workers = {w1}
  Calculated = {n1}
  AccrualSums = {2}
PROPERTY EventuallySettled
