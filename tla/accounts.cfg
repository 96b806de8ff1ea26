\* Two concurrent withdrawals of any kind of sum against rewards and crashes implement
\* the accounts.
SPECIFICATION UploadedSpec
CONSTANTS
  Users = {u1}
  Numbers = {n1, n2}
  None = None
  MaxAmount = 4
  Withdrawers = {r1, r2}
  Sums <- MixedSums
  Uploaders = {}
  Workers = {w1, w2}
  Calculated = {n1, n2}
  AccrualSums = {3}
SYMMETRY Interchangeable
INVARIANTS TypeOK LockOfOpenTransaction SnapshotIsCurrent NotOverdrawn BalanceAgrees PaidIsRecorded
PROPERTY AccountsSpec
