\* The updater settles an order while a withdrawal competes for the row and
\* the user looks at the account.
SPECIFICATION UploadedListingsFairSpec
CONSTANTS
  Users = {u1}
  Numbers = {n1, n2}
  None = None
  MaxAmount = 4
  Withdrawers = {r1}
  Sums = {2}
  Uploaders = {}
  Workers = {w1}
  Calculated = {n1}
  AccrualSums = {2}
INVARIANTS BalanceAgrees ListedIsInBalance BalanceIsListed
PROPERTIES ShownIsNotTakenBack EventuallySettled LockIsReleased EventuallyShown
