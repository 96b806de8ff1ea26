------------------------------- MODULE Store -------------------------------
(***************************************************************************)
(* The PostgreSQL tables of Gophermart and the row locks of its             *)
(* transactions (READ COMMITTED).  A table that is keyed by an order number *)
(* is a function that maps the numbers without a row to None.  Only         *)
(* committed rows are here: what an open transaction has written is in the  *)
(* state of the request or the job that runs it, until it commits.          *)
(***************************************************************************)
EXTENDS Money, FiniteSets

CONSTANTS
  Users,    \* registered users: each has its row of table balance
  Numbers,  \* order numbers that pass utils.OrderNumberCheck
  None      \* no row, no user, no lock holder

ASSUME StoreAssumption == /\ None \notin Users \cup Numbers
                          /\ IsFiniteSet(Numbers)

VARIABLES
  orders,       \* table orders, by number
  balance,      \* table balance, by user_id
  withdrawals,  \* table withdrawals, by order_number
  rowLock       \* which transaction holds the lock of a user's balance row

store == <<orders, balance, withdrawals, rowLock>>

Status == {"NEW", "PROCESSING", "INVALID", "PROCESSED"}
Final  == {"INVALID", "PROCESSED"}

\* A NULL accrual is 0: the API shows neither (omitempty).  uploadedAt counts
\* the orders uploaded before.
Order      == [owner : Users, status : Status, accrual : Amount, uploadedAt : Nat]
Withdrawal == [user : Users, sum : Amount]
Balance    == [current : Amount, withdrawn : Amount]

ASSUME RowAssumption == None \notin Order \cup Withdrawal \cup Int

StoreInit ==
  /\ orders      = [n \in Numbers |-> None]
  /\ balance     = [u \in Users |-> [current |-> 0, withdrawn |-> 0]]
  /\ withdrawals = [n \in Numbers |-> None]
  /\ rowLock     = [u \in Users |-> None]

Lock(u, tx) == /\ rowLock[u] = None
               /\ rowLock' = [rowLock EXCEPT ![u] = tx]

\* The numbers that have a row in table orders.
Uploaded == {n \in Numbers : orders[n] # None}

\* A transaction ends, by commit or rollback: its locks are gone.
Unlock(tx) ==
  rowLock' = [u \in Users |-> IF rowLock[u] = tx THEN None ELSE rowLock[u]]
=============================================================================
