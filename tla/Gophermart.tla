---------------------------- MODULE Gophermart ----------------------------
(***************************************************************************)
(* The service: withdrawal requests, upload requests and the updater on one *)
(* store, and the crash of the process.                                     *)
(***************************************************************************)
EXTENDS Withdrawals, Uploads, Accruals

ASSUME GophermartAssumption == Withdrawers \cap Workers = {}

vars == <<store, withdrawVars, uploadVars, accrualVars>>

Init == StoreInit /\ WithdrawalsInit /\ UploadsInit /\ AccrualsInit

\* The process ends and is started again: the server rolls back what was not
\* committed and the clients lose their answers.  Besides a kill or the forced
\* exit of main this is what a panic in a goroutine of the updater does, as
\* when BeginTxx fails in UpdateOrderAccrual or the poll returns an error.
Crash ==
  /\ wreq' = [r \in Withdrawers |-> IdleWithdraw]
  /\ ureq' = [r \in Uploaders |-> IdleUpload]
  /\ job'  = [w \in Workers |-> IdleJob]
  /\ ch'   = {}
  /\ rowLock' = [u \in Users |-> None]
  /\ UNCHANGED <<orders, balance, withdrawals, paid, accepted>>

\* A step of the process while it runs.
Running ==
  \/ \E r \in Withdrawers : WithdrawStep(r) /\ UNCHANGED <<uploadVars, accrualVars>>
  \/ \E r \in Uploaders : UploadStep(r) /\ UNCHANGED <<withdrawVars, accrualVars>>
  \/ Poll /\ UNCHANGED <<withdrawVars, uploadVars>>
  \/ \E w \in Workers : AccrualStep(w) /\ UNCHANGED <<withdrawVars, uploadVars>>

Next == Running \/ Crash

Spec == Init /\ [][Next]_vars
-----------------------------------------------------------------------------
(***************************************************************************)
(* Fairness.  The goroutines of the updater are always scheduled, and what  *)
(* a job asks of the database or of the accrual system for one order does   *)
(* not fail every time (an order without a final answer is only ever        *)
(* marked); the process does not crash for ever.  Nothing is assumed of the *)
(* clients.                                                                 *)
(***************************************************************************)
\* The step A of the job that works on order n.
Working(n, A(_)) == \E w \in Workers : /\ job[w].number = n
                                       /\ A(w)
                                       /\ UNCHANGED <<withdrawVars, uploadVars>>

\* A withdrawal that has the lock of a row goes on or fails: the timeout of
\* the handler cancels what takes too long.
TransactionEnds(r) == /\ wreq[r].pc \in {"locked", "inserted", "updated"}
                      /\ WithdrawStep(r)
                      /\ ~WithdrawTimeout(r)
                      /\ UNCHANGED <<uploadVars, accrualVars>>

Fairness ==
  /\ WF_vars(Poll /\ UNCHANGED <<withdrawVars, uploadVars>>)
  /\ \A w \in Workers :
       /\ WF_vars(Receive(w) /\ UNCHANGED <<withdrawVars, uploadVars>>)
       /\ WF_vars(AccrualStep(w) /\ UNCHANGED <<withdrawVars, uploadVars>>)
  /\ \A n \in Numbers : SF_vars(Working(n, MarkProcessing))
  /\ \A n \in Calculated :
       /\ SF_vars(Working(n, FinalAnswer))
       /\ SF_vars(Working(n, SettleOrder))
       /\ SF_vars(Working(n, UpdateOrder))
       /\ SF_vars(Working(n, Credit))
       /\ SF_vars(Working(n, CommitAccrual))
  /\ \A r \in Withdrawers : WF_vars(TransactionEnds(r))
  /\ <>[][Running]_vars

FairSpec == Spec /\ Fairness
-----------------------------------------------------------------------------
(***************************************************************************)
(* The promise of the service.  Its accounts have no balance row, so the    *)
(* refinement also says that the row never lets a user spend points twice.  *)
(***************************************************************************)
Settled(n) == orders[n] # None /\ orders[n].status \in Final

\* AddWithdraw computes in float64 and three columns are rounded, each for
\* itself: one kopeck at most for a sum that is not of whole kopecks.
Slack == IF \A s \in Sums : Whole(s) THEN 0 ELSE 2

Accounts == INSTANCE LoyaltyAccounts WITH
  owner  <- [n \in Numbers |-> IF orders[n] = None THEN None ELSE orders[n].owner],
  reward <- [n \in Numbers |-> IF Settled(n) THEN orders[n].accrual ELSE None]

\* Every step of the service is one event of the accounts or none: a number is
\* accepted from one user, settled once, used for one withdrawal, and no
\* interleaving of requests, updater, failures and crashes lets a withdrawal
\* take what is not there.
AccountsSpec == Accounts!Spec
-----------------------------------------------------------------------------
WithdrawPc   == {"idle", "begin", "locked", "inserted", "updated", "answering"}
WithdrawCode == {0, 200, 400, 402, 500, 503}
WithdrawRequest ==
  [pc : WithdrawPc, user : Users \cup {None}, number : Numbers \cup {None},
   sum : Sums \cup {0}, current : Amount, withdrawn : Amount, code : WithdrawCode,
   late : BOOLEAN]

UploadPc   == {"idle", "insert", "lookup", "answering"}
UploadCode == {0, 200, 202, 400, 409, 500, 503}
UploadRequest ==
  [pc : UploadPc, user : Users \cup {None}, number : Numbers \cup {None},
   code : UploadCode, late : BOOLEAN]

JobPc == {"idle", "mark", "ask", "settle", "begin", "ordered", "credited"}
Job ==
  [pc : JobPc, user : Users \cup {None}, number : Numbers \cup {None},
   status : Final \cup {"NEW"}, accrual : AccrualSums \cup {0}, current : Amount]

\* The values the tables, the requests and the jobs hold.
TypeOK ==
  /\ orders \in [Numbers -> Order \cup {None}]
  /\ balance \in [Users -> Balance]
  /\ withdrawals \in [Numbers -> Withdrawal \cup {None}]
  /\ rowLock \in [Users -> Withdrawers \cup Workers \cup {None}]
  /\ wreq \in [Withdrawers -> WithdrawRequest]
  /\ paid \subseteq [user : Users, number : Numbers, sum : Sums]
  /\ ureq \in [Uploaders -> UploadRequest]
  /\ accepted \subseteq [user : Users, number : Numbers]
  /\ ch \subseteq OrderToProcess
  /\ job \in [Workers -> Job]

Locking == {"locked", "inserted", "updated"}

\* A balance row is locked by exactly the open transactions that have read or
\* written it: no return path of a handler or of a job keeps the lock, and no
\* two transactions hold it.
LockOfOpenTransaction ==
  \A u \in Users :
    /\ \A r \in Withdrawers :
         rowLock[u] = r <=> wreq[r].user = u /\ wreq[r].pc \in Locking
    /\ \A w \in Workers :
         rowLock[u] = w <=> job[w].user = u /\ job[w].pc = "credited"

\* AddWithdraw writes the balance row from values it read earlier: until the
\* row is written they are still the row's, so a reward that is credited or a
\* withdrawal that is made meanwhile is not lost.
SnapshotIsCurrent ==
  \A r \in Withdrawers : wreq[r].pc \in {"locked", "inserted"} =>
    /\ wreq[r].current = balance[wreq[r].user].current
    /\ wreq[r].withdrawn = balance[wreq[r].user].withdrawn

\* No interleaving of withdrawals overdraws a user.
NotOverdrawn == \A u \in Users : balance[u].current >= 0

\* The balance row agrees with the rows it summarises: the current balance is
\* the accrual of the user's orders less the user's withdrawals, withdrawn is
\* the sum of the withdrawals, and together they are the accrual.  With sums of
\* whole kopecks this is exact; otherwise each withdrawal is rounded once more.
Near(x, y, u) == x - y \in -Accounts!Drift(u)..Accounts!Drift(u)

BalanceAgrees ==
  \A u \in Users :
    /\ Near(balance[u].current, Accounts!Earned(u) - Accounts!Spent(u), u)
    /\ Near(balance[u].withdrawn, Accounts!Spent(u), u)
    /\ Near(balance[u].current + balance[u].withdrawn, Accounts!Earned(u), u)

\* The same to the kopeck, whatever the sums.
BalanceIsExact ==
  \A u \in Users :
    /\ balance[u].current = Accounts!Earned(u) - Accounts!Spent(u)
    /\ balance[u].withdrawn = Accounts!Spent(u)

\* A user never has more points than the user's orders have earned.
NoMoreThanEarned == \A u \in Users : balance[u].current <= Accounts!Earned(u)

\* A client that was told 200 finds the withdrawal it asked for, for ever, in
\* spite of crashes and of later requests for the same number.
PaidIsRecorded ==
  \A p \in paid : withdrawals[p.number] = [user |-> p.user, sum |-> Stored(p.sum)]

\* A client that was told 202 owns the order.
AcceptedIsRecorded ==
  \A a \in accepted : orders[a.number] # None /\ orders[a.number].owner = a.user

\* A number is accepted once: of all the requests for it, concurrent ones and
\* retries, at most one has or gets the answer 202.
AcceptedOnce ==
  \A n \in Numbers :
    Cardinality({r \in Uploaders : ureq[r].pc = "answering" /\ ureq[r].number = n
                                   /\ ureq[r].code = 202})
      + Cardinality({a \in accepted : a.number = n}) <= 1

\* 200 and 202 are answered to the owner of the order and 409 to others,
\* whoever won the race to insert it.
AnswerNamesOwner ==
  \A r \in Uploaders : ureq[r].pc = "answering" =>
    /\ ureq[r].code \in {200, 202} => orders[ureq[r].number].owner = ureq[r].user
    /\ ureq[r].code = 409 => orders[ureq[r].number].owner # ureq[r].user

\* The updater works on an order in one place only, and until it writes the
\* outcome the order is not final: no order is credited twice.
OneJobPerOrder ==
  LET InWork == {o.number : o \in ch}
                  \cup {job[w].number : w \in {x \in Workers : job[x].pc # "idle"}}
  IN  /\ Cardinality(InWork)
           = Cardinality(ch) + Cardinality({w \in Workers : job[w].pc # "idle"})
      /\ \A n \in InWork : orders[n] # None /\ ~Settled(n)

\* An order keeps its owner and its place in the queue, leaves NEW for good,
\* and once final never changes again.
OrderIsMonotone ==
  [][\A n \in Uploaded :
       /\ orders'[n] # None
       /\ orders'[n].owner = orders[n].owner
       /\ orders[n].status # "NEW" => orders'[n].status # "NEW"
       /\ Settled(n) => orders'[n] = orders[n]]_vars

\* An order the accrual system has a final answer for becomes final.
EventuallySettled ==
  \A n \in Calculated : n \in Uploaded ~> (n \in Uploaded /\ Settled(n))

\* No balance row stays locked.
LockIsReleased == \A u \in Users : rowLock[u] # None ~> rowLock[u] = None
=============================================================================
