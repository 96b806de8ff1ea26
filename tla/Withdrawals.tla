---------------------------- MODULE Withdrawals ----------------------------
(***************************************************************************)
(* POST /api/user/balance/withdraw: handler AddWithdraw, service            *)
(* AddWithdraw and the repository calls GetBalanceTx and AddWithdrawTx, one *)
(* action per SQL statement.  The handler runs under http.TimeoutHandler:   *)
(* after a timeout the client has its 503 while the handler goroutine still *)
(* runs, with a cancelled context.  A member of Withdrawers is one request  *)
(* in flight at a time; it serves any number of requests one after another. *)
(***************************************************************************)
EXTENDS Store

CONSTANTS
  Withdrawers,  \* concurrent withdrawal requests
  Sums          \* values of the JSON field "sum"; 0 is one that is nearly 0

ASSUME WithdrawalsAssumption ==
  /\ None \notin Withdrawers
  /\ Withdrawers \cap Numbers = {}
  /\ Sums \subseteq Int     \* validate:"required" refuses the number 0 only

VARIABLES
  wreq,  \* the withdrawal requests in flight
  paid   \* history: [user, number, sum] of every 200 a client was given

withdrawVars == <<wreq, paid>>

IdleWithdraw == [pc |-> "idle", user |-> None, number |-> None, sum |-> 0,
                 current |-> 0, withdrawn |-> 0, code |-> 0, late |-> FALSE]

WithdrawalsInit == /\ wreq = [r \in Withdrawers |-> IdleWithdraw]
                   /\ paid = {}

\* The handler has its answer for the client, unless the client has a 503
\* already.  Only a 200 says something of the request.
Answered(r, code) ==
  LET q    == wreq[r]
      said == IF q.late THEN 503 ELSE code
      from == IF said = 200 THEN q ELSE IdleWithdraw
  IN  wreq' = [wreq EXCEPT ![r] =
        [pc |-> "answering", user |-> from.user, number |-> from.number,
         sum |-> from.sum, current |-> 0, withdrawn |-> 0, code |-> said,
         late |-> FALSE]]

\* Mutant: a return path without the deferred Rollback.
NoDeferredRollback(r, code) == Answered(r, code) /\ UNCHANGED rowLock

\* The request leaves its transaction, if it has one, and has its answer.
FinishWithdraw(r, code) == Answered(r, code) /\ Unlock(r)

\* A request that the middleware (401), the handler (400) or the check of the
\* order number (422) turns away before the repository is called: all of them
\* are a 400 here.
RefuseWithdraw(r) ==
  /\ wreq[r].pc = "idle"
  /\ Answered(r, 400)
  /\ UNCHANGED <<store, paid>>

AddWithdraw(r) ==
  /\ wreq[r].pc = "idle"
  /\ \E u \in Users, n \in Numbers, s \in Sums :
       wreq' = [wreq EXCEPT ![r] = [IdleWithdraw EXCEPT !.pc = "begin",
                                      !.user = u, !.number = n, !.sum = s]]
  /\ UNCHANGED <<store, paid>>

\* Mutant: SELECT without FOR UPDATE.
PlainSelect(r) ==
  LET q == wreq[r] IN
  /\ q.pc = "begin"
  /\ ~q.late
  /\ balance[q.user].current >= q.sum
  /\ wreq' = [wreq EXCEPT ![r] =
       [q EXCEPT !.pc        = "locked",
                 !.current   = balance[q.user].current,
                 !.withdrawn = balance[q.user].withdrawn]]
  /\ UNCHANGED <<store, paid>>

\* Mutant: AddWithdraw does not compare the balance with the sum.
NoFundsCheck(r) ==
  LET q == wreq[r] IN
  /\ q.pc = "begin"
  /\ ~q.late
  /\ Lock(q.user, r)
  /\ wreq' = [wreq EXCEPT ![r] =
       [q EXCEPT !.pc        = "locked",
                 !.current   = balance[q.user].current,
                 !.withdrawn = balance[q.user].withdrawn]]
  /\ UNCHANGED <<orders, balance, withdrawals, paid>>

\* SELECT ... FOR UPDATE: waits for the row lock, then reads the row.
GetBalanceTx(r) ==
  LET q == wreq[r] IN
  /\ q.pc = "begin"
  /\ ~q.late
  /\ balance[q.user].current >= q.sum
  /\ Lock(q.user, r)
  /\ wreq' = [wreq EXCEPT ![r] =
       [q EXCEPT !.pc        = "locked",
                 !.current   = balance[q.user].current,
                 !.withdrawn = balance[q.user].withdrawn]]
  /\ UNCHANGED <<orders, balance, withdrawals, paid>>

\* The same statement when the row read is too low: AddWithdraw returns and
\* its deferred Rollback gives the lock back.
InsufficientFunds(r) ==
  LET q == wreq[r] IN
  /\ q.pc = "begin"
  /\ ~q.late
  /\ rowLock[q.user] = None
  /\ balance[q.user].current < q.sum
  /\ FinishWithdraw(r, 402)
  /\ UNCHANGED <<orders, balance, withdrawals, paid>>

\* The unique index on order_number: an insert waits for the transaction that
\* has inserted the number and not ended yet.
NumberPending(n) == \E r \in Withdrawers :
  wreq[r].number = n /\ wreq[r].pc \in {"inserted", "updated"}

InsertWithdrawal(r) ==
  LET q == wreq[r] IN
  /\ q.pc = "locked"
  /\ ~q.late
  /\ ~NumberPending(q.number)
  /\ withdrawals[q.number] = None
  /\ Fits(Stored(q.sum))
  /\ wreq' = [wreq EXCEPT ![r] = [q EXCEPT !.pc = "inserted"]]
  /\ UNCHANGED <<store, paid>>

\* Mutant: the update forgets the column current.
OnlyWithdrawn(r) ==
  LET q == wreq[r] IN
  /\ q.pc = "inserted"
  /\ ~q.late
  /\ \E w \in StoredFloats(q.withdrawn + q.sum) :
       /\ Fits(w)
       /\ wreq' = [wreq EXCEPT ![r] = [q EXCEPT !.pc = "updated", !.withdrawn = w]]
  /\ UNCHANGED <<store, paid>>

\* Mutant: UPDATE balance outside of the transaction.
UpdateBalanceAlone(r) ==
  LET q == wreq[r] IN
  /\ q.pc = "inserted"
  /\ ~q.late
  /\ \E c \in StoredFloats(q.current - q.sum),
        w \in StoredFloats(q.withdrawn + q.sum) :
       /\ Fits(c) /\ Fits(w)
       /\ balance' = [balance EXCEPT ![q.user] = [current |-> c, withdrawn |-> w]]
       /\ wreq' = [wreq EXCEPT ![r] =
            [q EXCEPT !.pc = "updated", !.current = c, !.withdrawn = w]]
  /\ UNCHANGED <<orders, withdrawals, rowLock, paid>>

\* UPDATE balance SET current = $1, withdrawn = $2 with values computed in Go
\* from the row read by GetBalanceTx; q.current and q.withdrawn are from here
\* on what the transaction has written.
UpdateBalance(r) ==
  LET q == wreq[r] IN
  /\ q.pc = "inserted"
  /\ ~q.late
  /\ \E c \in StoredFloats(q.current - q.sum),
        w \in StoredFloats(q.withdrawn + q.sum) :
       /\ Fits(c) /\ Fits(w)
       /\ wreq' = [wreq EXCEPT ![r] =
            [q EXCEPT !.pc = "updated", !.current = c, !.withdrawn = w]]
  /\ UNCHANGED <<store, paid>>

\* The commit takes effect; Commit returns nil (200), or an error when the
\* answer of the server is lost (500).  A commit sent before the timeout may
\* take effect after it.
CommitWithdrawal(r) ==
  LET q == wreq[r] IN
  /\ q.pc = "updated"
  /\ withdrawals' = [withdrawals EXCEPT ![q.number] =
                       [user |-> q.user, sum |-> Stored(q.sum)]]
  /\ balance' = [balance EXCEPT ![q.user] =
                   [current |-> q.current, withdrawn |-> q.withdrawn]]
  /\ \E code \in {200, 500} : FinishWithdraw(r, code)
  /\ UNCHANGED <<orders, paid>>

\* Mutant: AddWithdrawTx drops the error of a statement.
ErrorDropped(r) ==
  /\ wreq[r].pc \in {"begin", "locked", "inserted", "updated"}
  /\ FinishWithdraw(r, 200)
  /\ UNCHANGED <<orders, balance, withdrawals, paid>>

\* A statement fails (connection, cancelled context, duplicate order number,
\* numeric overflow): the error goes up and the deferred Rollback runs.
WithdrawFails(r) ==
  /\ wreq[r].pc \in {"begin", "locked", "inserted", "updated"}
  /\ FinishWithdraw(r, 500)
  /\ UNCHANGED <<orders, balance, withdrawals, paid>>

\* http.TimeoutHandler answers 503 and cancels the context of the request.
WithdrawTimeout(r) ==
  LET q == wreq[r] IN
  /\ q.pc # "idle"
  /\ ~q.late /\ q.code # 503
  /\ IF q.pc = "answering" THEN Answered(r, 503)
                           ELSE wreq' = [wreq EXCEPT ![r] = [q EXCEPT !.late = TRUE]]
  /\ UNCHANGED <<store, paid>>

\* The handler returns and the client has its answer.
AnswerWithdraw(r) ==
  LET q == wreq[r] IN
  /\ q.pc = "answering"
  /\ wreq' = [wreq EXCEPT ![r] = IdleWithdraw]
  /\ paid' = IF q.code = 200
             THEN paid \cup {[user |-> q.user, number |-> q.number, sum |-> q.sum]}
             ELSE paid
  /\ UNCHANGED store

WithdrawStep(r) ==
  \/ RefuseWithdraw(r)    \/ AddWithdraw(r)      \/ GetBalanceTx(r)
  \/ InsufficientFunds(r) \/ InsertWithdrawal(r) \/ UpdateBalance(r)
  \/ CommitWithdrawal(r)  \/ WithdrawFails(r)    \/ WithdrawTimeout(r)
  \/ AnswerWithdraw(r)
=============================================================================
