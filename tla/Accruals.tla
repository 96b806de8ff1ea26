----------------------------- MODULE Accruals -----------------------------
(***************************************************************************)
(* The background updater (worker/accrual) at the level of its effects on   *)
(* the store: Run polls a batch of orders, the workers take them from the   *)
(* channel, ask the accrual system and write the outcome.  Run waits for    *)
(* the whole batch before it polls again.                                   *)
(***************************************************************************)
EXTENDS Store

CONSTANTS
  Workers,      \* the goroutines started by NewUpdater
  Calculated,   \* numbers for which the accrual system ever has a final answer
  AccrualSums   \* values of the JSON field "accrual" of a final answer

ASSUME AccrualsAssumption ==
  /\ IsFiniteSet(Workers) /\ Workers # {}
  /\ None \notin Workers
  /\ Calculated \subseteq Numbers
  /\ AccrualSums \subseteq Nat

VARIABLES
  ch,   \* the orders of the batch that no worker has taken
  job   \* what each worker is doing

accrualVars == <<ch, job>>

IdleJob == [pc |-> "idle", number |-> None, user |-> None,
            status |-> "NEW", accrual |-> 0, current |-> 0]

AccrualsInit == /\ ch = {}
                /\ job = [w \in Workers |-> IdleJob]

OrderToProcess == [number : Numbers, user : Users, status : {"NEW", "PROCESSING"}]

Earlier(m, n) == orders[m].uploadedAt < orders[n].uploadedAt

\* Mutant: Run waits for the channel only, not for the workers.
ChannelEmpty == ch = {}

\* wg.Wait() returned: every order of the last batch is done.
BatchDone == ch = {} /\ \A w \in Workers : job[w].pc = "idle"

\* Mutant: the query selects NEW orders only.
NewOrders == {n \in Uploaded : orders[n].status = "NEW"}

ToProcess == {n \in Uploaded : orders[n].status \in {"NEW", "PROCESSING"}}

\* GetOrdersToProcess: the oldest workersNum * 2 orders that are not final.
\* They fit into the channel, so Run never blocks on it.
Poll ==
  /\ BatchDone
  /\ ToProcess # {}
  /\ \E batch \in SUBSET ToProcess :
       /\ \/ batch = ToProcess
          \/ Cardinality(batch) = 2 * Cardinality(Workers)
       /\ Cardinality(batch) <= 2 * Cardinality(Workers)
       /\ \A m \in batch, n \in ToProcess \ batch : Earlier(m, n)
       /\ ch' = {[number |-> n, user |-> orders[n].owner,
                  status |-> orders[n].status] : n \in batch}
  /\ UNCHANGED <<store, job>>

\* A worker receives the first order of the channel.  An order polled as NEW
\* is marked first.
Receive(w) ==
  /\ job[w].pc = "idle"
  /\ \E o \in ch :
       /\ \A p \in ch \ {o} : Earlier(o.number, p.number)
       /\ ch' = ch \ {o}
       /\ job' = [job EXCEPT ![w] =
            [IdleJob EXCEPT !.pc = IF o.status = "NEW" THEN "mark" ELSE "ask",
                            !.number = o.number, !.user = o.user]]
  /\ UNCHANGED store

\* UpdateOrderStatus(PROCESSING) takes effect; its answer may be lost, and
\* then the worker gives the order up.
MarkProcessing(w) ==
  /\ job[w].pc = "mark"
  /\ orders' = [orders EXCEPT ![job[w].number] = [@ EXCEPT !.status = "PROCESSING"]]
  /\ \/ job' = [job EXCEPT ![w] = [job[w] EXCEPT !.pc = "ask"]]
     \/ job' = [job EXCEPT ![w] = IdleJob]
  /\ UNCHANGED <<balance, withdrawals, rowLock, ch>>

\* GetOrderInfo has a final answer; an answer without accrual takes the short
\* way of UpdateOrderStatus.
FinalAnswer(w) ==
  /\ job[w].pc = "ask"
  /\ job[w].number \in Calculated
  /\ \E s \in Final, a \in AccrualSums \cup {0} :
       job' = [job EXCEPT ![w] =
         [job[w] EXCEPT !.pc = IF a = 0 THEN "settle" ELSE "begin",
                        !.status = s, !.accrual = a]]
  /\ UNCHANGED <<store, ch>>

\* UpdateOrderStatus with the final status; an error is only logged.
SettleOrder(w) ==
  /\ job[w].pc = "settle"
  /\ orders' = [orders EXCEPT ![job[w].number] = [@ EXCEPT !.status = job[w].status]]
  /\ job' = [job EXCEPT ![w] = IdleJob]
  /\ UNCHANGED <<balance, withdrawals, rowLock, ch>>

\* Mutant: UPDATE orders outside of the transaction.
UpdateOrderAlone(w) ==
  LET j == job[w] IN
  /\ j.pc = "begin"
  /\ Fits(Stored(j.accrual))
  /\ orders' = [orders EXCEPT ![j.number] =
                  [@ EXCEPT !.status = j.status, !.accrual = Stored(j.accrual)]]
  /\ job' = [job EXCEPT ![w] = [j EXCEPT !.pc = "ordered"]]
  /\ UNCHANGED <<balance, withdrawals, rowLock, ch>>

\* UpdateOrderAccrual: BEGIN and UPDATE orders.
UpdateOrder(w) ==
  /\ job[w].pc = "begin"
  /\ Fits(Stored(job[w].accrual))
  /\ job' = [job EXCEPT ![w] = [job[w] EXCEPT !.pc = "ordered"]]
  /\ UNCHANGED <<store, ch>>

\* Mutant: the row is read without its lock.
CreditUnlocked(w) ==
  LET j == job[w]
      new == Stored(balance[j.user].current + j.accrual) IN
  /\ j.pc = "ordered"
  /\ Fits(new)
  /\ job' = [job EXCEPT ![w] = [j EXCEPT !.pc = "credited", !.current = new]]
  /\ UNCHANGED <<store, ch>>

\* UPDATE balance SET current = current + $1: waits for the row lock and adds
\* to the row it then finds.
Credit(w) ==
  LET j == job[w]
      new == Stored(balance[j.user].current + j.accrual) IN
  /\ j.pc = "ordered"
  /\ Fits(new)
  /\ Lock(j.user, w)
  /\ job' = [job EXCEPT ![w] = [j EXCEPT !.pc = "credited", !.current = new]]
  /\ UNCHANGED <<orders, balance, withdrawals, ch>>

\* The commit takes effect; an error of Commit is only logged.
CommitAccrual(w) ==
  LET j == job[w] IN
  /\ j.pc = "credited"
  /\ orders' = [orders EXCEPT ![j.number] =
                  [@ EXCEPT !.status = j.status, !.accrual = Stored(j.accrual)]]
  /\ balance' = [balance EXCEPT ![j.user] = [@ EXCEPT !.current = j.current]]
  /\ Unlock(w)
  /\ job' = [job EXCEPT ![w] = IdleJob]
  /\ UNCHANGED <<withdrawals, ch>>

\* Mutant: no deferred Rollback in UpdateOrderAccrual.
NoRollback(w) ==
  /\ job[w].pc # "idle"
  /\ job' = [job EXCEPT ![w] = IdleJob]
  /\ UNCHANGED <<store, ch>>

\* Mutant: an order without a final answer is marked NEW again.
GiveUpNew(w) ==
  /\ job[w].pc # "idle"
  /\ orders' = [orders EXCEPT ![job[w].number] = [@ EXCEPT !.status = "NEW"]]
  /\ job' = [job EXCEPT ![w] = IdleJob]
  /\ Unlock(w)
  /\ UNCHANGED <<balance, withdrawals, ch>>

\* The worker gives the order up until a later batch: no final answer (204,
\* 429, an error, a status that is not final, shutdown) or a statement fails
\* (connection, overflow) and the transaction is rolled back.
GiveUp(w) ==
  /\ job[w].pc # "idle"
  /\ job' = [job EXCEPT ![w] = IdleJob]
  /\ Unlock(w)
  /\ UNCHANGED <<orders, balance, withdrawals, ch>>

AccrualStep(w) ==
  \/ Receive(w)     \/ MarkProcessing(w) \/ FinalAnswer(w) \/ SettleOrder(w)
  \/ UpdateOrder(w) \/ Credit(w)         \/ CommitAccrual(w) \/ GiveUp(w)
=============================================================================
