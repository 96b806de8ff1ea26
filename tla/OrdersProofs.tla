---------------------------- MODULE OrdersProofs ----------------------------
(***************************************************************************)
(* Orders and withdrawals, for every value of the constants.                *)
(*                                                                          *)
(* Where an order is in the updater: in the channel or with one worker, and *)
(* not final as long as it is there.  No guard of UpdateOrderStatus and     *)
(* UpdateOrderAccrual says so; it follows from Run waiting for the whole    *)
(* batch before it polls again.  Then that what a client has been told is   *)
(* true: the 200, 202 and 409 of an upload and the 200 of a withdrawal.     *)
(***************************************************************************)
EXTENDS GophermartProofs, FunctionTheorems

Busy(w) == job[w].pc # "idle"

FinalRow(row) == row # None /\ row.status \in Final

PipelineInv ==
  /\ \A o, p \in ch : o.number = p.number => o = p
  /\ \A w \in Workers, o \in ch : Busy(w) => job[w].number # o.number
  /\ \A v, w \in Workers : Busy(v) /\ Busy(w) /\ job[v].number = job[w].number => v = w
  /\ \A o \in ch : ~FinalRow(orders[o.number])
  /\ \A w \in Workers : Busy(w) => ~FinalRow(orders[job[w].number])

\* The batch is empty, as at the start and after a crash.
LEMMA NothingInWork ==
  ASSUME ch = {}, job = [w \in Workers |-> IdleJob]
  PROVE  PipelineInv
BY DEF PipelineInv, Busy, IdleJob

\* A worker that goes on with its order, or is done with it.
LEMMA WorkerGoesOn ==
  ASSUME TypeInv, PipelineInv, NEW w \in Workers, Busy(w), NEW j,
         job' = [job EXCEPT ![w] = j], ch' = ch,
         j.pc = "idle" \/ j.number = job[w].number,
         \A n \in Numbers :
           FinalRow(orders'[n]) => FinalRow(orders[n]) \/ (j.pc = "idle" /\ n = job[w].number)
  PROVE  PipelineInv'
<1>1. job'[w] = j /\ \A v \in Workers \ {w} : job'[v] = job[v]
  BY DEF TypeInv, TypeOK
<1>2. \A o \in ch : o.number \in Numbers /\ o.number # job[w].number
  BY DEF TypeInv, TypeOK, OrderToProcess, PipelineInv
<1>3. \A v \in Workers : Busy(v)' => Busy(v) /\ job'[v].number = job[v].number
  BY <1>1 DEF Busy
<1>4. \A v \in Workers : Busy(v) => job[v].number \in Numbers
  BY DEF TypeInv, JobInv, Busy
<1>5. \A o \in ch : ~FinalRow(orders'[o.number])
  BY <1>2 DEF PipelineInv
<1>6. ASSUME NEW v \in Workers, Busy(v)' PROVE ~FinalRow(orders'[job'[v].number])
  <2>1. CASE v = w
    BY <1>1, <1>3, <1>4, <1>6, <2>1 DEF PipelineInv, Busy
  <2>2. CASE v # w
    <3>1. job[v].number # job[w].number
      BY <1>3, <1>6, <2>2 DEF PipelineInv
    <3>2. QED BY <1>3, <1>4, <1>6, <3>1 DEF PipelineInv
  <2>3. QED BY <2>1, <2>2
<1>7. QED
  BY <1>3, <1>5, <1>6 DEF PipelineInv

\* A write to the row of the order that a worker has taken.
LEMMA OthersKeepStatus ==
  ASSUME TypeInv, NEW m \in Numbers, NEW row, orders' = [orders EXCEPT ![m] = row]
  PROVE  \A n \in Numbers : FinalRow(orders'[n]) => FinalRow(orders[n]) \/ n = m
BY DEF TypeInv, TypeOK, FinalRow

LEMMA AccrualStepPipeline ==
  ASSUME TypeInv, PipelineInv, NEW w \in Workers, AccrualStep(w)
  PROVE  PipelineInv'
<1> DEFINE j == job[w]
<1>a. ASSUME NEW k, Busy(w), job' = [job EXCEPT ![w] = k], UNCHANGED <<ch, orders>>,
             k.pc = "idle" \/ k.number = job[w].number
      PROVE  PipelineInv'
  <2>1. \A n \in Numbers : FinalRow(orders'[n]) => FinalRow(orders[n])
    BY <1>a DEF FinalRow
  <2>2. QED BY <1>a, <2>1, WorkerGoesOn
<1>j. j \in Job /\ (Busy(w) => j.number \in Numbers)
  BY DEF TypeInv, TypeOK, JobInv, Busy
<1>1. CASE Receive(w)
  <2>1. PICK o \in ch :
          /\ ch' = ch \ {o}
          /\ job' = [job EXCEPT ![w] =
               [IdleJob EXCEPT !.pc = IF o.status = "NEW" THEN "mark" ELSE "ask",
                               !.number = o.number, !.user = o.user]]
    BY <1>1 DEF Receive
  <2>2. /\ job'[w].number = o.number
        /\ \A v \in Workers \ {w} : job'[v] = job[v]
    BY <2>1 DEF TypeInv, TypeOK, IdleJob
  <2>3. UNCHANGED orders
    BY <1>1 DEF Receive, store
  <2>4. \A n \in Numbers : FinalRow(orders'[n]) = FinalRow(orders[n])
    BY <2>3 DEF FinalRow
  <2>5. /\ \A p \in ch : p.number \in Numbers
        /\ \A v \in Workers : Busy(v) => job[v].number \in Numbers
    BY DEF TypeInv, TypeOK, OrderToProcess, JobInv, Busy
  <2>6. \A p \in ch' : p \in ch /\ p.number # o.number
    BY <2>1 DEF PipelineInv
  <2>7. \A v \in Workers \ {w} : Busy(v)' => Busy(v) /\ job[v].number # o.number
    BY <2>2 DEF PipelineInv, Busy
  <2>8. /\ \A p \in ch' : ~FinalRow(orders'[p.number])
        /\ \A v \in Workers : Busy(v)' => ~FinalRow(orders'[job'[v].number])
    BY <2>2, <2>4, <2>5, <2>6, <2>7 DEF PipelineInv
  <2>9. \A v \in Workers, p \in ch' : Busy(v)' => job'[v].number # p.number
    BY <2>2, <2>6, <2>7 DEF PipelineInv
  <2>10. \A u, v \in Workers :
           Busy(u)' /\ Busy(v)' /\ job'[u].number = job'[v].number => u = v
    BY <2>2, <2>7 DEF PipelineInv
  <2>11. QED BY <2>6, <2>8, <2>9, <2>10 DEF PipelineInv
<1>2. CASE MarkProcessing(w)
  <2>1. Busy(w) /\ j.number \in Numbers /\ orders[j.number] \in Order /\ ch' = ch
        /\ ~FinalRow(orders[j.number])
    BY <1>2, <1>j DEF MarkProcessing, Busy, TypeInv, TypeOK, JobInv, PipelineInv
  <2>2. orders' = [orders EXCEPT ![j.number] =
                     [orders[j.number] EXCEPT !.status = "PROCESSING"]]
    BY <1>2 DEF MarkProcessing
  <2>3. ~FinalRow(orders'[j.number])
    BY <2>1, <2>2 DEF FinalRow, Final, TypeInv, TypeOK, Order
  <2>4. \A n \in Numbers : FinalRow(orders'[n]) => FinalRow(orders[n])
    BY <2>1, <2>2, <2>3, OthersKeepStatus
  <2>5. PICK k : /\ job' = [job EXCEPT ![w] = k]
                 /\ k.pc = "idle" \/ k.number = j.number
    <3>1. [j EXCEPT !.pc = "ask"].number = j.number /\ IdleJob.pc = "idle"
      BY <1>j DEF Job, IdleJob
    <3>2. QED BY <1>2, <3>1 DEF MarkProcessing
  <2>6. QED BY <2>1, <2>4, <2>5, WorkerGoesOn
<1>3. CASE FinalAnswer(w)
  <2>1. PICK s \in Final, a \in AccrualSums \cup {0} :
          job' = [job EXCEPT ![w] =
            [j EXCEPT !.pc = IF a = 0 THEN "settle" ELSE "begin",
                      !.status = s, !.accrual = a]]
    BY <1>3 DEF FinalAnswer
  <2> DEFINE k == [j EXCEPT !.pc = IF a = 0 THEN "settle" ELSE "begin",
                            !.status = s, !.accrual = a]
  <2>2. k.number = j.number
    BY <1>j DEF Job
  <2>3. Busy(w) /\ UNCHANGED <<ch, orders>>
    BY <1>3 DEF FinalAnswer, Busy, store
  <2> HIDE DEF k
  <2>4. job' = [job EXCEPT ![w] = k]
    BY <2>1 DEF k
  <2>5. QED BY <1>a, <2>2, <2>3, <2>4
<1>b. ASSUME NEW row, Busy(w), ch' = ch, job' = [job EXCEPT ![w] = IdleJob],
             orders' = [orders EXCEPT ![j.number] = row]
      PROVE  PipelineInv'
  <2>1. \A n \in Numbers : FinalRow(orders'[n]) => FinalRow(orders[n]) \/ n = j.number
    BY <1>b, <1>j, OthersKeepStatus
  <2>2. IdleJob.pc = "idle"
    BY DEF IdleJob
  <2>3. QED BY <1>b, <2>1, <2>2, WorkerGoesOn
<1>4. CASE SettleOrder(w)
  BY <1>4, <1>b DEF SettleOrder, Busy
<1>5. CASE UpdateOrder(w)
  <2>1. [j EXCEPT !.pc = "ordered"].number = j.number
    BY <1>j DEF Job
  <2>2. QED BY <1>5, <1>a, <2>1 DEF UpdateOrder, Busy, store
<1>6. CASE Credit(w)
  <2>1. PICK c : job' = [job EXCEPT ![w] = [j EXCEPT !.pc = "credited", !.current = c]]
    BY <1>6 DEF Credit
  <2>2. [j EXCEPT !.pc = "credited", !.current = c].number = j.number
    BY <1>j DEF Job
  <2>3. QED BY <1>6, <1>a, <2>1, <2>2 DEF Credit, Busy
<1>7. CASE CommitAccrual(w)
  BY <1>7, <1>b DEF CommitAccrual, Busy
<1>8. CASE GiveUp(w)
  <2>1. IdleJob.pc = "idle"
    BY DEF IdleJob
  <2>2. QED BY <1>8, <1>a, <2>1 DEF GiveUp, Busy
<1>9. QED
  BY <1>1, <1>2, <1>3, <1>4, <1>5, <1>6, <1>7, <1>8 DEF AccrualStep

\* Run polls when the last batch is done, and only orders that are not final.
LEMMA PollPipeline ==
  ASSUME TypeInv, Poll
  PROVE  PipelineInv'
<1>1. PICK batch \in SUBSET ToProcess :
        ch' = {[number |-> n, user |-> orders[n].owner,
                status |-> orders[n].status] : n \in batch}
  BY DEF Poll
<1>2. /\ \A w \in Workers : ~Busy(w)'
      /\ UNCHANGED orders
  BY DEF Poll, BatchDone, Busy, store
<1>3. \A n \in batch : ~FinalRow(orders'[n])
  BY <1>2 DEF ToProcess, FinalRow, Final
<1>4. \A o \in ch' : ~FinalRow(orders'[o.number])
  BY <1>1, <1>3
<1>5. \A o, p \in ch' : o.number = p.number => o = p
  BY <1>1
<1>6. QED
  BY <1>2, <1>4, <1>5 DEF PipelineInv

\* A request changes nothing of it: an upload makes rows of new orders only.
LEMMA RequestsKeepPipeline ==
  ASSUME TypeInv, PipelineInv, UNCHANGED accrualVars,
         \A n \in Numbers : FinalRow(orders'[n]) => FinalRow(orders[n])
  PROVE  PipelineInv'
<1>1. /\ \A o \in ch : o.number \in Numbers
      /\ \A w \in Workers : Busy(w) => job[w].number \in Numbers
  BY DEF TypeInv, TypeOK, OrderToProcess, JobInv, Busy
<1>2. QED
  BY <1>1 DEF PipelineInv, Busy, accrualVars

LEMMA UploadKeepsSettled ==
  ASSUME TypeInv, NEW r \in Uploaders, UploadStep(r)
  PROVE  \A n \in Numbers : FinalRow(orders'[n]) => FinalRow(orders[n])
<1>1. CASE InsertOrder(r)
  <2> DEFINE m   == ureq[r].number
             row == [owner |-> ureq[r].user, status |-> "NEW", accrual |-> 0,
                     uploadedAt |-> Cardinality(Uploaded)]
  <2>1. orders' = [orders EXCEPT ![m] = row] /\ row.status = "NEW"
    BY <1>1 DEF InsertOrder
  <2> HIDE DEF m, row
  <2>2. QED BY <2>1 DEF FinalRow, Final, TypeInv, TypeOK
<1>2. CASE UNCHANGED orders
  BY <1>2 DEF FinalRow
<1>3. QED
  BY <1>1, <1>2 DEF UploadStep, RefuseUpload, AddOrder, InsertConflict, GetOrderByNumber,
    UploadFails, UploadTimeout, AnswerUpload, store

LEMMA WithdrawKeepsOrders ==
  ASSUME NEW r \in Withdrawers, WithdrawStep(r)
  PROVE  UNCHANGED orders
BY DEF WithdrawStep, RefuseWithdraw, AddWithdraw, GetBalanceTx, InsufficientFunds,
  InsertWithdrawal, UpdateBalance, CommitWithdrawal, WithdrawFails, WithdrawTimeout,
  AnswerWithdraw, store

LEMMA PipelineStep == TypeInv /\ PipelineInv /\ [Next]_vars => PipelineInv'
<1> SUFFICES ASSUME TypeInv, PipelineInv, [Next]_vars PROVE PipelineInv'
  OBVIOUS
<1>a. CASE UNCHANGED <<orders, accrualVars>>
  <2>1. \A n \in Numbers : FinalRow(orders'[n]) => FinalRow(orders[n])
    BY <1>a DEF FinalRow
  <2>2. QED BY <1>a, <2>1, RequestsKeepPipeline
<1>1. ASSUME NEW r \in Withdrawers, WithdrawStep(r), UNCHANGED <<uploadVars, accrualVars>>
      PROVE  PipelineInv'
  BY <1>1, <1>a, WithdrawKeepsOrders
<1>2. ASSUME NEW r \in Uploaders, UploadStep(r), UNCHANGED <<withdrawVars, accrualVars>>
      PROVE  PipelineInv'
  BY <1>2, UploadKeepsSettled, RequestsKeepPipeline
<1>3. CASE Poll
  BY <1>3, PollPipeline
<1>4. ASSUME NEW w \in Workers, AccrualStep(w)
      PROVE  PipelineInv'
  BY <1>4, AccrualStepPipeline
<1>5. CASE Crash
  BY <1>5 DEF Crash, PipelineInv, Busy, IdleJob
<1>6. CASE UNCHANGED vars
  BY <1>6, <1>a DEF vars, store
<1>7. QED
  BY <1>1, <1>2, <1>3, <1>4, <1>5, <1>6 DEF Next, Running

LEMMA PipelineInvariant == Spec => []PipelineInv
<1>1. Init => PipelineInv
  BY NothingInWork DEF Init, AccrualsInit
<1>2. QED
  BY <1>1, PipelineStep, TypeInvariant, PTL DEF Spec

\* The updater works on an order in one place only and the order is not final
\* until the outcome is written: for any number of workers, no crash, failed
\* statement or lost answer makes it credit an order twice.
THEOREM OrdersHaveOneJob == Spec => []OneJobPerOrder
<1>1. TypeInv /\ PipelineInv => OneJobPerOrder
  <2> SUFFICES ASSUME TypeInv, PipelineInv PROVE OneJobPerOrder
    OBVIOUS
  <2> DEFINE busy == {w \in Workers : job[w].pc # "idle"}
             A    == {o.number : o \in ch}
             B    == {job[w].number : w \in busy}
  <2>1. /\ IsFiniteSet(ch) /\ IsFiniteSet(A)
        /\ Cardinality(A) = Cardinality(ch)
    <3> DEFINE f == [o \in ch |-> o.number]
    <3>1. A \subseteq Numbers /\ f \in [ch -> A]
      BY DEF TypeInv, TypeOK, OrderToProcess
    <3>2. \A o, p \in ch : f[o] = f[p] => o = p
      BY DEF PipelineInv
    <3>3. f \in Bijection(ch, A)
      BY <3>1, <3>2 DEF Bijection, Injection, Surjection, IsInjective
    <3>4. IsFiniteSet(A)
      BY <3>1, StoreAssumption, FS_Subset
    <3>5. IsFiniteSet(ch)
      BY <3>3, <3>4, FS_Injection DEF Bijection
    <3>6. QED BY <3>3, <3>4, <3>5, FS_Bijection DEF ExistsBijection
  <2>2. /\ IsFiniteSet(B)
        /\ Cardinality(B) = Cardinality(busy)
    <3> DEFINE f == [w \in busy |-> job[w].number]
    <3>1. f \in [busy -> B]
      OBVIOUS
    <3>2. \A v, w \in busy : f[v] = f[w] => v = w
      BY DEF PipelineInv, Busy
    <3>3. f \in Bijection(busy, B)
      BY <3>1, <3>2 DEF Bijection, Injection, Surjection, IsInjective
    <3>4. IsFiniteSet(busy)
      BY AccrualsAssumption, FS_Subset
    <3>5. QED BY <3>3, <3>4, FS_Bijection DEF ExistsBijection
  <2>3. A \cap B = {}
    BY DEF PipelineInv, Busy
  <2>4. Cardinality(A \cup B) = Cardinality(ch) + Cardinality(busy)
    <3>1. Cardinality(A) \in Nat /\ Cardinality(B) \in Nat
      BY <2>1, <2>2, FS_CardinalityType
    <3>2. Cardinality(A \cup B) = Cardinality(A) + Cardinality(B) - Cardinality(A \cap B)
      BY <2>1, <2>2, FS_Union
    <3>3. Cardinality(A \cap B) = 0
      BY <2>3, FS_EmptySet
    <3> HIDE DEF A, B, busy
    <3>4. QED BY <2>1, <2>2, <3>1, <3>2, <3>3
  <2>5. \A n \in A \cup B : orders[n] # None /\ ~Settled(n)
    BY DEF TypeInv, JobInv, PipelineInv, Busy, FinalRow, Settled
  <2>6. QED BY <2>4, <2>5 DEF OneJobPerOrder
<1>2. QED
  BY <1>1, TypeInvariant, PipelineInvariant, PTL

\* What OrderIsMonotone says of one order.
Goes(old, new) ==
  /\ new # None
  /\ new.owner = old.owner
  /\ old.status # "NEW" => new.status # "NEW"
  /\ old.status \in Final => new = old

\* A row that is not final gets another status than NEW.
LEMMA UpdateIsMonotone ==
  ASSUME TypeInv, NEW m \in Numbers, orders[m] # None, ~FinalRow(orders[m]),
         NEW row \in Order, orders' = [orders EXCEPT ![m] = row],
         row.owner = orders[m].owner, row.status # "NEW"
  PROVE  \A n \in Uploaded : Goes(orders[n], orders'[n])
<1>1. ASSUME NEW n \in Uploaded PROVE Goes(orders[n], orders'[n])
  <2>1. n \in Numbers /\ orders[n] # None
    BY DEF Uploaded
  <2>2. CASE n # m
    BY <2>1, <2>2 DEF Goes, TypeInv, TypeOK
  <2>3. CASE n = m
    <3>1. orders'[n] = row
      BY <2>1, <2>3 DEF TypeInv, TypeOK
    <3>2. row # None
      BY RowAssumption
    <3>3. QED BY <2>3, <3>1, <3>2 DEF Goes, FinalRow
  <2>4. QED BY <2>2, <2>3
<1>2. QED BY <1>1

LEMMA AccrualStepIsMonotone ==
  ASSUME TypeInv, PipelineInv, NEW w \in Workers, AccrualStep(w)
  PROVE  \A n \in Uploaded : Goes(orders[n], orders'[n])
<1> DEFINE j == job[w]
<1>j. Busy(w) => /\ j.number \in Numbers /\ orders[j.number] # None
                 /\ orders[j.number] \in Order /\ ~FinalRow(orders[j.number])
  BY DEF TypeInv, TypeOK, JobInv, Busy, PipelineInv
<1>s. j.pc \in {"settle", "credited"} => j.status # "NEW" /\ j.status \in Status
  BY DEF TypeInv, JobInv, Final, Status
<1>a. CASE UNCHANGED orders
  BY <1>a DEF Goes, Uploaded
<1>1. CASE MarkProcessing(w)
  <2> DEFINE row == [orders[j.number] EXCEPT !.status = "PROCESSING"]
  <2>1. Busy(w) /\ orders' = [orders EXCEPT ![j.number] = row]
    BY <1>1 DEF MarkProcessing, Busy
  <2>2. row.owner = orders[j.number].owner /\ row.status # "NEW"
    BY <1>j, <2>1 DEF Order
  <2>3. row \in Order
    BY <1>j, <2>1, OrderUpdate, ZeroAmount DEF Status
  <2> HIDE DEF row
  <2>4. QED BY <1>j, <2>1, <2>2, <2>3, UpdateIsMonotone
<1>2. CASE SettleOrder(w)
  <2> DEFINE row == [orders[j.number] EXCEPT !.status = j.status]
  <2>1. Busy(w) /\ orders' = [orders EXCEPT ![j.number] = row] /\ j.pc = "settle"
    BY <1>2 DEF SettleOrder, Busy
  <2>2. row.owner = orders[j.number].owner /\ row.status # "NEW"
    BY <1>j, <1>s, <2>1 DEF Order
  <2>3. row \in Order
    BY <1>j, <1>s, <2>1, OrderUpdate, ZeroAmount
  <2> HIDE DEF row
  <2>4. QED BY <1>j, <2>1, <2>2, <2>3, UpdateIsMonotone
<1>3. CASE CommitAccrual(w)
  <2> DEFINE row == [orders[j.number] EXCEPT !.status = j.status,
                                             !.accrual = Stored(j.accrual)]
  <2>1. Busy(w) /\ orders' = [orders EXCEPT ![j.number] = row] /\ j.pc = "credited"
    BY <1>3 DEF CommitAccrual, Busy
  <2>2. row.owner = orders[j.number].owner /\ row.status # "NEW"
    BY <1>j, <1>s, <2>1 DEF Order
  <2>3. Stored(j.accrual) \in Amount
    <3>1. j.accrual \in Int /\ Fits(Stored(j.accrual))
      BY <2>1, AccrualInt DEF TypeInv, TypeOK, JobInv, Job
    <3>2. QED BY <3>1, StoredType
  <2>4. row \in Order
    BY <1>j, <1>s, <2>1, <2>3, OrderUpdate
  <2> HIDE DEF row
  <2>5. QED BY <1>j, <2>1, <2>2, <2>4, UpdateIsMonotone
<1>4. QED
  BY <1>1, <1>2, <1>3, <1>a DEF AccrualStep, Receive, FinalAnswer, UpdateOrder, Credit,
    GiveUp, store

LEMMA UploadIsMonotone ==
  ASSUME TypeInv, NEW r \in Uploaders, UploadStep(r)
  PROVE  \A n \in Uploaded : orders'[n] = orders[n]
<1>1. CASE InsertOrder(r)
  <2>1. /\ orders[ureq[r].number] = None
        /\ \A n \in Numbers \ {ureq[r].number} : orders'[n] = orders[n]
    BY <1>1 DEF InsertOrder, TypeInv, TypeOK
  <2>2. QED BY <2>1 DEF Uploaded
<1>2. CASE UNCHANGED orders
  BY <1>2 DEF Uploaded
<1>3. QED
  BY <1>1, <1>2 DEF UploadStep, RefuseUpload, AddOrder, InsertConflict, GetOrderByNumber,
    UploadFails, UploadTimeout, AnswerUpload, store

\* Every step of the service moves the orders on.
LEMMA OrdersMoveOn ==
  ASSUME TypeInv, PipelineInv, [Next]_vars
  PROVE  \A n \in Uploaded : Goes(orders[n], orders'[n])
<1>a. CASE \A n \in Uploaded : orders'[n] = orders[n]
  BY <1>a DEF Goes, Uploaded
<1>1. ASSUME NEW r \in Withdrawers, WithdrawStep(r)
      PROVE  \A n \in Uploaded : orders'[n] = orders[n]
  BY <1>1, WithdrawKeepsOrders
<1>2. ASSUME NEW r \in Uploaders, UploadStep(r)
      PROVE  \A n \in Uploaded : orders'[n] = orders[n]
  BY <1>2, UploadIsMonotone
<1>3. ASSUME NEW w \in Workers, AccrualStep(w)
      PROVE  \A n \in Uploaded : Goes(orders[n], orders'[n])
  BY <1>3, AccrualStepIsMonotone
<1>4. CASE Poll \/ Crash \/ UNCHANGED vars
  BY <1>4, <1>a DEF Poll, Crash, vars, store
<1>5. QED
  BY <1>1, <1>2, <1>3, <1>4, <1>a DEF Next, Running

\* An order keeps its owner, leaves NEW for good and, once final, never changes
\* again: although the two updates of the repository write whatever they are told.
THEOREM OrdersAreMonotone == Spec => OrderIsMonotone
<1>1. TypeInv /\ PipelineInv /\ [Next]_vars =>
        [\A n \in Uploaded :
           /\ orders'[n] # None
           /\ orders'[n].owner = orders[n].owner
           /\ orders[n].status # "NEW" => orders'[n].status # "NEW"
           /\ Settled(n) => orders'[n] = orders[n]]_vars
  BY OrdersMoveOn DEF Goes, Settled
<1>2. QED
  BY <1>1, TypeInvariant, PipelineInvariant, PTL DEF Spec, OrderIsMonotone
-----------------------------------------------------------------------------
(***************************************************************************)
(* Uploads.                                                                 *)
(***************************************************************************)
\* What an answer q says of the order it names.
TrueAnswer(q) ==
  /\ q.code \in {200, 202} => orders[q.number] # None /\ orders[q.number].owner = q.user
  /\ q.code = 409 => orders[q.number] # None /\ orders[q.number].owner # q.user

IsAccepted(q) == q.code = 202

UploadAnswersInv ==
  /\ \A r \in Uploaders : TrueAnswer(ureq[r])
  /\ \A a \in accepted : orders[a.number] # None /\ orders[a.number].owner = a.user
  /\ \A r, s \in Uploaders :
       ureq[r].code = 202 /\ ureq[s].code = 202 /\ ureq[r].number = ureq[s].number => r = s
  /\ \A r \in Uploaders, a \in accepted :
       ureq[r].code = 202 => ureq[r].number # a.number

\* Only an answer has a code.
CodeInv == \A r \in Uploaders : ureq[r].pc # "answering" => ureq[r].code = 0

\* No order loses its row or changes its owner.
OwnersKept ==
  \A n \in Numbers : orders[n] # None =>
    orders'[n] # None /\ orders'[n].owner = orders[n].owner

\* A request that gets no 202 by the step, while owners are kept.
LEMMA RequestKeepsAnswers ==
  ASSUME TypeInv, UploadAnswersInv, NEW r \in Uploaders, NEW q,
         ureq' = [ureq EXCEPT ![r] = q], orders' = orders, accepted' = accepted,
         TrueAnswer(q), ~IsAccepted(q)
  PROVE  UploadAnswersInv'
<1>1. ureq'[r] = q /\ \A s \in Uploaders \ {r} : ureq'[s] = ureq[s]
  BY DEF TypeInv, TypeOK
<1>2. QED
  BY <1>1 DEF UploadAnswersInv, TrueAnswer, IsAccepted

\* An answer that is not 202 and that is true.
NotAccepted == {200, 400, 409, 500, 503}

LEMMA AnswerKeepsAnswers ==
  ASSUME TypeInv, UploadAnswersInv, NEW r \in Uploaders,
         NEW code, code \in NotAccepted, FinishUpload(r, code),
         UNCHANGED <<orders, accepted>>,
         TrueAnswer([number |-> ureq[r].number, user |-> ureq[r].user, code |-> code])
  PROVE  UploadAnswersInv'
<1> DEFINE said == IF ureq[r].late THEN 503 ELSE code
           from == IF said \in {200, 202, 409} THEN ureq[r] ELSE IdleUpload
           new  == [pc |-> "answering", user |-> from.user, number |-> from.number,
                    code |-> said, late |-> FALSE]
<1>1. ureq' = [ureq EXCEPT ![r] = new]
  BY DEF FinishUpload
<1>2. ~IsAccepted(new)
  BY DEF IsAccepted, NotAccepted
<1>3. TrueAnswer(new)
  BY DEF TrueAnswer, NotAccepted
<1> HIDE DEF new
<1>4. QED
  BY ONLY TypeInv, UploadAnswersInv, r \in Uploaders, UNCHANGED <<orders, accepted>>,
    <1>1, <1>2, <1>3, RequestKeepsAnswers

LEMMA InsertKeepsAnswers ==
  ASSUME TypeInv, UploadAnswersInv, NEW r \in Uploaders, InsertOrder(r)
  PROVE  UploadAnswersInv'
<1> DEFINE m == ureq[r].number
           u == ureq[r].user
<1>1. /\ m \in Numbers /\ u \in Users /\ orders[m] = None /\ accepted' = accepted
      /\ orders' = [orders EXCEPT ![m] =
           [owner |-> u, status |-> "NEW", accrual |-> 0,
            uploadedAt |-> Cardinality(Uploaded)]]
  BY DEF InsertOrder, TypeInv, UploadInv
<1>2. PICK q : /\ ureq' = [ureq EXCEPT ![r] = q]
               /\ q.code \in {202, 500, 503}
               /\ q.code = 202 => q.number = m /\ q.user = u
  <2>1. PICK code \in {202, 500} : FinishUpload(r, code)
    BY DEF InsertOrder
  <2> DEFINE said == IF ureq[r].late THEN 503 ELSE code
             from == IF said \in {200, 202, 409} THEN ureq[r] ELSE IdleUpload
             new  == [pc |-> "answering", user |-> from.user, number |-> from.number,
                      code |-> said, late |-> FALSE]
  <2>2. ureq' = [ureq EXCEPT ![r] = new]
    BY <2>1 DEF FinishUpload
  <2>3. new.code \in {202, 500, 503}
    OBVIOUS
  <2>4. new.code = 202 => new.number = m /\ new.user = u
    OBVIOUS
  <2> HIDE DEF new
  <2>5. QED BY <2>2, <2>3, <2>4
<1>3. /\ ureq'[r] = q /\ \A s \in Uploaders \ {r} : ureq'[s] = ureq[s]
      /\ \A n \in Numbers \ {m} : orders'[n] = orders[n]
      /\ orders'[m] # None /\ orders'[m].owner = u
  <2>1. Cardinality(Uploaded) \in Nat
    BY StoreAssumption, FS_Subset, FS_CardinalityType DEF Uploaded
  <2>2. [owner |-> u, status |-> "NEW", accrual |-> 0,
         uploadedAt |-> Cardinality(Uploaded)] \in Order
    BY <1>1, <2>1, ZeroAmount DEF Order, Status
  <2>3. QED BY <1>1, <1>2, <2>2, RowAssumption DEF TypeInv, TypeOK
<1>4. /\ \A s \in Uploaders : ureq[s].code \in {200, 202, 409} => ureq[s].number \in Numbers
      /\ \A a \in accepted : a.number \in Numbers
  BY DEF TypeInv, TypeOK, UploadInv
<1>5. /\ \A s \in Uploaders : ureq[s].code \in {200, 202, 409} => ureq[s].number # m
      /\ \A a \in accepted : a.number # m
  BY <1>1 DEF UploadAnswersInv, TrueAnswer
<1> HIDE DEF m, u
<1>6. \A s \in Uploaders : TrueAnswer(ureq[s])'
  <2>1. ASSUME NEW s \in Uploaders \ {r} PROVE TrueAnswer(ureq[s])'
    BY <1>3, <1>4, <1>5 DEF UploadAnswersInv, TrueAnswer
  <2>2. TrueAnswer(ureq[r])'
    BY <1>2, <1>3 DEF TrueAnswer
  <2>3. QED BY <2>1, <2>2
<1>7. \A a \in accepted' : orders'[a.number] # None /\ orders'[a.number].owner = a.user
  BY <1>1, <1>3, <1>4, <1>5 DEF UploadAnswersInv
<1>8. \A s, t \in Uploaders : ureq'[s].code = 202 /\ ureq'[t].code = 202
                                /\ ureq'[s].number = ureq'[t].number => s = t
  BY <1>2, <1>3, <1>5 DEF UploadAnswersInv
<1>9. \A s \in Uploaders, a \in accepted' :
        ureq'[s].code = 202 => ureq'[s].number # a.number
  BY <1>1, <1>2, <1>3, <1>5 DEF UploadAnswersInv
<1>10. QED
  BY <1>6, <1>7, <1>8, <1>9 DEF UploadAnswersInv

\* The client has its 202: no other request has one for the number.
LEMMA AnswerUploadKeepsAnswers ==
  ASSUME TypeInv, UploadAnswersInv, NEW r \in Uploaders, AnswerUpload(r)
  PROVE  UploadAnswersInv'
<1>1. /\ ureq'[r] = IdleUpload /\ \A s \in Uploaders \ {r} : ureq'[s] = ureq[s]
      /\ orders' = orders
  BY DEF AnswerUpload, TypeInv, TypeOK, store
<1>2. IdleUpload.code = 0
  BY DEF IdleUpload
<1>3. \A a \in accepted' :
        \/ a \in accepted
        \/ ureq[r].code = 202 /\ a.number = ureq[r].number /\ a.user = ureq[r].user
  BY DEF AnswerUpload
<1>4. /\ \A s \in Uploaders : TrueAnswer(ureq[s])'
      /\ \A a \in accepted' : orders'[a.number] # None /\ orders'[a.number].owner = a.user
  BY <1>1, <1>2, <1>3 DEF UploadAnswersInv, TrueAnswer
<1>5. \A s \in Uploaders, a \in accepted' :
        ureq'[s].code = 202 => ureq'[s].number # a.number
  BY <1>1, <1>2, <1>3 DEF UploadAnswersInv
<1>6. QED
  BY <1>1, <1>2, <1>4, <1>5 DEF UploadAnswersInv

LEMMA UploadStepAnswers ==
  ASSUME TypeInv, UploadAnswersInv, CodeInv, NEW r \in Uploaders, UploadStep(r)
  PROVE  UploadAnswersInv'
<1> DEFINE q == ureq[r]
<1>q. q \in UploadRequest
  BY DEF TypeInv, TypeOK
<1>1. CASE RefuseUpload(r)
  BY <1>1, AnswerKeepsAnswers DEF RefuseUpload, TrueAnswer, NotAccepted, store
<1>2. CASE AddOrder(r)
  <2>1. PICK u \in Users, n \in Numbers :
          ureq' = [ureq EXCEPT ![r] = [IdleUpload EXCEPT !.pc = "insert",
                                               !.user = u, !.number = n]]
    BY <1>2 DEF AddOrder
  <2> DEFINE new == [IdleUpload EXCEPT !.pc = "insert", !.user = u, !.number = n]
  <2>2. new.code = 0
    BY DEF IdleUpload
  <2> HIDE DEF new
  <2>3. TrueAnswer(new) /\ ~IsAccepted(new)
    BY <2>2 DEF TrueAnswer, IsAccepted
  <2>4. ureq' = [ureq EXCEPT ![r] = new] /\ UNCHANGED <<orders, accepted>>
    BY <1>2, <2>1 DEF AddOrder, store, new
  <2>5. QED BY <2>3, <2>4, RequestKeepsAnswers
<1>3. CASE InsertOrder(r)
  BY <1>3, InsertKeepsAnswers
<1>4. CASE InsertConflict(r)
  <2> DEFINE new == [q EXCEPT !.pc = "lookup"]
  <2>1. ureq' = [ureq EXCEPT ![r] = new] /\ UNCHANGED <<orders, accepted>>
    BY <1>4 DEF InsertConflict, store
  <2>2. new.code = 0
    BY <1>4, <1>q DEF InsertConflict, CodeInv, UploadRequest
  <2> HIDE DEF new
  <2>3. TrueAnswer(new) /\ ~IsAccepted(new)
    BY <2>2 DEF TrueAnswer, IsAccepted
  <2>4. QED BY <2>1, <2>3, RequestKeepsAnswers
<1>5. CASE GetOrderByNumber(r)
  <2>1. PICK code :
          /\ FinishUpload(r, code)
          /\ code = IF orders[q.number].owner = q.user THEN 200 ELSE 409
    BY <1>5 DEF GetOrderByNumber
  <2>2. orders[q.number] # None /\ UNCHANGED <<orders, accepted>>
    BY <1>5 DEF GetOrderByNumber, store
  <2>3. TrueAnswer([number |-> q.number, user |-> q.user, code |-> code])
    BY <2>1, <2>2 DEF TrueAnswer
  <2>4. code \in NotAccepted
    BY <2>1 DEF NotAccepted
  <2>5. FinishUpload(r, code)
    BY <2>1
  <2>6. QED BY <2>2, <2>3, <2>4, <2>5, AnswerKeepsAnswers
<1>6. CASE UploadFails(r)
  BY <1>6, AnswerKeepsAnswers DEF UploadFails, TrueAnswer, NotAccepted, store
<1>7. CASE UploadTimeout(r)
  <2>1. CASE q.pc = "answering"
    BY <1>7, <2>1, AnswerKeepsAnswers DEF UploadTimeout, TrueAnswer, NotAccepted, store
  <2>2. CASE q.pc # "answering"
    <3> DEFINE new == [q EXCEPT !.late = TRUE]
    <3>1. ureq' = [ureq EXCEPT ![r] = new] /\ UNCHANGED <<orders, accepted>>
      BY <1>7, <2>2 DEF UploadTimeout, store
    <3>2. new.code = 0
      BY <2>2, <1>q DEF CodeInv, UploadRequest
    <3> HIDE DEF new
    <3>3. TrueAnswer(new) /\ ~IsAccepted(new)
      BY <3>2 DEF TrueAnswer, IsAccepted
    <3>4. QED BY <3>1, <3>3, RequestKeepsAnswers
  <2>3. QED BY <2>1, <2>2
<1>8. CASE AnswerUpload(r)
  BY <1>8, AnswerUploadKeepsAnswers
<1>9. QED
  BY <1>1, <1>2, <1>3, <1>4, <1>5, <1>6, <1>7, <1>8 DEF UploadStep

LEMMA UploadStepCodes ==
  ASSUME TypeInv, CodeInv, NEW r \in Uploaders, UploadStep(r)
  PROVE  CodeInv'
<1> DEFINE q == ureq[r]
<1>q. q \in UploadRequest
  BY DEF TypeInv, TypeOK
<1>a. ASSUME NEW new, ureq' = [ureq EXCEPT ![r] = new],
             new.pc = "answering" \/ new.code = 0
      PROVE  CodeInv'
  BY <1>a DEF CodeInv, TypeInv, TypeOK
<1>b. ASSUME NEW code, FinishUpload(r, code)
      PROVE  CodeInv'
  BY <1>b DEF FinishUpload, CodeInv, TypeInv, TypeOK
<1>1. CASE AddOrder(r) \/ AnswerUpload(r)
  BY <1>1, <1>a DEF AddOrder, AnswerUpload, IdleUpload
<1>2. CASE InsertConflict(r)
  <2>1. [q EXCEPT !.pc = "lookup"].code = 0
    BY <1>2, <1>q DEF InsertConflict, CodeInv, UploadRequest
  <2>2. QED BY <1>2, <1>a, <2>1 DEF InsertConflict
<1>3. CASE UploadTimeout(r)
  <2>1. q.pc # "answering" => [q EXCEPT !.late = TRUE].code = 0
    BY <1>q DEF CodeInv, UploadRequest
  <2>2. QED BY <1>3, <1>a, <1>b, <2>1 DEF UploadTimeout
<1>4. QED
  BY <1>1, <1>2, <1>3, <1>b DEF UploadStep, RefuseUpload, InsertOrder, GetOrderByNumber,
    UploadFails

\* The steps of withdrawals, of the updater and the crash.
LEMMA OthersKeepAnswers ==
  ASSUME TypeInv, UploadAnswersInv, OwnersKept, accepted' = accepted,
         UNCHANGED ureq \/ ureq' = [r \in Uploaders |-> IdleUpload]
  PROVE  UploadAnswersInv'
<1>1. \A r \in Uploaders : ureq'[r] = ureq[r] \/ ureq'[r].code = 0
  BY DEF IdleUpload
<1>2. /\ \A r \in Uploaders : ureq[r].code \in {200, 202, 409} => ureq[r].number \in Numbers
      /\ \A a \in accepted : a.number \in Numbers
  BY DEF TypeInv, TypeOK, UploadInv
<1>3. \A r \in Uploaders : TrueAnswer(ureq[r])'
  BY <1>1, <1>2 DEF UploadAnswersInv, TrueAnswer, OwnersKept
<1>4. \A a \in accepted : orders'[a.number] # None /\ orders'[a.number].owner = a.user
  BY <1>2 DEF UploadAnswersInv, OwnersKept
<1>5. QED
  BY <1>1, <1>3, <1>4 DEF UploadAnswersInv

LEMMA UploadAnswersStep ==
  TypeInv /\ PipelineInv /\ CodeInv /\ UploadAnswersInv /\ [Next]_vars
    => CodeInv' /\ UploadAnswersInv'
<1> SUFFICES ASSUME TypeInv, PipelineInv, CodeInv, UploadAnswersInv, [Next]_vars
             PROVE  CodeInv' /\ UploadAnswersInv'
  OBVIOUS
<1>a. CASE OwnersKept /\ UNCHANGED uploadVars
  BY <1>a, OthersKeepAnswers DEF uploadVars, CodeInv
<1>b. UNCHANGED orders => OwnersKept
  BY DEF OwnersKept
<1>1. ASSUME NEW r \in Withdrawers, WithdrawStep(r), UNCHANGED uploadVars
      PROVE  CodeInv' /\ UploadAnswersInv'
  BY <1>1, <1>a, <1>b, WithdrawKeepsOrders
<1>2. ASSUME NEW r \in Uploaders, UploadStep(r)
      PROVE  CodeInv' /\ UploadAnswersInv'
  BY <1>2, UploadStepAnswers, UploadStepCodes
<1>3. CASE Poll /\ UNCHANGED uploadVars
  BY <1>3, <1>a, <1>b DEF Poll, store
<1>4. ASSUME NEW w \in Workers, AccrualStep(w), UNCHANGED uploadVars
      PROVE  CodeInv' /\ UploadAnswersInv'
  <2>1. OwnersKept
    BY <1>4, AccrualStepIsMonotone DEF OwnersKept, Goes, Uploaded
  <2>2. QED BY <1>4, <2>1, <1>a
<1>5. CASE Crash
  BY <1>5, <1>b, OthersKeepAnswers DEF Crash, CodeInv, IdleUpload
<1>6. CASE UNCHANGED vars
  BY <1>6, <1>a, <1>b DEF vars, store
<1>7. QED
  BY <1>1, <1>2, <1>3, <1>4, <1>5, <1>6 DEF Next, Running

LEMMA UploadAnswersInvariant == Spec => [](CodeInv /\ UploadAnswersInv)
<1>1. Init => CodeInv /\ UploadAnswersInv
  BY DEF Init, UploadsInit, IdleUpload, CodeInv, UploadAnswersInv, TrueAnswer
<1>2. QED
  BY <1>1, UploadAnswersStep, TypeInvariant, PipelineInvariant, PTL DEF Spec

\* Whoever was told 202 owns the order for ever, whatever the updater, other
\* uploads of the number and crashes do.
THEOREM AcceptedAreRecorded == Spec => []AcceptedIsRecorded
<1>1. UploadAnswersInv => AcceptedIsRecorded
  BY DEF UploadAnswersInv, AcceptedIsRecorded
<1>2. QED
  BY <1>1, UploadAnswersInvariant, PTL

\* The answers to uploads name the owner of the order, whoever won the race.
THEOREM AnswersNameOwner == Spec => []AnswerNamesOwner
<1>1. UploadAnswersInv => AnswerNamesOwner
  BY DEF UploadAnswersInv, TrueAnswer, AnswerNamesOwner
<1>2. QED
  BY <1>1, UploadAnswersInvariant, PTL

LEMMA AtMostOne ==
  ASSUME NEW S, \A x, y \in S : x = y
  PROVE  (S = {} /\ Cardinality(S) = 0) \/ Cardinality(S) = 1
<1>1. CASE S = {}
  BY <1>1, FS_EmptySet
<1>2. CASE S # {}
  <2>1. PICK x : S = {x}
    BY <1>2
  <2>2. QED BY <2>1, FS_Singleton
<1>3. QED BY <1>1, <1>2

\* A number is accepted once, however many requests race for it and are retried.
THEOREM NumbersAreAcceptedOnce == Spec => []AcceptedOnce
<1>1. TypeInv /\ UploadAnswersInv => AcceptedOnce
  <2> SUFFICES ASSUME TypeInv, UploadAnswersInv, NEW n \in Numbers
               PROVE  Cardinality({r \in Uploaders : ureq[r].pc = "answering"
                                     /\ ureq[r].number = n /\ ureq[r].code = 202})
                        + Cardinality({a \in accepted : a.number = n}) <= 1
    BY DEF AcceptedOnce
  <2> DEFINE S == {r \in Uploaders : ureq[r].pc = "answering" /\ ureq[r].number = n
                                        /\ ureq[r].code = 202}
             A == {a \in accepted : a.number = n}
  <2>1. \A r, s \in S : r = s
    BY DEF UploadAnswersInv
  <2>2. \A a, b \in A : a = b
    BY DEF UploadAnswersInv, TypeInv, TypeOK
  <2>3. S = {} \/ A = {}
    BY DEF UploadAnswersInv
  <2> HIDE DEF S, A
  <2>4. /\ (S = {} /\ Cardinality(S) = 0) \/ Cardinality(S) = 1
        /\ (A = {} /\ Cardinality(A) = 0) \/ Cardinality(A) = 1
    BY <2>1, <2>2, AtMostOne
  <2>5. /\ S = {} => Cardinality(S) = 0
        /\ A = {} => Cardinality(A) = 0
    BY FS_EmptySet
  <2>6. Cardinality(S) + Cardinality(A) <= 1
    BY <2>3, <2>4, <2>5
  <2>7. QED BY <2>6 DEF S, A
<1>2. QED
  BY <1>1, TypeInvariant, UploadAnswersInvariant, PTL

(***************************************************************************)
(* Withdrawals.                                                             *)
(***************************************************************************)
Recorded(n, u, s) ==
  withdrawals[n] # None /\ withdrawals[n] = [user |-> u, sum |-> Stored(s)]

IsPaid(q)  == q.pc = "answering" /\ q.code = 200
Pending(q) == q.pc \in {"inserted", "updated"}

\* A number that a transaction has inserted has no row yet, and no other
\* transaction has inserted it.
PaidInv ==
  /\ \A p \in paid : Recorded(p.number, p.user, p.sum)
  /\ \A r \in Withdrawers :
       IsPaid(wreq[r]) => Recorded(wreq[r].number, wreq[r].user, wreq[r].sum)
  /\ \A r \in Withdrawers : Pending(wreq[r]) => withdrawals[wreq[r].number] = None
  /\ \A r, s \in Withdrawers :
       Pending(wreq[r]) /\ Pending(wreq[s]) /\ wreq[r].number = wreq[s].number => r = s

\* A request that neither inserts nor commits.
LEMMA RequestKeepsPaid ==
  ASSUME TypeInv, PaidInv, NEW r \in Withdrawers, NEW q,
         wreq' = [wreq EXCEPT ![r] = q], UNCHANGED <<withdrawals, paid>>,
         ~IsPaid(q),
         Pending(q) => Pending(wreq[r]) /\ q.number = wreq[r].number
  PROVE  PaidInv'
<1>1. wreq'[r] = q /\ \A s \in Withdrawers \ {r} : wreq'[s] = wreq[s]
  BY DEF TypeInv, TypeOK
<1>2. \A p \in paid' : Recorded(p.number, p.user, p.sum)'
  BY DEF PaidInv, Recorded
<1>3. ASSUME NEW s \in Withdrawers
      PROVE  /\ IsPaid(wreq[s])' => Recorded(wreq[s].number, wreq[s].user, wreq[s].sum)'
             /\ Pending(wreq[s])' => /\ withdrawals'[wreq'[s].number] = None
                                     /\ Pending(wreq[s])
                                     /\ wreq'[s].number = wreq[s].number
  <2>1. CASE s = r
    BY <1>1, <2>1 DEF PaidInv, IsPaid, Pending
  <2>2. CASE s # r
    BY <1>1, <2>2 DEF PaidInv, IsPaid, Pending, Recorded
  <2>3. QED BY <2>1, <2>2
<1>4. QED
  BY <1>2, <1>3 DEF PaidInv

\* An answer other than 200.
LEMMA RefusalKeepsPaid ==
  ASSUME TypeInv, PaidInv, NEW r \in Withdrawers, NEW code, Answered(r, code),
         code # 200, UNCHANGED <<withdrawals, paid>>
  PROVE  PaidInv'
<1> DEFINE said == IF wreq[r].late THEN 503 ELSE code
           from == IF said = 200 THEN wreq[r] ELSE IdleWithdraw
           new  == [pc |-> "answering", user |-> from.user, number |-> from.number,
                    sum |-> from.sum, current |-> 0, withdrawn |-> 0, code |-> said,
                    late |-> FALSE]
<1>1. wreq' = [wreq EXCEPT ![r] = new]
  BY DEF Answered
<1>2. ~IsPaid(new) /\ ~Pending(new)
  BY DEF IsPaid, Pending
<1> HIDE DEF new
<1>3. QED
  BY ONLY TypeInv, PaidInv, r \in Withdrawers, UNCHANGED <<withdrawals, paid>>,
    <1>1, <1>2, RequestKeepsPaid

LEMMA InsertKeepsPaid ==
  ASSUME TypeInv, PaidInv, NEW r \in Withdrawers, InsertWithdrawal(r)
  PROVE  PaidInv'
<1> DEFINE q == wreq[r]
<1>1. /\ wreq' = [wreq EXCEPT ![r] = [q EXCEPT !.pc = "inserted"]]
      /\ UNCHANGED <<withdrawals, paid>>
      /\ withdrawals[q.number] = None
      /\ \A s \in Withdrawers : Pending(wreq[s]) => wreq[s].number # q.number
  BY DEF InsertWithdrawal, NumberPending, Pending, store
<1>2. /\ wreq'[r].pc = "inserted" /\ wreq'[r].number = q.number
      /\ \A s \in Withdrawers \ {r} : wreq'[s] = wreq[s]
  BY <1>1 DEF TypeInv, TypeOK, WithdrawRequest
<1> HIDE DEF q
<1>3. \A p \in paid' : Recorded(p.number, p.user, p.sum)'
  BY <1>1 DEF PaidInv, Recorded
<1>4. \A s \in Withdrawers :
        IsPaid(wreq[s])' => Recorded(wreq[s].number, wreq[s].user, wreq[s].sum)'
  BY <1>1, <1>2 DEF PaidInv, Recorded, IsPaid
<1>5. \A s \in Withdrawers : Pending(wreq[s])' => withdrawals'[wreq'[s].number] = None
  BY <1>1, <1>2 DEF PaidInv, Pending
<1>6. \A s, t \in Withdrawers :
        Pending(wreq[s])' /\ Pending(wreq[t])' /\ wreq'[s].number = wreq'[t].number => s = t
  BY <1>1, <1>2 DEF PaidInv, Pending
<1>7. QED
  BY <1>3, <1>4, <1>5, <1>6 DEF PaidInv

LEMMA CommitKeepsPaid ==
  ASSUME TypeInv, PaidInv, NEW r \in Withdrawers, CommitWithdrawal(r), paid' = paid
  PROVE  PaidInv'
<1>1. PICK q : q = wreq[r]
  OBVIOUS
<1>2. /\ Pending(q) /\ q.number \in Numbers /\ withdrawals[q.number] = None
      /\ withdrawals' = [withdrawals EXCEPT ![q.number] =
                           [user |-> q.user, sum |-> Stored(q.sum)]]
  BY <1>1 DEF CommitWithdrawal, Pending, PaidInv, TypeInv, WithdrawInv, Locking
<1>3. [user |-> q.user, sum |-> Stored(q.sum)] \in Withdrawal
  <2>1. q.sum \in Int /\ Fits(Stored(q.sum)) /\ q.user \in Users
    BY <1>1, <1>2, WithdrawalsAssumption DEF Pending, TypeInv, WithdrawInv, Locking
  <2>2. QED BY <2>1, StoredType DEF Withdrawal
<1>4. /\ Recorded(q.number, q.user, q.sum)'
      /\ \A n \in Numbers \ {q.number} : withdrawals'[n] = withdrawals[n]
  <2>1. /\ withdrawals'[q.number] = [user |-> q.user, sum |-> Stored(q.sum)]
        /\ \A n \in Numbers \ {q.number} : withdrawals'[n] = withdrawals[n]
    BY <1>2 DEF TypeInv, TypeOK
  <2>2. withdrawals'[q.number] # None
    BY <1>3, <2>1, RowAssumption
  <2>3. QED BY <2>1, <2>2 DEF Recorded
<1>5. /\ \A s \in Withdrawers \ {r} : wreq'[s] = wreq[s]
      /\ ~Pending(wreq'[r])
      /\ IsPaid(wreq'[r]) => /\ wreq'[r].number = q.number /\ wreq'[r].user = q.user
                             /\ wreq'[r].sum = q.sum
  <2>1. PICK code : Answered(r, code)
    BY DEF CommitWithdrawal, FinishWithdraw
  <2> DEFINE said == IF wreq[r].late THEN 503 ELSE code
             from == IF said = 200 THEN wreq[r] ELSE IdleWithdraw
             new  == [pc |-> "answering", user |-> from.user, number |-> from.number,
                      sum |-> from.sum, current |-> 0, withdrawn |-> 0, code |-> said,
                      late |-> FALSE]
  <2>2. wreq' = [wreq EXCEPT ![r] = new]
    BY <2>1 DEF Answered
  <2>3. /\ ~Pending(new)
        /\ IsPaid(new) => new.number = q.number /\ new.user = q.user /\ new.sum = q.sum
    BY <1>1 DEF Pending, IsPaid
  <2> HIDE DEF new
  <2>4. QED BY <2>2, <2>3 DEF TypeInv, TypeOK
<1>6. \A n \in Numbers : withdrawals[n] # None => withdrawals'[n] = withdrawals[n]
  BY <1>2, <1>4
<1>7. /\ \A p \in paid : p.number \in Numbers
      /\ \A s \in Withdrawers : IsPaid(wreq[s]) \/ Pending(wreq[s])
                                  => wreq[s].number \in Numbers
  BY DEF TypeInv, TypeOK, WithdrawInv, Locking, IsPaid, Pending
<1>8. \A p \in paid' : Recorded(p.number, p.user, p.sum)'
  BY <1>6, <1>7 DEF PaidInv, Recorded
<1>9. ASSUME NEW s \in Withdrawers, IsPaid(wreq[s])'
      PROVE  Recorded(wreq[s].number, wreq[s].user, wreq[s].sum)'
  <2>1. CASE s = r
    BY <1>4, <1>5, <1>9, <2>1 DEF Recorded
  <2>2. CASE s # r
    BY <1>5, <1>6, <1>7, <1>9, <2>2 DEF PaidInv, Recorded, IsPaid
  <2>3. QED BY <2>1, <2>2
<1>10. ASSUME NEW s \in Withdrawers, Pending(wreq[s])'
       PROVE  withdrawals'[wreq'[s].number] = None
  <2>1. s # r /\ wreq'[s] = wreq[s]
    BY <1>5, <1>10 DEF Pending
  <2>2. Pending(wreq[s]) /\ Pending(wreq[r])
    BY <1>1, <1>2, <1>10, <2>1 DEF Pending
  <2>3. wreq[s].number # q.number /\ wreq[s].number \in Numbers
    BY <1>1, <1>7, <2>1, <2>2 DEF PaidInv
  <2>4. QED BY <1>4, <2>1, <2>2, <2>3 DEF PaidInv
<1>11. \A s, t \in Withdrawers :
         Pending(wreq[s])' /\ Pending(wreq[t])' /\ wreq'[s].number = wreq'[t].number => s = t
  BY <1>5 DEF PaidInv, Pending
<1>12. QED
  BY <1>8, <1>9, <1>10, <1>11 DEF PaidInv

LEMMA AnswerKeepsPaid ==
  ASSUME TypeInv, PaidInv, NEW r \in Withdrawers, AnswerWithdraw(r)
  PROVE  PaidInv'
<1>1. /\ wreq'[r] = IdleWithdraw /\ \A s \in Withdrawers \ {r} : wreq'[s] = wreq[s]
      /\ withdrawals' = withdrawals
  BY DEF AnswerWithdraw, TypeInv, TypeOK, store
<1>2. ~IsPaid(IdleWithdraw) /\ ~Pending(IdleWithdraw)
  BY DEF IdleWithdraw, IsPaid, Pending
<1>3. \A p \in paid' :
        \/ p \in paid
        \/ /\ IsPaid(wreq[r]) /\ p.number = wreq[r].number
           /\ p.user = wreq[r].user /\ p.sum = wreq[r].sum
  BY DEF AnswerWithdraw, IsPaid
<1>4. \A p \in paid' : Recorded(p.number, p.user, p.sum)'
  BY <1>1, <1>3 DEF PaidInv, Recorded
<1>5. \A s \in Withdrawers : IsPaid(wreq[s])' \/ Pending(wreq[s])' => wreq'[s] = wreq[s]
  BY <1>1, <1>2 DEF IsPaid, Pending
<1>6. QED
  BY <1>1, <1>4, <1>5 DEF PaidInv, IsPaid, Pending, Recorded

LEMMA WithdrawStepPaid ==
  ASSUME TypeInv, PaidInv, NEW r \in Withdrawers, WithdrawStep(r)
  PROVE  PaidInv'
<1> DEFINE q == wreq[r]
<1>q. q \in WithdrawRequest
  BY DEF TypeInv, TypeOK
<1>a. ASSUME NEW code, Answered(r, code), code # 200, UNCHANGED <<withdrawals, paid>>
      PROVE  PaidInv'
  BY <1>a, RefusalKeepsPaid
<1>1. CASE RefuseWithdraw(r)
  BY <1>1, <1>a DEF RefuseWithdraw, store
<1>2. CASE AddWithdraw(r)
  <2>1. PICK new : /\ wreq' = [wreq EXCEPT ![r] = new]
                   /\ ~IsPaid(new) /\ ~Pending(new)
    <3>1. PICK u \in Users, n \in Numbers, s \in Sums :
            wreq' = [wreq EXCEPT ![r] = [IdleWithdraw EXCEPT !.pc = "begin",
                                           !.user = u, !.number = n, !.sum = s]]
      BY <1>2 DEF AddWithdraw
    <3>2. [IdleWithdraw EXCEPT !.pc = "begin", !.user = u, !.number = n,
                               !.sum = s].pc = "begin"
      BY DEF IdleWithdraw
    <3>3. QED BY <3>1, <3>2 DEF IsPaid, Pending
  <2>2. UNCHANGED <<withdrawals, paid>>
    BY <1>2 DEF AddWithdraw, store
  <2>3. QED BY <2>1, <2>2, RequestKeepsPaid
<1>3. CASE GetBalanceTx(r)
  <2>1. PICK new : /\ wreq' = [wreq EXCEPT ![r] = new]
                   /\ ~IsPaid(new) /\ ~Pending(new)
    <3> DEFINE n == [q EXCEPT !.pc = "locked", !.current = balance[q.user].current,
                              !.withdrawn = balance[q.user].withdrawn]
    <3>1. n.pc = "locked"
      BY <1>q DEF WithdrawRequest
    <3>2. wreq' = [wreq EXCEPT ![r] = n]
      BY <1>3 DEF GetBalanceTx
    <3> HIDE DEF n
    <3>3. QED BY <3>1, <3>2 DEF IsPaid, Pending
  <2>2. UNCHANGED <<withdrawals, paid>>
    BY <1>3 DEF GetBalanceTx
  <2>3. QED BY <2>1, <2>2, RequestKeepsPaid
<1>4. CASE InsufficientFunds(r)
  BY <1>4, <1>a DEF InsufficientFunds, FinishWithdraw
<1>5. CASE InsertWithdrawal(r)
  BY <1>5, InsertKeepsPaid
<1>6. CASE UpdateBalance(r)
  <2>1. PICK c, w : wreq' = [wreq EXCEPT ![r] =
                      [q EXCEPT !.pc = "updated", !.current = c, !.withdrawn = w]]
    BY <1>6 DEF UpdateBalance
  <2>2. PICK new : new = [q EXCEPT !.pc = "updated", !.current = c, !.withdrawn = w]
    OBVIOUS
  <2>3. new.pc = "updated" /\ new.number = q.number
    BY <1>q, <2>2 DEF WithdrawRequest
  <2>4. ~IsPaid(new) /\ Pending(q)
    BY <1>6, <2>3 DEF UpdateBalance, IsPaid, Pending
  <2>5. wreq' = [wreq EXCEPT ![r] = new] /\ UNCHANGED <<withdrawals, paid>>
    BY <1>6, <2>1, <2>2 DEF UpdateBalance, store
  <2>6. QED BY <2>3, <2>4, <2>5, RequestKeepsPaid
<1>7. CASE CommitWithdrawal(r)
  BY <1>7, CommitKeepsPaid DEF CommitWithdrawal
<1>8. CASE WithdrawFails(r)
  BY <1>8, <1>a DEF WithdrawFails, FinishWithdraw
<1>9. CASE WithdrawTimeout(r)
  <2>1. CASE q.pc = "answering"
    BY <1>9, <2>1, <1>a DEF WithdrawTimeout, store
  <2>2. CASE q.pc # "answering"
    <3>1. PICK new : new = [q EXCEPT !.late = TRUE]
      OBVIOUS
    <3>2. new.pc = q.pc /\ new.number = q.number
      BY <1>q, <3>1 DEF WithdrawRequest
    <3>3. ~IsPaid(new) /\ (Pending(new) => Pending(q))
      BY <2>2, <3>2 DEF IsPaid, Pending
    <3>4. wreq' = [wreq EXCEPT ![r] = new] /\ UNCHANGED <<withdrawals, paid>>
      BY <1>9, <2>2, <3>1 DEF WithdrawTimeout, store
    <3>5. QED BY <3>2, <3>3, <3>4, RequestKeepsPaid
  <2>3. QED BY <2>1, <2>2
<1>10. CASE AnswerWithdraw(r)
  BY <1>10, AnswerKeepsPaid
<1>11. QED
  BY <1>1, <1>2, <1>3, <1>4, <1>5, <1>6, <1>7, <1>8, <1>9, <1>10 DEF WithdrawStep

\* A committed withdrawal is never changed.
LEMMA WithdrawalsKept ==
  ASSUME TypeInv, PaidInv, [Next]_vars
  PROVE  \A n \in Numbers : withdrawals[n] # None => withdrawals'[n] = withdrawals[n]
<1>1. ASSUME NEW r \in Withdrawers, CommitWithdrawal(r)
      PROVE  \A n \in Numbers : withdrawals[n] # None => withdrawals'[n] = withdrawals[n]
  BY <1>1 DEF CommitWithdrawal, PaidInv, Pending, TypeInv, TypeOK
<1>2. ASSUME NEW r \in Withdrawers, WithdrawStep(r), ~CommitWithdrawal(r)
      PROVE  UNCHANGED withdrawals
  BY <1>2 DEF WithdrawStep, RefuseWithdraw, AddWithdraw, GetBalanceTx, InsufficientFunds,
    InsertWithdrawal, UpdateBalance, WithdrawFails, WithdrawTimeout, AnswerWithdraw, store
<1>3. ASSUME NEW r \in Uploaders, UploadStep(r)
      PROVE  UNCHANGED withdrawals
  BY <1>3, UploadKeepsAccounts
<1>4. ASSUME NEW w \in Workers, AccrualStep(w)
      PROVE  UNCHANGED withdrawals
  BY <1>4 DEF AccrualStep, Receive, MarkProcessing, FinalAnswer, SettleOrder, UpdateOrder,
    Credit, CommitAccrual, GiveUp, store
<1>5. CASE Poll \/ Crash \/ UNCHANGED vars
  BY <1>5 DEF Poll, Crash, vars, store
<1>6. QED
  BY <1>1, <1>2, <1>3, <1>4, <1>5 DEF Next, Running

LEMMA PaidStep == TypeInv /\ PaidInv /\ [Next]_vars => PaidInv'
<1> SUFFICES ASSUME TypeInv, PaidInv, [Next]_vars PROVE PaidInv'
  OBVIOUS
<1>a. CASE UNCHANGED <<withdrawals, wreq, paid>>
  BY <1>a DEF PaidInv, Recorded, IsPaid, Pending
<1>1. ASSUME NEW r \in Withdrawers, WithdrawStep(r)
      PROVE  PaidInv'
  BY <1>1, WithdrawStepPaid
<1>2. ASSUME NEW r \in Uploaders, UploadStep(r), UNCHANGED withdrawVars
      PROVE  PaidInv'
  BY <1>2, <1>a, UploadKeepsAccounts DEF withdrawVars
<1>3. CASE Poll /\ UNCHANGED withdrawVars
  BY <1>3, <1>a DEF Poll, store, withdrawVars
<1>4. ASSUME NEW w \in Workers, AccrualStep(w), UNCHANGED withdrawVars
      PROVE  PaidInv'
  <2>1. UNCHANGED withdrawals
    BY <1>4 DEF AccrualStep, Receive, MarkProcessing, FinalAnswer, SettleOrder, UpdateOrder,
      Credit, CommitAccrual, GiveUp, store
  <2>2. QED BY <1>4, <2>1, <1>a DEF withdrawVars
<1>5. CASE Crash
  BY <1>5 DEF Crash, PaidInv, Recorded, IsPaid, Pending, IdleWithdraw
<1>6. CASE UNCHANGED vars
  BY <1>6, <1>a DEF vars, store, withdrawVars
<1>7. QED
  BY <1>1, <1>2, <1>3, <1>4, <1>5, <1>6 DEF Next, Running

LEMMA PaidInvariant == Spec => []PaidInv
<1>1. Init => PaidInv
  BY DEF Init, WithdrawalsInit, IdleWithdraw, PaidInv, IsPaid, Pending
<1>2. QED
  BY <1>1, PaidStep, TypeInvariant, PTL DEF Spec

\* A client that was told 200 finds its withdrawal for ever: two requests for one
\* number never both commit, and nothing overwrites or removes a committed row.
THEOREM PaidAreRecorded == Spec => []PaidIsRecorded
<1>1. PaidInv => PaidIsRecorded
  BY DEF PaidInv, Recorded, PaidIsRecorded
<1>2. QED
  BY <1>1, PaidInvariant, PTL
=============================================================================
