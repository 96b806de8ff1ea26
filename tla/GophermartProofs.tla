-------------------------- MODULE GophermartProofs --------------------------
(***************************************************************************)
(* Theorems about Gophermart for every value of its constants: the types,   *)
(* and what the row locks protect.  TypeInv says what requests and jobs     *)
(* hold at each of their steps; BalanceInv adds what an open transaction    *)
(* knows of the balance row it has locked.                                  *)
(***************************************************************************)
EXTENDS Gophermart, FiniteSetTheorems, TLAPS

\* What the data of a withdrawal request are worth at each of its steps.
WithdrawInv ==
  \A r \in Withdrawers :
    /\ wreq[r].pc \in Locking \cup {"begin"} \/ wreq[r].code = 200
         => wreq[r].user \in Users /\ wreq[r].number \in Numbers /\ wreq[r].sum \in Sums
    /\ wreq[r].pc \in {"inserted", "updated"} => Fits(Stored(wreq[r].sum))

UploadInv ==
  \A r \in Uploaders :
    ureq[r].pc \in {"insert", "lookup"} \/ ureq[r].code \in {200, 202, 409}
      => ureq[r].user \in Users /\ ureq[r].number \in Numbers

JobInv ==
  /\ \A o \in ch : orders[o.number] # None
  /\ \A w \in Workers :
       /\ job[w].pc # "idle" => /\ job[w].user \in Users
                                /\ job[w].number \in Numbers
                                /\ orders[job[w].number] # None
       /\ job[w].pc \in {"settle", "begin", "ordered", "credited"}
            => job[w].status \in Final
       /\ job[w].pc \in {"ordered", "credited"} => Fits(Stored(job[w].accrual))

TypeInv == TypeOK /\ WithdrawInv /\ UploadInv /\ JobInv

LEMMA StoredType ==
  ASSUME NEW x \in Int, Fits(Stored(x))
  PROVE  Stored(x) \in Amount
BY MaxAmountAssumption DEF Stored, Fits, Amount, Whole

LEMMA StoredFloatsType ==
  ASSUME NEW x \in Int, NEW y \in StoredFloats(x), Fits(y)
  PROVE  y \in Amount
BY MaxAmountAssumption DEF StoredFloats, Fits, Amount, Whole

LEMMA ZeroAmount == 0 \in Amount
BY MaxAmountAssumption DEF Amount, Whole


THEOREM TypeInit == Init => TypeInv
BY ZeroAmount DEF Init, StoreInit, WithdrawalsInit, UploadsInit, AccrualsInit,
  TypeInv, TypeOK, WithdrawInv, UploadInv, JobInv, IdleWithdraw, IdleUpload,
  IdleJob, WithdrawRequest, WithdrawPc, WithdrawCode, UploadRequest, UploadPc,
  UploadCode, Job, JobPc, Balance, Locking

LEMMA AmountInt == Amount \subseteq Int
BY MaxAmountAssumption DEF Amount

\* The part of the invariant about one withdrawal request with the data q.
WellFormedWithdraw(q) ==
  /\ q \in WithdrawRequest
  /\ q.pc \in {"begin", "locked", "inserted", "updated"} \/ q.code = 200
       => q.user \in Users /\ q.number \in Numbers /\ q.sum \in Sums
  /\ q.pc \in {"inserted", "updated"} => Fits(Stored(q.sum))

LEMMA WithdrawWellFormed ==
  ASSUME TypeInv, NEW r \in Withdrawers
  PROVE  WellFormedWithdraw(wreq[r])
BY DEF TypeInv, TypeOK, WithdrawInv, WellFormedWithdraw, Locking

\* A request whose data change and are well formed keeps the invariant.
LEMMA WithdrawBecomes ==
  ASSUME TypeInv, NEW r \in Withdrawers, NEW q, WellFormedWithdraw(q),
         wreq' = [wreq EXCEPT ![r] = q]
  PROVE  wreq' \in [Withdrawers -> WithdrawRequest] /\ WithdrawInv'
BY DEF TypeInv, TypeOK, WithdrawInv, WellFormedWithdraw, Locking

LEMMA IdleWithdrawWellFormed == WellFormedWithdraw(IdleWithdraw)
BY ZeroAmount DEF WellFormedWithdraw, IdleWithdraw, WithdrawRequest, WithdrawPc,
  WithdrawCode

\* The next statement of a request in its transaction.
LEMMA NextStatement ==
  ASSUME NEW q, WellFormedWithdraw(q), NEW pc \in {"locked", "inserted", "updated"},
         q.pc \in {"begin", "locked", "inserted"},
         pc \in {"inserted", "updated"} => Fits(Stored(q.sum)),
         NEW c \in Amount, NEW w \in Amount
  PROVE  WellFormedWithdraw([q EXCEPT !.pc = pc, !.current = c, !.withdrawn = w])
<1> DEFINE n == [q EXCEPT !.pc = pc, !.current = c, !.withdrawn = w]
<1>1. q \in WithdrawRequest /\ pc \in WithdrawPc
  BY DEF WellFormedWithdraw, WithdrawPc
<1>2. n \in WithdrawRequest
  BY <1>1 DEF WithdrawRequest
<1>3. n.pc = pc /\ n.user = q.user /\ n.number = q.number /\ n.sum = q.sum
  BY <1>1 DEF WithdrawRequest
<1> HIDE DEF n
<1>4. q.user \in Users /\ q.number \in Numbers /\ q.sum \in Sums
  BY DEF WellFormedWithdraw
<1>5. WellFormedWithdraw(n)
  BY <1>2, <1>3, <1>4 DEF WellFormedWithdraw
<1>6. QED
  BY <1>5 DEF n

LEMMA LateWellFormed ==
  ASSUME NEW q, WellFormedWithdraw(q)
  PROVE  WellFormedWithdraw([q EXCEPT !.late = TRUE])
<1> DEFINE n == [q EXCEPT !.late = TRUE]
<1>1. q \in WithdrawRequest
  BY DEF WellFormedWithdraw
<1>2. n \in WithdrawRequest
  BY <1>1 DEF WithdrawRequest
<1>3. /\ n.pc = q.pc /\ n.user = q.user /\ n.number = q.number /\ n.sum = q.sum
      /\ n.code = q.code
  BY <1>1 DEF WithdrawRequest
<1> HIDE DEF n
<1>4. WellFormedWithdraw(n)
  BY <1>2, <1>3 DEF WellFormedWithdraw
<1>5. QED
  BY <1>4 DEF n

\* An answer leaves the requests well formed, when a 200 is for a real request.
LEMMA AnsweredType ==
  ASSUME TypeInv, NEW r \in Withdrawers, NEW code \in {200, 400, 402, 500, 503},
         code = 200 => wreq[r].pc \in {"begin", "locked", "inserted", "updated"},
         Answered(r, code)
  PROVE  wreq' \in [Withdrawers -> WithdrawRequest] /\ WithdrawInv'
<1> DEFINE q    == wreq[r]
           said == IF q.late THEN 503 ELSE code
           from == IF said = 200 THEN q ELSE IdleWithdraw
           new  == [pc |-> "answering", user |-> from.user, number |-> from.number,
                    sum |-> from.sum, current |-> 0, withdrawn |-> 0, code |-> said,
                    late |-> FALSE]
<1>1. said \in {200, 400, 402, 500, 503} /\ (said = 200 => code = 200)
  <2>1. CASE q.late  BY <2>1
  <2>2. CASE ~q.late BY <2>2
  <2>3. QED BY <2>1, <2>2
<1>2. /\ from.user \in Users \cup {None} /\ from.number \in Numbers \cup {None}
      /\ from.sum \in Sums \cup {0}
      /\ said = 200 => from.user \in Users /\ from.number \in Numbers /\ from.sum \in Sums
  BY <1>1, WithdrawWellFormed DEF WellFormedWithdraw, IdleWithdraw
<1>3. said \in WithdrawCode /\ "answering" \in WithdrawPc
  BY <1>1 DEF WithdrawCode, WithdrawPc
<1>4. WellFormedWithdraw(new)
  <2> HIDE DEF said, from
  <2>1. QED BY <1>2, <1>3, ZeroAmount DEF WellFormedWithdraw, WithdrawRequest
<1>5. wreq' = [wreq EXCEPT ![r] = new]
  BY DEF Answered
<1> HIDE DEF new
<1>6. QED
  BY <1>4, <1>5, WithdrawBecomes

\* The end of a transaction leaves the locks well formed.
LEMMA UnlockType ==
  ASSUME TypeOK, NEW tx, Unlock(tx)
  PROVE  rowLock' \in [Users -> Withdrawers \cup Workers \cup {None}]
BY DEF TypeOK, Unlock

\* Every step of a withdrawal request keeps the types.
LEMMA WithdrawStepType ==
  ASSUME TypeInv, NEW r \in Withdrawers, WithdrawStep(r),
         UNCHANGED <<uploadVars, accrualVars>>
  PROVE  TypeInv'
<1> DEFINE q == wreq[r]
<1>q. WellFormedWithdraw(q)
  BY WithdrawWellFormed
<1>a. CASE UNCHANGED <<orders, balance, withdrawals, paid>>
           /\ rowLock' \in [Users -> Withdrawers \cup Workers \cup {None}]
           /\ wreq' \in [Withdrawers -> WithdrawRequest] /\ WithdrawInv'
  BY <1>a DEF uploadVars, accrualVars, TypeInv, TypeOK, UploadInv, JobInv
<1>1. CASE RefuseWithdraw(r)
  <2>1. wreq' \in [Withdrawers -> WithdrawRequest] /\ WithdrawInv'
    BY <1>1, AnsweredType DEF RefuseWithdraw
  <2>2. QED BY <1>1, <2>1, <1>a DEF RefuseWithdraw, store, TypeInv, TypeOK
<1>2. CASE AddWithdraw(r)
  <2>1. PICK u \in Users, n \in Numbers, s \in Sums :
          wreq' = [wreq EXCEPT ![r] = [IdleWithdraw EXCEPT !.pc = "begin",
                                         !.user = u, !.number = n, !.sum = s]]
    BY <1>2 DEF AddWithdraw
  <2>2. WellFormedWithdraw([IdleWithdraw EXCEPT !.pc = "begin",
                              !.user = u, !.number = n, !.sum = s])
    BY ZeroAmount DEF IdleWithdraw, WellFormedWithdraw, WithdrawRequest, WithdrawPc,
      WithdrawCode
  <2>3. wreq' \in [Withdrawers -> WithdrawRequest] /\ WithdrawInv'
    BY <2>1, <2>2, WithdrawBecomes
  <2>4. QED BY <1>2, <2>3, <1>a DEF AddWithdraw, store, TypeInv, TypeOK
<1>3. CASE GetBalanceTx(r)
  <2>1. WellFormedWithdraw([q EXCEPT !.pc = "locked",
                                     !.current   = balance[q.user].current,
                                     !.withdrawn = balance[q.user].withdrawn])
    <3>1. balance[q.user].current \in Amount /\ balance[q.user].withdrawn \in Amount
      BY <1>3, <1>q DEF GetBalanceTx, WellFormedWithdraw, TypeInv, TypeOK, Balance
    <3>2. QED BY <1>3, <1>q, <3>1, NextStatement DEF GetBalanceTx
  <2>2. wreq' \in [Withdrawers -> WithdrawRequest] /\ WithdrawInv'
    BY <1>3, <2>1, WithdrawBecomes DEF GetBalanceTx
  <2>3. rowLock' \in [Users -> Withdrawers \cup Workers \cup {None}]
    BY <1>3 DEF GetBalanceTx, Lock, TypeInv, TypeOK
  <2>4. QED BY <1>3, <2>2, <2>3, <1>a DEF GetBalanceTx
<1>4. CASE InsufficientFunds(r)
  <2>1. wreq' \in [Withdrawers -> WithdrawRequest] /\ WithdrawInv'
    BY <1>4, AnsweredType DEF InsufficientFunds, FinishWithdraw
  <2>2. rowLock' \in [Users -> Withdrawers \cup Workers \cup {None}]
    BY <1>4, UnlockType DEF InsufficientFunds, FinishWithdraw, TypeInv
  <2>3. QED BY <1>4, <2>1, <2>2, <1>a DEF InsufficientFunds
<1>5. CASE InsertWithdrawal(r)
  <2>1. q.pc = "locked" /\ Fits(Stored(q.sum))
    BY <1>5 DEF InsertWithdrawal
  <2>2. /\ q.current \in Amount /\ q.withdrawn \in Amount
        /\ [q EXCEPT !.pc = "inserted"] = [q EXCEPT !.pc = "inserted",
               !.current = q.current, !.withdrawn = q.withdrawn]
    BY <1>q DEF WellFormedWithdraw, WithdrawRequest
  <2>3. WellFormedWithdraw([q EXCEPT !.pc = "inserted"])
    <3>1. WellFormedWithdraw([q EXCEPT !.pc = "inserted", !.current = q.current,
                                       !.withdrawn = q.withdrawn])
      BY <1>q, <2>1, <2>2, NextStatement
    <3>2. QED BY <2>2, <3>1
  <2>4. wreq' \in [Withdrawers -> WithdrawRequest] /\ WithdrawInv'
    BY <1>5, <2>3, WithdrawBecomes DEF InsertWithdrawal
  <2>5. QED BY <1>5, <2>4, <1>a DEF InsertWithdrawal, store, TypeInv, TypeOK
<1>6. CASE UpdateBalance(r)
  <2>1. PICK c \in StoredFloats(q.current - q.sum),
             w \in StoredFloats(q.withdrawn + q.sum) :
          /\ Fits(c) /\ Fits(w)
          /\ wreq' = [wreq EXCEPT ![r] =
               [q EXCEPT !.pc = "updated", !.current = c, !.withdrawn = w]]
    BY <1>6 DEF UpdateBalance
  <2>2. q.pc = "inserted"
    BY <1>6 DEF UpdateBalance
  <2>3. q.current - q.sum \in Int /\ q.withdrawn + q.sum \in Int
    <3>1. q.current \in Amount /\ q.withdrawn \in Amount
      BY <1>q DEF WellFormedWithdraw, WithdrawRequest
    <3>2. q.sum \in Sums
      BY <1>q, <2>2 DEF WellFormedWithdraw
    <3>3. q.current \in Int /\ q.withdrawn \in Int
      BY <3>1, AmountInt
    <3>4. q.sum \in Int
      BY <3>2, WithdrawalsAssumption
    <3>5. QED BY <3>3, <3>4
  <2>4. c \in Amount /\ w \in Amount
    BY <2>1, <2>3, StoredFloatsType
  <2>5. WellFormedWithdraw([q EXCEPT !.pc = "updated", !.current = c, !.withdrawn = w])
    BY <1>q, <2>2, <2>4, NextStatement DEF WellFormedWithdraw
  <2>6. wreq' \in [Withdrawers -> WithdrawRequest] /\ WithdrawInv'
    BY <2>1, <2>5, WithdrawBecomes
  <2>7. QED BY <1>6, <2>6, <1>a DEF UpdateBalance, store, TypeInv, TypeOK
<1>7. CASE CommitWithdrawal(r)
  <2>1. PICK code \in {200, 500} : FinishWithdraw(r, code)
    BY <1>7 DEF CommitWithdrawal
  <2>2. q.pc = "updated"
    BY <1>7 DEF CommitWithdrawal
  <2>3. wreq' \in [Withdrawers -> WithdrawRequest] /\ WithdrawInv'
    BY <2>1, <2>2, AnsweredType DEF FinishWithdraw
  <2>4. q.user \in Users /\ q.number \in Numbers /\ q.sum \in Int
        /\ Fits(Stored(q.sum)) /\ q.current \in Amount /\ q.withdrawn \in Amount
    BY <1>q, <2>2, WithdrawalsAssumption DEF WellFormedWithdraw, WithdrawRequest
  <2>5. withdrawals' \in [Numbers -> Withdrawal \cup {None}]
    BY <1>7, <2>4, StoredType DEF CommitWithdrawal, TypeInv, TypeOK, Withdrawal
  <2>6. balance' \in [Users -> Balance]
    BY <1>7, <2>4 DEF CommitWithdrawal, TypeInv, TypeOK, Balance
  <2>7. rowLock' \in [Users -> Withdrawers \cup Workers \cup {None}]
    BY <2>1, UnlockType DEF FinishWithdraw, TypeInv
  <2>8. QED
    BY <1>7, <2>3, <2>5, <2>6, <2>7 DEF CommitWithdrawal, uploadVars, accrualVars,
      TypeInv, TypeOK, UploadInv, JobInv
<1>8. CASE WithdrawFails(r)
  <2>1. wreq' \in [Withdrawers -> WithdrawRequest] /\ WithdrawInv'
    BY <1>8, AnsweredType DEF WithdrawFails, FinishWithdraw
  <2>2. rowLock' \in [Users -> Withdrawers \cup Workers \cup {None}]
    BY <1>8, UnlockType DEF WithdrawFails, FinishWithdraw, TypeInv
  <2>3. QED BY <1>8, <2>1, <2>2, <1>a DEF WithdrawFails
<1>9. CASE WithdrawTimeout(r)
  <2>1. wreq' \in [Withdrawers -> WithdrawRequest] /\ WithdrawInv'
    <3>1. CASE q.pc = "answering"
      BY <1>9, <3>1, AnsweredType DEF WithdrawTimeout
    <3>2. CASE q.pc # "answering"
      <4>1. WellFormedWithdraw([q EXCEPT !.late = TRUE])
        BY <1>q, LateWellFormed
      <4>2. QED BY <1>9, <3>2, <4>1, WithdrawBecomes DEF WithdrawTimeout
    <3>3. QED BY <3>1, <3>2
  <2>2. QED BY <1>9, <2>1, <1>a DEF WithdrawTimeout, store, TypeInv, TypeOK
<1>10. CASE AnswerWithdraw(r)
  <2>1. wreq' \in [Withdrawers -> WithdrawRequest] /\ WithdrawInv'
    BY <1>10, IdleWithdrawWellFormed, WithdrawBecomes DEF AnswerWithdraw
  <2>2. paid' \subseteq [user : Users, number : Numbers, sum : Sums]
    BY <1>10, <1>q DEF AnswerWithdraw, WellFormedWithdraw, TypeInv, TypeOK
  <2>3. QED
    BY <1>10, <2>1, <2>2 DEF AnswerWithdraw, store, uploadVars, accrualVars, TypeInv,
      TypeOK, UploadInv, JobInv
<1>11. QED
  BY <1>1, <1>2, <1>3, <1>4, <1>5, <1>6, <1>7, <1>8, <1>9, <1>10 DEF WithdrawStep

\* The part of the invariant about one upload request with the data q.
WellFormedUpload(q) ==
  /\ q \in UploadRequest
  /\ q.pc \in {"insert", "lookup"} \/ q.code \in {200, 202, 409}
       => q.user \in Users /\ q.number \in Numbers

LEMMA UploadWellFormed ==
  ASSUME TypeInv, NEW r \in Uploaders
  PROVE  WellFormedUpload(ureq[r])
BY DEF TypeInv, TypeOK, UploadInv, WellFormedUpload

LEMMA UploadBecomes ==
  ASSUME TypeInv, NEW r \in Uploaders, NEW q, WellFormedUpload(q),
         ureq' = [ureq EXCEPT ![r] = q]
  PROVE  ureq' \in [Uploaders -> UploadRequest] /\ UploadInv'
BY DEF TypeInv, TypeOK, UploadInv, WellFormedUpload

LEMMA IdleUploadWellFormed == WellFormedUpload(IdleUpload)
BY DEF WellFormedUpload, IdleUpload, UploadRequest, UploadPc, UploadCode

\* An answer leaves the uploads well formed, when a 200, 202 or 409 is for a
\* real request.
LEMMA FinishUploadType ==
  ASSUME TypeInv, NEW r \in Uploaders, NEW code \in {200, 202, 400, 409, 500, 503},
         code \in {200, 202, 409} => ureq[r].pc # "idle" /\ ureq[r].pc # "answering",
         FinishUpload(r, code)
  PROVE  ureq' \in [Uploaders -> UploadRequest] /\ UploadInv'
<1> DEFINE q    == ureq[r]
           said == IF q.late THEN 503 ELSE code
           from == IF said \in {200, 202, 409} THEN q ELSE IdleUpload
           new  == [pc |-> "answering", user |-> from.user, number |-> from.number,
                    code |-> said, late |-> FALSE]
<1>1. /\ said \in {200, 202, 400, 409, 500, 503}
      /\ said \in {200, 202, 409} => code \in {200, 202, 409}
  <2>1. CASE q.late  BY <2>1
  <2>2. CASE ~q.late BY <2>2
  <2>3. QED BY <2>1, <2>2
<1>2. /\ from.user \in Users \cup {None} /\ from.number \in Numbers \cup {None}
      /\ said \in {200, 202, 409} => from.user \in Users /\ from.number \in Numbers
  <2>1. q \in UploadRequest /\ q.pc \in UploadPc
    BY UploadWellFormed DEF WellFormedUpload, UploadRequest
  <2>2. said \in {200, 202, 409} => q.user \in Users /\ q.number \in Numbers
    BY <1>1, <2>1, UploadWellFormed DEF WellFormedUpload, UploadPc
  <2>3. QED BY <2>1, <2>2 DEF IdleUpload, UploadRequest
<1>3. said \in UploadCode /\ "answering" \in UploadPc
  BY <1>1 DEF UploadCode, UploadPc
<1>4. WellFormedUpload(new)
  <2> HIDE DEF said, from
  <2>1. QED BY <1>2, <1>3 DEF WellFormedUpload, UploadRequest
<1>5. ureq' = [ureq EXCEPT ![r] = new]
  BY DEF FinishUpload
<1> HIDE DEF new
<1>6. QED
  BY ONLY TypeInv, r \in Uploaders, <1>4, <1>5, UploadBecomes

\* Every step of an upload request keeps the types.
LEMMA UploadStepType ==
  ASSUME TypeInv, NEW r \in Uploaders, UploadStep(r),
         UNCHANGED <<withdrawVars, accrualVars>>
  PROVE  TypeInv'
<1> DEFINE q == ureq[r]
<1>q. WellFormedUpload(q)
  BY UploadWellFormed
<1>a. CASE UNCHANGED <<store, accepted>>
           /\ ureq' \in [Uploaders -> UploadRequest] /\ UploadInv'
  BY <1>a DEF store, withdrawVars, accrualVars, TypeInv, TypeOK, WithdrawInv, JobInv
<1>1. CASE RefuseUpload(r)
  BY <1>1, <1>a, FinishUploadType DEF RefuseUpload
<1>2. CASE AddOrder(r)
  <2>1. PICK u \in Users, n \in Numbers :
          ureq' = [ureq EXCEPT ![r] = [IdleUpload EXCEPT !.pc = "insert",
                                               !.user = u, !.number = n]]
    BY <1>2 DEF AddOrder
  <2>2. WellFormedUpload([IdleUpload EXCEPT !.pc = "insert", !.user = u, !.number = n])
    BY DEF IdleUpload, WellFormedUpload, UploadRequest, UploadPc, UploadCode
  <2>3. ureq' \in [Uploaders -> UploadRequest] /\ UploadInv'
    BY <2>1, <2>2, UploadBecomes
  <2>4. QED BY <1>2, <1>a, <2>3 DEF AddOrder
<1>3. CASE InsertOrder(r)
  <2>1. q.pc = "insert" /\ orders[q.number] = None /\ q.user \in Users
    BY <1>3, <1>q DEF InsertOrder, WellFormedUpload
  <2>2. ureq' \in [Uploaders -> UploadRequest] /\ UploadInv'
    BY <1>3, <2>1, FinishUploadType DEF InsertOrder
  <2>3. Cardinality(Uploaded) \in Nat
    BY StoreAssumption, FS_Subset, FS_CardinalityType DEF Uploaded
  <2>4. [owner |-> q.user, status |-> "NEW", accrual |-> 0,
         uploadedAt |-> Cardinality(Uploaded)] \in Order
    BY <2>1, <2>3, ZeroAmount DEF Order, Status
  <2>5. orders' \in [Numbers -> Order \cup {None}]
    BY <1>3, <2>4 DEF InsertOrder, TypeInv, TypeOK
  <2>6. \A n \in Numbers : orders[n] # None => orders'[n] = orders[n]
    BY <1>3, <2>1 DEF InsertOrder, TypeInv, TypeOK
  <2>7. JobInv'
    BY <1>3, <2>6 DEF InsertOrder, JobInv, accrualVars, TypeInv, TypeOK, OrderToProcess
  <2>8. QED
    BY <1>3, <2>2, <2>5, <2>7 DEF InsertOrder, withdrawVars, accrualVars, TypeInv,
      TypeOK, WithdrawInv
<1>4. CASE InsertConflict(r)
  <2>1. WellFormedUpload([q EXCEPT !.pc = "lookup"])
    <3>1. q.pc = "insert"
      BY <1>4 DEF InsertConflict
    <3>2. QED BY <1>q, <3>1 DEF WellFormedUpload, UploadRequest, UploadPc
  <2>2. ureq' \in [Uploaders -> UploadRequest] /\ UploadInv'
    BY <1>4, <2>1, UploadBecomes DEF InsertConflict
  <2>3. QED BY <1>4, <1>a, <2>2 DEF InsertConflict
<1>5. CASE GetOrderByNumber(r)
  <2>1. PICK code \in {200, 409} : FinishUpload(r, code)
    BY <1>5 DEF GetOrderByNumber
  <2>2. ureq' \in [Uploaders -> UploadRequest] /\ UploadInv'
    BY <1>5, <2>1, FinishUploadType DEF GetOrderByNumber
  <2>3. QED BY <1>5, <1>a, <2>2 DEF GetOrderByNumber
<1>6. CASE UploadFails(r)
  BY <1>6, <1>a, FinishUploadType DEF UploadFails
<1>7. CASE UploadTimeout(r)
  <2>1. CASE q.pc = "answering"
    BY <1>7, <2>1, <1>a, FinishUploadType DEF UploadTimeout
  <2>2. CASE q.pc # "answering"
    <3>1. WellFormedUpload([q EXCEPT !.late = TRUE])
      BY <1>q DEF WellFormedUpload, UploadRequest
    <3>2. ureq' \in [Uploaders -> UploadRequest] /\ UploadInv'
      BY <1>7, <2>2, <3>1, UploadBecomes DEF UploadTimeout
    <3>3. QED BY <1>7, <1>a, <3>2 DEF UploadTimeout
  <2>3. QED BY <2>1, <2>2
<1>8. CASE AnswerUpload(r)
  <2>1. ureq' \in [Uploaders -> UploadRequest] /\ UploadInv'
    BY <1>8, IdleUploadWellFormed, UploadBecomes DEF AnswerUpload
  <2>2. accepted' \subseteq [user : Users, number : Numbers]
    BY <1>8, <1>q DEF AnswerUpload, WellFormedUpload, TypeInv, TypeOK
  <2>3. QED
    BY <1>8, <2>1, <2>2 DEF AnswerUpload, store, withdrawVars, accrualVars, TypeInv,
      TypeOK, WithdrawInv, JobInv
<1>9. QED
  BY <1>1, <1>2, <1>3, <1>4, <1>5, <1>6, <1>7, <1>8 DEF UploadStep

LEMMA AccrualInt == \A a \in AccrualSums \cup {0} : a \in Int /\ a >= 0
<1>1. AccrualSums \subseteq Nat
  BY AccrualsAssumption
<1>2. QED BY <1>1

\* The part of the invariant about one worker with the data j.
WellFormedJob(j) ==
  /\ j \in Job
  /\ j.pc # "idle" => /\ j.user \in Users /\ j.number \in Numbers
                      /\ orders[j.number] # None
  /\ j.pc \in {"settle", "begin", "ordered", "credited"} => j.status \in Final
  /\ j.pc \in {"ordered", "credited"} => Fits(Stored(j.accrual))

LEMMA JobWellFormed ==
  ASSUME TypeInv, NEW w \in Workers
  PROVE  WellFormedJob(job[w])
BY DEF TypeInv, TypeOK, JobInv, WellFormedJob

\* A worker whose data change and are well formed keeps the invariant, when no
\* order loses its row.
LEMMA JobBecomes ==
  ASSUME TypeInv, NEW w \in Workers, NEW j, WellFormedJob(j),
         job' = [job EXCEPT ![w] = j], ch' \subseteq ch,
         \A n \in Numbers : orders[n] # None => orders'[n] # None
  PROVE  job' \in [Workers -> Job] /\ ch' \subseteq OrderToProcess /\ JobInv'
<1>1. job' \in [Workers -> Job] /\ ch' \subseteq OrderToProcess
  BY DEF TypeInv, TypeOK, WellFormedJob
<1>2. \A o \in ch' : orders'[o.number] # None
  BY DEF TypeInv, TypeOK, JobInv, OrderToProcess
<1>3. ASSUME NEW x \in Workers
      PROVE  /\ job'[x].pc # "idle" => /\ job'[x].user \in Users
                                       /\ job'[x].number \in Numbers
                                       /\ orders'[job'[x].number] # None
             /\ job'[x].pc \in {"settle", "begin", "ordered", "credited"}
                  => job'[x].status \in Final
             /\ job'[x].pc \in {"ordered", "credited"} => Fits(Stored(job'[x].accrual))
  <2>1. CASE x = w
    BY <2>1 DEF TypeInv, TypeOK, WellFormedJob
  <2>2. CASE x # w
    <3>1. job'[x] = job[x] /\ WellFormedJob(job[x])
      BY <2>2, JobWellFormed DEF TypeInv, TypeOK
    <3>2. QED BY <3>1 DEF WellFormedJob
  <2>3. QED BY <2>1, <2>2
<1>4. QED
  BY <1>1, <1>2, <1>3 DEF JobInv

LEMMA IdleJobWellFormed == WellFormedJob(IdleJob)
BY ZeroAmount DEF WellFormedJob, IdleJob, Job, JobPc

\* An order row with a new status and accrual is an order row.
LEMMA OrderUpdate ==
  ASSUME TypeInv, NEW n \in Numbers, orders[n] # None, NEW s \in Status,
         NEW a \in Amount
  PROVE  /\ [orders[n] EXCEPT !.status = s] \in Order
         /\ [orders[n] EXCEPT !.status = s, !.accrual = a] \in Order
BY DEF TypeInv, TypeOK, Order

\* A write to the row of one order leaves the table well formed.
LEMMA OrdersBecome ==
  ASSUME TypeInv, NEW n \in Numbers, NEW o \in Order,
         orders' = [orders EXCEPT ![n] = o]
  PROVE  /\ orders' \in [Numbers -> Order \cup {None}]
         /\ \A m \in Numbers : orders[m] # None => orders'[m] # None
BY RowAssumption DEF TypeInv, TypeOK

\* Every step of the updater keeps the types.
LEMMA PollType ==
  ASSUME TypeInv, Poll, UNCHANGED <<withdrawVars, uploadVars>>
  PROVE  TypeInv'
<1>1. PICK batch \in SUBSET ToProcess :
        ch' = {[number |-> n, user |-> orders[n].owner,
                status |-> orders[n].status] : n \in batch}
  BY DEF Poll
<1>2. \A n \in batch : /\ n \in Numbers /\ orders[n] # None /\ orders[n] \in Order
                       /\ orders[n].status \in {"NEW", "PROCESSING"}
  BY DEF ToProcess, Uploaded, TypeInv, TypeOK
<1>3. ch' \subseteq OrderToProcess
  BY <1>1, <1>2 DEF OrderToProcess, Order
<1>4. \A o \in ch' : orders[o.number] # None
  BY <1>1, <1>2
<1>5. QED
  BY <1>3, <1>4 DEF Poll, store, withdrawVars, uploadVars, TypeInv, TypeOK, WithdrawInv,
    UploadInv, JobInv

LEMMA AccrualStepType ==
  ASSUME TypeInv, NEW w \in Workers, AccrualStep(w),
         UNCHANGED <<withdrawVars, uploadVars>>
  PROVE  TypeInv'
<1> DEFINE j == job[w]
<1>j. WellFormedJob(j)
  BY JobWellFormed
<1>a. CASE /\ UNCHANGED withdrawals
           /\ orders' \in [Numbers -> Order \cup {None}]
           /\ balance' \in [Users -> Balance]
           /\ rowLock' \in [Users -> Withdrawers \cup Workers \cup {None}]
           /\ job' \in [Workers -> Job] /\ ch' \subseteq OrderToProcess /\ JobInv'
  BY <1>a DEF withdrawVars, uploadVars, TypeInv, TypeOK, WithdrawInv, UploadInv
<1>b. CASE UNCHANGED store /\ job' \in [Workers -> Job] /\ ch' \subseteq OrderToProcess
           /\ JobInv'
  BY <1>b, <1>a DEF store, TypeInv, TypeOK
<1>1. CASE Receive(w)
  <2>1. PICK o \in ch :
          /\ ch' = ch \ {o}
          /\ job' = [job EXCEPT ![w] =
               [IdleJob EXCEPT !.pc = IF o.status = "NEW" THEN "mark" ELSE "ask",
                               !.number = o.number, !.user = o.user]]
    BY <1>1 DEF Receive
  <2>2. o.number \in Numbers /\ o.user \in Users /\ orders[o.number] # None
    BY DEF TypeInv, TypeOK, JobInv, OrderToProcess
  <2>3. WellFormedJob([IdleJob EXCEPT !.pc = IF o.status = "NEW" THEN "mark" ELSE "ask",
                                      !.number = o.number, !.user = o.user])
    BY <2>2, ZeroAmount DEF WellFormedJob, IdleJob, Job, JobPc
  <2>4. job' \in [Workers -> Job] /\ ch' \subseteq OrderToProcess /\ JobInv'
    BY <1>1, <2>1, <2>3, JobBecomes DEF Receive, store
  <2>5. QED BY <1>1, <1>b, <2>4 DEF Receive
<1>2. CASE MarkProcessing(w)
  <2>1. j.pc = "mark" /\ j.number \in Numbers /\ orders[j.number] # None
    BY <1>2, <1>j DEF MarkProcessing, WellFormedJob
  <2>2. [orders[j.number] EXCEPT !.status = "PROCESSING"] \in Order
    BY <2>1, OrderUpdate, ZeroAmount DEF Status
  <2>3. orders' = [orders EXCEPT ![j.number] =
                     [orders[j.number] EXCEPT !.status = "PROCESSING"]]
    BY <1>2 DEF MarkProcessing
  <2>4. /\ orders' \in [Numbers -> Order \cup {None}]
        /\ \A m \in Numbers : orders[m] # None => orders'[m] # None
    BY <2>1, <2>2, <2>3, OrdersBecome
  <2>5. WellFormedJob([j EXCEPT !.pc = "ask"])
    BY <1>j, <2>1 DEF WellFormedJob, Job, JobPc
  <2>6. job' \in [Workers -> Job] /\ ch' \subseteq OrderToProcess /\ JobInv'
    <3>1. CASE job' = [job EXCEPT ![w] = [j EXCEPT !.pc = "ask"]]
      BY <1>2, <2>4, <2>5, <3>1, JobBecomes DEF MarkProcessing
    <3>2. CASE job' = [job EXCEPT ![w] = IdleJob]
      BY <1>2, <2>4, <3>2, IdleJobWellFormed, JobBecomes DEF MarkProcessing
    <3>3. QED BY <1>2, <3>1, <3>2 DEF MarkProcessing
  <2>7. QED BY <1>2, <1>a, <2>4, <2>6 DEF MarkProcessing, TypeInv, TypeOK
<1>3. CASE FinalAnswer(w)
  <2>1. PICK s \in Final, a \in AccrualSums \cup {0} :
          job' = [job EXCEPT ![w] =
            [j EXCEPT !.pc = IF a = 0 THEN "settle" ELSE "begin",
                      !.status = s, !.accrual = a]]
    BY <1>3 DEF FinalAnswer
  <2>2. j.pc = "ask"
    BY <1>3 DEF FinalAnswer
  <2>3. WellFormedJob([j EXCEPT !.pc = IF a = 0 THEN "settle" ELSE "begin",
                                !.status = s, !.accrual = a])
    BY <1>j, <2>2 DEF WellFormedJob, Job, JobPc
  <2>4. job' \in [Workers -> Job] /\ ch' \subseteq OrderToProcess /\ JobInv'
    BY <1>3, <2>1, <2>3, JobBecomes DEF FinalAnswer, store
  <2>5. QED BY <1>3, <1>b, <2>4 DEF FinalAnswer
<1>4. CASE SettleOrder(w)
  <2>1. j.pc = "settle" /\ j.number \in Numbers /\ orders[j.number] # None
        /\ j.status \in Status
    BY <1>4, <1>j DEF SettleOrder, WellFormedJob, Final, Status
  <2>2. [orders[j.number] EXCEPT !.status = j.status] \in Order
    BY <2>1, OrderUpdate, ZeroAmount
  <2>3. orders' = [orders EXCEPT ![j.number] =
                     [orders[j.number] EXCEPT !.status = j.status]]
    BY <1>4 DEF SettleOrder
  <2>4. /\ orders' \in [Numbers -> Order \cup {None}]
        /\ \A m \in Numbers : orders[m] # None => orders'[m] # None
    BY <2>1, <2>2, <2>3, OrdersBecome
  <2>5. job' \in [Workers -> Job] /\ ch' \subseteq OrderToProcess /\ JobInv'
    BY <1>4, <2>4, IdleJobWellFormed, JobBecomes DEF SettleOrder
  <2>6. QED BY <1>4, <1>a, <2>4, <2>5 DEF SettleOrder, TypeInv, TypeOK
<1>5. CASE UpdateOrder(w)
  <2>1. j.pc = "begin" /\ Fits(Stored(j.accrual))
    BY <1>5 DEF UpdateOrder
  <2>2. WellFormedJob([j EXCEPT !.pc = "ordered"])
    BY <1>j, <2>1 DEF WellFormedJob, Job, JobPc
  <2>3. job' \in [Workers -> Job] /\ ch' \subseteq OrderToProcess /\ JobInv'
    BY <1>5, <2>2, JobBecomes DEF UpdateOrder, store
  <2>4. QED BY <1>5, <1>b, <2>3 DEF UpdateOrder
<1>6. CASE Credit(w)
  <2> DEFINE new == Stored(balance[j.user].current + j.accrual)
  <2>1. j.pc = "ordered" /\ Fits(new)
    BY <1>6 DEF Credit
  <2>2. balance[j.user].current \in Int /\ j.accrual \in Int
    <3>1. j.user \in Users /\ j.accrual \in AccrualSums \cup {0}
      BY <1>j, <2>1 DEF WellFormedJob, Job
    <3>2. balance[j.user].current \in Amount
      BY <3>1 DEF TypeInv, TypeOK, Balance
    <3>3. j.accrual \in Int
      BY <3>1, AccrualInt
    <3>4. QED BY <3>2, <3>3, AmountInt
  <2>3. balance[j.user].current + j.accrual \in Int
    BY <2>2
  <2>4. new \in Amount
    BY <2>1, <2>3, StoredType
  <2>5. WellFormedJob([j EXCEPT !.pc = "credited", !.current = new])
    <3> HIDE DEF new
    <3>1. QED BY <1>j, <2>1, <2>4 DEF WellFormedJob, Job, JobPc
  <2>6. job' \in [Workers -> Job] /\ ch' \subseteq OrderToProcess /\ JobInv'
    BY <1>6, <2>5, JobBecomes DEF Credit
  <2>7. rowLock' \in [Users -> Withdrawers \cup Workers \cup {None}]
    BY <1>6 DEF Credit, Lock, TypeInv, TypeOK
  <2>8. QED BY <1>6, <1>a, <2>6, <2>7 DEF Credit, TypeInv, TypeOK
<1>7. CASE CommitAccrual(w)
  <2>1. /\ j.pc = "credited" /\ j.number \in Numbers /\ orders[j.number] # None
        /\ j.status \in Status /\ Fits(Stored(j.accrual)) /\ j.user \in Users
    BY <1>7, <1>j DEF CommitAccrual, WellFormedJob, Final, Status
  <2>2. j.accrual \in AccrualSums \cup {0} /\ j.current \in Amount
    BY <1>j DEF WellFormedJob, Job
  <2>3. Stored(j.accrual) \in Amount
    <3>1. j.accrual \in Int
      BY <2>2, AccrualInt
    <3>2. QED BY <2>1, <3>1, StoredType
  <2>4. [orders[j.number] EXCEPT !.status = j.status, !.accrual = Stored(j.accrual)]
          \in Order
    BY <2>1, <2>3, OrderUpdate
  <2>5. orders' = [orders EXCEPT ![j.number] =
          [orders[j.number] EXCEPT !.status = j.status, !.accrual = Stored(j.accrual)]]
    BY <1>7 DEF CommitAccrual
  <2>6. /\ orders' \in [Numbers -> Order \cup {None}]
        /\ \A m \in Numbers : orders[m] # None => orders'[m] # None
    BY <2>1, <2>4, <2>5, OrdersBecome
  <2>7. balance' \in [Users -> Balance]
    BY <1>7, <2>2 DEF CommitAccrual, TypeInv, TypeOK, Balance
  <2>8. job' \in [Workers -> Job] /\ ch' \subseteq OrderToProcess /\ JobInv'
    BY <1>7, <2>6, IdleJobWellFormed, JobBecomes DEF CommitAccrual
  <2>9. rowLock' \in [Users -> Withdrawers \cup Workers \cup {None}]
    BY <1>7, UnlockType DEF CommitAccrual, TypeInv
  <2>10. QED BY <1>7, <1>a, <2>6, <2>7, <2>8, <2>9 DEF CommitAccrual
<1>8. CASE GiveUp(w)
  <2>1. job' \in [Workers -> Job] /\ ch' \subseteq OrderToProcess /\ JobInv'
    BY <1>8, IdleJobWellFormed, JobBecomes DEF GiveUp
  <2>2. rowLock' \in [Users -> Withdrawers \cup Workers \cup {None}]
    BY <1>8, UnlockType DEF GiveUp, TypeInv
  <2>3. QED BY <1>8, <1>a, <2>1, <2>2 DEF GiveUp, TypeInv, TypeOK
<1>9. QED
  BY <1>1, <1>2, <1>3, <1>4, <1>5, <1>6, <1>7, <1>8 DEF AccrualStep

LEMMA CrashType ==
  ASSUME TypeInv, Crash
  PROVE  TypeInv'
<1>1. /\ wreq' \in [Withdrawers -> WithdrawRequest] /\ WithdrawInv'
      /\ ureq' \in [Uploaders -> UploadRequest] /\ UploadInv'
  BY IdleWithdrawWellFormed, IdleUploadWellFormed
    DEF Crash, WellFormedWithdraw, WellFormedUpload, WithdrawInv, UploadInv,
      IdleWithdraw, IdleUpload, Locking
<1>2. job' \in [Workers -> Job] /\ JobInv'
  BY IdleJobWellFormed DEF Crash, WellFormedJob, JobInv, IdleJob
<1>3. QED
  BY <1>1, <1>2 DEF Crash, TypeInv, TypeOK

LEMMA TypeStep == TypeInv /\ [Next]_vars => TypeInv'
<1> SUFFICES ASSUME TypeInv, [Next]_vars PROVE TypeInv'
  OBVIOUS
<1>1. ASSUME NEW r \in Withdrawers, WithdrawStep(r), UNCHANGED <<uploadVars, accrualVars>>
      PROVE  TypeInv'
  BY <1>1, WithdrawStepType
<1>2. ASSUME NEW r \in Uploaders, UploadStep(r), UNCHANGED <<withdrawVars, accrualVars>>
      PROVE  TypeInv'
  BY <1>2, UploadStepType
<1>3. CASE Poll /\ UNCHANGED <<withdrawVars, uploadVars>>
  BY <1>3, PollType
<1>4. ASSUME NEW w \in Workers, AccrualStep(w), UNCHANGED <<withdrawVars, uploadVars>>
      PROVE  TypeInv'
  BY <1>4, AccrualStepType
<1>5. CASE Crash
  BY <1>5, CrashType
<1>6. CASE UNCHANGED vars
  BY <1>6 DEF vars, store, withdrawVars, uploadVars, accrualVars, TypeInv, TypeOK,
    WithdrawInv, UploadInv, JobInv
<1>7. QED
  BY <1>1, <1>2, <1>3, <1>4, <1>5, <1>6 DEF Next, Running

LEMMA TypeInvariant == Spec => []TypeInv
<1>1. Init => TypeInv
  BY TypeInit
<1>2. QED
  BY <1>1, TypeStep, PTL DEF Spec

\* The tables, the requests and the jobs only ever hold values of their types,
\* whatever fails and in whatever order the steps come: in particular no amount
\* that PostgreSQL would refuse is ever committed.
THEOREM TypeCorrect == Spec => []TypeOK
<1>1. TypeInv => TypeOK
  BY DEF TypeInv
<1>2. QED
  BY <1>1, TypeInvariant, PTL
-----------------------------------------------------------------------------
(***************************************************************************)
(* Row locks.  A request or a job changes its own state only, so each step  *)
(* either keeps what it holds, acquires one lock or releases all of them.   *)
(***************************************************************************)
Distinct == /\ Withdrawers \cap Workers = {}
            /\ None \notin Withdrawers \cup Workers

LEMMA HoldersDistinct == Distinct
BY GophermartAssumption, WithdrawalsAssumption, AccrualsAssumption DEF Distinct

\* A withdrawal request that neither enters nor leaves its transaction.
LEMMA WithdrawKeepsLock ==
  ASSUME TypeInv, LockOfOpenTransaction, NEW r \in Withdrawers, NEW q,
         wreq' = [wreq EXCEPT ![r] = q], UNCHANGED <<rowLock, job>>,
         q.pc \in Locking <=> wreq[r].pc \in Locking,
         q.pc \in Locking => q.user = wreq[r].user
  PROVE  LockOfOpenTransaction'
BY DEF LockOfOpenTransaction, TypeInv, TypeOK, Locking

\* A withdrawal request that has read its balance row FOR UPDATE.
LEMMA WithdrawLocks ==
  ASSUME TypeInv, LockOfOpenTransaction, NEW r \in Withdrawers, NEW q,
         wreq' = [wreq EXCEPT ![r] = q], UNCHANGED job,
         wreq[r].pc = "begin", q.pc = "locked", q.user \in Users, Lock(q.user, r)
  PROVE  LockOfOpenTransaction'
BY HoldersDistinct DEF LockOfOpenTransaction, TypeInv, TypeOK, Locking, Lock, Distinct

\* A withdrawal request whose transaction ends.
LEMMA WithdrawUnlocks ==
  ASSUME TypeInv, LockOfOpenTransaction, NEW r \in Withdrawers, NEW q,
         wreq' = [wreq EXCEPT ![r] = q], UNCHANGED job,
         q.pc = "answering", Unlock(r)
  PROVE  LockOfOpenTransaction'
BY HoldersDistinct DEF LockOfOpenTransaction, TypeInv, TypeOK, Locking, Unlock, Distinct

LEMMA JobKeepsLock ==
  ASSUME TypeInv, LockOfOpenTransaction, NEW w \in Workers, NEW j,
         job' = [job EXCEPT ![w] = j], UNCHANGED <<rowLock, wreq>>,
         job[w].pc # "credited", j.pc # "credited"
  PROVE  LockOfOpenTransaction'
BY DEF LockOfOpenTransaction, TypeInv, TypeOK

LEMMA JobLocks ==
  ASSUME TypeInv, LockOfOpenTransaction, NEW w \in Workers, NEW j,
         job' = [job EXCEPT ![w] = j], UNCHANGED wreq,
         job[w].pc # "credited", j.pc = "credited", j.user \in Users, Lock(j.user, w)
  PROVE  LockOfOpenTransaction'
BY HoldersDistinct DEF LockOfOpenTransaction, TypeInv, TypeOK, Lock, Distinct

LEMMA JobUnlocks ==
  ASSUME TypeInv, LockOfOpenTransaction, NEW w \in Workers,
         job' = [job EXCEPT ![w] = IdleJob], UNCHANGED wreq, Unlock(w)
  PROVE  LockOfOpenTransaction'
BY HoldersDistinct DEF LockOfOpenTransaction, TypeInv, TypeOK, Unlock, Distinct, IdleJob

\* What a request or a job has read of a balance row, or is about to write to
\* it, is still computed from what the row holds.
FreshRequest(q) ==
  /\ q.pc \in {"locked", "inserted"} =>
       /\ q.current = balance[q.user].current
       /\ q.withdrawn = balance[q.user].withdrawn
       /\ q.sum <= q.current
  /\ q.pc = "updated" =>
       /\ q.current \in StoredFloats(balance[q.user].current - q.sum)
       /\ q.withdrawn \in StoredFloats(balance[q.user].withdrawn + q.sum)
       /\ q.current >= 0 /\ q.sum <= balance[q.user].current

FreshJob(j) ==
  j.pc = "credited" => /\ j.current = Stored(balance[j.user].current + j.accrual)
                       /\ j.current >= 0

FreshInv == /\ \A r \in Withdrawers : FreshRequest(wreq[r])
            /\ \A w \in Workers : FreshJob(job[w])

BalanceInv == TypeInv /\ LockOfOpenTransaction /\ FreshInv /\ NotOverdrawn

LEMMA WithdrawKeepsFresh ==
  ASSUME TypeInv, FreshInv, NEW r \in Withdrawers, NEW q, FreshRequest(q),
         wreq' = [wreq EXCEPT ![r] = q], UNCHANGED <<balance, job>>
  PROVE  FreshInv'
BY DEF FreshInv, FreshRequest, FreshJob, TypeInv, TypeOK

LEMMA JobKeepsFresh ==
  ASSUME TypeInv, FreshInv, NEW w \in Workers, NEW j, FreshJob(j),
         job' = [job EXCEPT ![w] = j], UNCHANGED <<balance, wreq>>
  PROVE  FreshInv'
BY DEF FreshInv, FreshRequest, FreshJob, TypeInv, TypeOK

\* The row of a user changes by the commit of the transaction that has its
\* lock: nobody else has read it.
LEMMA WithdrawCommitKeepsFresh ==
  ASSUME TypeInv, LockOfOpenTransaction, FreshInv, NEW r \in Withdrawers, NEW q,
         wreq[r].pc \in Locking, wreq[r].user \in Users, q.pc = "answering",
         wreq' = [wreq EXCEPT ![r] = q], UNCHANGED job,
         \A u \in Users \ {wreq[r].user} : balance'[u] = balance[u]
  PROVE  FreshInv'
<1>1. rowLock[wreq[r].user] = r
  BY DEF LockOfOpenTransaction
<1>2. ASSUME NEW x \in Withdrawers
      PROVE  FreshRequest(wreq[x])'
  <2>1. CASE x = r
    BY <2>1 DEF FreshRequest, TypeInv, TypeOK
  <2>2. CASE x # r /\ wreq[x].pc \in Locking
    <3>1. wreq[x].user \in Users
      BY <2>2 DEF TypeInv, WithdrawInv
    <3>2. wreq[x].user # wreq[r].user
      BY <1>1, <2>2, <3>1 DEF LockOfOpenTransaction
    <3>3. wreq'[x] = wreq[x] /\ balance'[wreq[x].user] = balance[wreq[x].user]
      BY <2>2, <3>1, <3>2 DEF TypeInv, TypeOK
    <3>4. FreshRequest(wreq[x])
      BY DEF FreshInv
    <3>5. QED BY <3>3, <3>4 DEF FreshRequest
  <2>3. CASE x # r /\ wreq[x].pc \notin Locking
    BY <2>3 DEF FreshRequest, Locking, TypeInv, TypeOK
  <2>4. QED BY <2>1, <2>2, <2>3
<1>3. ASSUME NEW w \in Workers
      PROVE  FreshJob(job[w])'
  <2>1. CASE job[w].pc = "credited"
    <3>1. job[w].user \in Users
      BY <2>1 DEF TypeInv, JobInv
    <3>2. job[w].user # wreq[r].user
      BY <1>1, <2>1, <3>1, HoldersDistinct DEF LockOfOpenTransaction, Distinct
    <3>3. balance'[job[w].user] = balance[job[w].user]
      BY <3>1, <3>2
    <3>4. FreshJob(job[w])
      BY DEF FreshInv
    <3>5. QED BY <3>3, <3>4 DEF FreshJob
  <2>2. CASE job[w].pc # "credited"
    BY <2>2 DEF FreshJob
  <2>3. QED BY <2>1, <2>2
<1>4. QED
  BY <1>2, <1>3 DEF FreshInv

LEMMA JobCommitKeepsFresh ==
  ASSUME TypeInv, LockOfOpenTransaction, FreshInv, NEW v \in Workers,
         job[v].pc = "credited", job[v].user \in Users,
         job' = [job EXCEPT ![v] = IdleJob], UNCHANGED wreq,
         \A u \in Users \ {job[v].user} : balance'[u] = balance[u]
  PROVE  FreshInv'
<1>1. rowLock[job[v].user] = v
  BY DEF LockOfOpenTransaction
<1>2. ASSUME NEW x \in Withdrawers
      PROVE  FreshRequest(wreq[x])'
  <2>1. CASE wreq[x].pc \in Locking
    <3>1. wreq[x].user \in Users
      BY <2>1 DEF TypeInv, WithdrawInv
    <3>2. wreq[x].user # job[v].user
      BY <1>1, <2>1, <3>1, HoldersDistinct DEF LockOfOpenTransaction, Distinct
    <3>3. balance'[wreq[x].user] = balance[wreq[x].user]
      BY <3>1, <3>2
    <3>4. FreshRequest(wreq[x])
      BY DEF FreshInv
    <3>5. QED BY <3>3, <3>4 DEF FreshRequest
  <2>2. CASE wreq[x].pc \notin Locking
    BY <2>2 DEF FreshRequest, Locking
  <2>3. QED BY <2>1, <2>2
<1>3. ASSUME NEW w \in Workers
      PROVE  FreshJob(job[w])'
  <2>1. CASE w = v
    BY <2>1 DEF FreshJob, IdleJob, TypeInv, TypeOK
  <2>2. CASE w # v /\ job[w].pc = "credited"
    <3>1. job[w].user \in Users
      BY <2>2 DEF TypeInv, JobInv
    <3>2. job[w].user # job[v].user
      BY <1>1, <2>2, <3>1 DEF LockOfOpenTransaction
    <3>3. job'[w] = job[w] /\ balance'[job[w].user] = balance[job[w].user]
      BY <2>2, <3>1, <3>2 DEF TypeInv, TypeOK
    <3>4. FreshJob(job[w])
      BY DEF FreshInv
    <3>5. QED BY <3>3, <3>4 DEF FreshJob
  <2>3. CASE w # v /\ job[w].pc # "credited"
    BY <2>3 DEF FreshJob, TypeInv, TypeOK
  <2>4. QED BY <2>1, <2>2, <2>3
<1>4. QED
  BY <1>2, <1>3 DEF FreshInv

\* What Answered does to the request that answers.
LEMMA AnsweredIs ==
  ASSUME NEW r \in Withdrawers, NEW code, Answered(r, code)
  PROVE  \E q : q.pc = "answering" /\ wreq' = [wreq EXCEPT ![r] = q]
<1> DEFINE said == IF wreq[r].late THEN 503 ELSE code
           from == IF said = 200 THEN wreq[r] ELSE IdleWithdraw
           new  == [pc |-> "answering", user |-> from.user, number |-> from.number,
                    sum |-> from.sum, current |-> 0, withdrawn |-> 0, code |-> said,
                    late |-> FALSE]
<1>1. new.pc = "answering"
  OBVIOUS
<1>2. wreq' = [wreq EXCEPT ![r] = new]
  BY DEF Answered
<1> HIDE DEF new
<1>3. QED
  BY <1>1, <1>2

LEMMA NotNegative ==
  ASSUME NEW x \in Int, x >= 0
  PROVE  Stored(x) >= 0 /\ \A y \in StoredFloats(x) : y >= 0
BY DEF Stored, StoredFloats, Whole

\* An answer given outside a transaction, or at the end of one that has
\* written nothing.
LEMMA AnswerKeepsBalanceInv ==
  ASSUME BalanceInv, TypeInv', NEW r \in Withdrawers, NEW code, Answered(r, code),
         UNCHANGED <<balance, job>>,
         \/ Unlock(r)
         \/ rowLock' = rowLock /\ wreq[r].pc \notin Locking
  PROVE  BalanceInv'
<1>1. PICK q : q.pc = "answering" /\ wreq' = [wreq EXCEPT ![r] = q]
  BY AnsweredIs
<1>2. LockOfOpenTransaction'
  <2>1. CASE Unlock(r)
    BY <1>1, <2>1, WithdrawUnlocks DEF BalanceInv
  <2>2. CASE rowLock' = rowLock /\ wreq[r].pc \notin Locking
    <3>1. q.pc \notin Locking
      BY <1>1 DEF Locking
    <3>2. QED BY <1>1, <2>2, <3>1, WithdrawKeepsLock DEF BalanceInv
  <2>3. QED BY <2>1, <2>2
<1>3. FreshInv'
  <2>1. FreshRequest(q)
    BY <1>1 DEF FreshRequest
  <2>2. QED BY <1>1, <2>1, WithdrawKeepsFresh DEF BalanceInv
<1>4. NotOverdrawn'
  BY DEF BalanceInv, NotOverdrawn
<1>5. QED
  BY <1>2, <1>3, <1>4 DEF BalanceInv

LEMMA WithdrawStepBalance ==
  ASSUME BalanceInv, TypeInv', NEW r \in Withdrawers, WithdrawStep(r),
         UNCHANGED <<uploadVars, accrualVars>>
  PROVE  BalanceInv'
<1> DEFINE p == wreq[r]
<1>t. TypeInv /\ WellFormedWithdraw(p) /\ FreshRequest(p) /\ UNCHANGED job
  BY WithdrawWellFormed DEF BalanceInv, FreshInv, accrualVars
<1>a. ASSUME NEW q, wreq' = [wreq EXCEPT ![r] = q], FreshRequest(q),
             q.pc \in Locking <=> p.pc \in Locking,
             q.pc \in Locking => q.user = p.user,
             UNCHANGED store
      PROVE  BalanceInv'
  <2>1. LockOfOpenTransaction'
    BY <1>a, <1>t, WithdrawKeepsLock DEF BalanceInv, store
  <2>2. FreshInv'
    BY <1>a, <1>t, WithdrawKeepsFresh DEF BalanceInv, store
  <2>3. NotOverdrawn'
    BY <1>a DEF BalanceInv, NotOverdrawn, store
  <2>4. QED BY <2>1, <2>2, <2>3 DEF BalanceInv
<1>1. CASE RefuseWithdraw(r)
  <2>1. wreq[r].pc \notin Locking
    BY <1>1 DEF RefuseWithdraw, Locking
  <2>2. QED BY <1>1, <1>t, <2>1, AnswerKeepsBalanceInv DEF RefuseWithdraw, store
<1>2. CASE AddWithdraw(r)
  <2>1. PICK u \in Users, n \in Numbers, s \in Sums :
          wreq' = [wreq EXCEPT ![r] = [IdleWithdraw EXCEPT !.pc = "begin",
                                         !.user = u, !.number = n, !.sum = s]]
    BY <1>2 DEF AddWithdraw
  <2> DEFINE q == [IdleWithdraw EXCEPT !.pc = "begin", !.user = u, !.number = n,
                                       !.sum = s]
  <2>2. q.pc = "begin"
    BY DEF IdleWithdraw
  <2> HIDE DEF q
  <2>3. FreshRequest(q) /\ q.pc \notin Locking
    BY <2>2 DEF FreshRequest, Locking
  <2>4. p.pc \notin Locking
    BY <1>2 DEF AddWithdraw, Locking
  <2>5. wreq' = [wreq EXCEPT ![r] = q]
    BY <2>1 DEF q
  <2>6. QED BY <1>2, <1>a, <2>3, <2>4, <2>5 DEF AddWithdraw
<1>3. CASE GetBalanceTx(r)
  <2> DEFINE q == [p EXCEPT !.pc        = "locked",
                            !.current   = balance[p.user].current,
                            !.withdrawn = balance[p.user].withdrawn]
  <2>1. /\ p.pc = "begin" /\ wreq' = [wreq EXCEPT ![r] = q] /\ Lock(p.user, r)
        /\ p.sum <= balance[p.user].current /\ UNCHANGED balance
    BY <1>3, <1>t DEF GetBalanceTx, WellFormedWithdraw
  <2>2. /\ q.pc = "locked" /\ q.user = p.user /\ q.sum = p.sum
        /\ q.current = balance[p.user].current /\ q.withdrawn = balance[p.user].withdrawn
    BY <1>t DEF WellFormedWithdraw, WithdrawRequest
  <2> HIDE DEF q
  <2>3. FreshRequest(q)
    BY <2>1, <2>2 DEF FreshRequest
  <2>4. q.user \in Users
    BY <1>t, <2>1, <2>2 DEF WellFormedWithdraw
  <2>5. LockOfOpenTransaction'
    BY <1>t, <2>1, <2>2, <2>4, WithdrawLocks DEF BalanceInv
  <2>6. FreshInv'
    BY <1>t, <2>1, <2>3, WithdrawKeepsFresh DEF BalanceInv
  <2>7. QED BY <2>1, <2>5, <2>6 DEF BalanceInv, NotOverdrawn
<1>4. CASE InsufficientFunds(r)
  BY <1>4, <1>t, AnswerKeepsBalanceInv DEF InsufficientFunds, FinishWithdraw
<1>5. CASE InsertWithdrawal(r)
  <2> DEFINE q == [p EXCEPT !.pc = "inserted"]
  <2>1. p.pc = "locked" /\ wreq' = [wreq EXCEPT ![r] = q] /\ UNCHANGED store
    BY <1>5 DEF InsertWithdrawal
  <2>2. /\ q.pc = "inserted" /\ q.user = p.user /\ q.sum = p.sum
        /\ q.current = p.current /\ q.withdrawn = p.withdrawn
    BY <1>t DEF WellFormedWithdraw, WithdrawRequest
  <2> HIDE DEF q
  <2>3. FreshRequest(q)
    BY <1>t, <2>1, <2>2 DEF FreshRequest
  <2>4. q.pc \in Locking /\ p.pc \in Locking
    BY <2>1, <2>2 DEF Locking
  <2>5. QED BY <1>a, <2>1, <2>2, <2>3, <2>4
<1>6. CASE UpdateBalance(r)
  <2>1. PICK c \in StoredFloats(p.current - p.sum),
             w \in StoredFloats(p.withdrawn + p.sum) :
          wreq' = [wreq EXCEPT ![r] =
               [p EXCEPT !.pc = "updated", !.current = c, !.withdrawn = w]]
    BY <1>6 DEF UpdateBalance
  <2> DEFINE q == [p EXCEPT !.pc = "updated", !.current = c, !.withdrawn = w]
  <2>2. p.pc = "inserted" /\ UNCHANGED store
    BY <1>6 DEF UpdateBalance
  <2>3. /\ q.pc = "updated" /\ q.user = p.user /\ q.sum = p.sum
        /\ q.current = c /\ q.withdrawn = w
    BY <1>t DEF WellFormedWithdraw, WithdrawRequest
  <2> HIDE DEF q
  <2>4. c >= 0
    <3>1. p.current \in Int /\ p.sum \in Int
      <4>1. p.current \in Amount /\ p.sum \in Sums
        BY <1>t, <2>2 DEF WellFormedWithdraw, WithdrawRequest
      <4>2. QED BY <4>1, AmountInt, WithdrawalsAssumption
    <3>2. p.sum <= p.current
      BY <1>t, <2>2 DEF FreshRequest
    <3>3. p.current - p.sum \in Int /\ p.current - p.sum >= 0
      BY <3>1, <3>2
    <3>4. QED BY <3>3, NotNegative
  <2>5. FreshRequest(q)
    BY <1>t, <2>2, <2>3, <2>4 DEF FreshRequest
  <2>6. q.pc \in Locking /\ p.pc \in Locking
    BY <2>2, <2>3 DEF Locking
  <2>7. wreq' = [wreq EXCEPT ![r] = q]
    BY <2>1 DEF q
  <2>8. QED BY <1>a, <2>2, <2>3, <2>5, <2>6, <2>7
<1>7. CASE CommitWithdrawal(r)
  <2>1. PICK code \in {200, 500} : FinishWithdraw(r, code)
    BY <1>7 DEF CommitWithdrawal
  <2>2. PICK q : q.pc = "answering" /\ wreq' = [wreq EXCEPT ![r] = q]
    BY <2>1, AnsweredIs DEF FinishWithdraw
  <2>3. p.pc = "updated" /\ p.pc \in Locking /\ p.user \in Users
    BY <1>7, <1>t DEF CommitWithdrawal, WellFormedWithdraw, Locking
  <2>4. LockOfOpenTransaction'
    BY <1>t, <2>1, <2>2, WithdrawUnlocks DEF BalanceInv, FinishWithdraw
  <2>5. balance' = [balance EXCEPT ![p.user] =
                      [current |-> p.current, withdrawn |-> p.withdrawn]]
    BY <1>7 DEF CommitWithdrawal
  <2>6. \A u \in Users \ {p.user} : balance'[u] = balance[u]
    BY <1>t, <2>5 DEF TypeInv, TypeOK
  <2>7. FreshInv'
    BY <1>t, <2>2, <2>3, <2>6, WithdrawCommitKeepsFresh DEF BalanceInv
  <2>8. p.current >= 0
    BY <1>t, <2>3 DEF FreshRequest
  <2>9. NotOverdrawn'
    BY <1>t, <2>3, <2>5, <2>8 DEF BalanceInv, NotOverdrawn, TypeInv, TypeOK
  <2>10. QED BY <2>4, <2>7, <2>9 DEF BalanceInv
<1>8. CASE WithdrawFails(r)
  BY <1>8, <1>t, AnswerKeepsBalanceInv DEF WithdrawFails, FinishWithdraw
<1>9. CASE WithdrawTimeout(r)
  <2>1. CASE p.pc = "answering"
    <3>1. p.pc \notin Locking
      BY <2>1 DEF Locking
    <3>2. QED BY <1>9, <1>t, <2>1, <3>1, AnswerKeepsBalanceInv DEF WithdrawTimeout, store
  <2>2. CASE p.pc # "answering"
    <3> DEFINE q == [p EXCEPT !.late = TRUE]
    <3>1. wreq' = [wreq EXCEPT ![r] = q] /\ UNCHANGED store
      BY <1>9, <2>2 DEF WithdrawTimeout
    <3>2. /\ q.pc = p.pc /\ q.user = p.user /\ q.sum = p.sum
          /\ q.current = p.current /\ q.withdrawn = p.withdrawn
      BY <1>t DEF WellFormedWithdraw, WithdrawRequest
    <3> HIDE DEF q
    <3>3. FreshRequest(q)
      BY <1>t, <3>2 DEF FreshRequest
    <3>4. QED BY <1>a, <3>1, <3>2, <3>3
  <2>3. QED BY <2>1, <2>2
<1>10. CASE AnswerWithdraw(r)
  <2>1. /\ wreq' = [wreq EXCEPT ![r] = IdleWithdraw] /\ UNCHANGED store
        /\ p.pc \notin Locking
    BY <1>10 DEF AnswerWithdraw, Locking
  <2>2. FreshRequest(IdleWithdraw) /\ IdleWithdraw.pc \notin Locking
    BY DEF FreshRequest, IdleWithdraw, Locking
  <2>3. QED BY <1>a, <2>1, <2>2
<1>11. QED
  BY <1>1, <1>2, <1>3, <1>4, <1>5, <1>6, <1>7, <1>8, <1>9, <1>10 DEF WithdrawStep

\* Uploads, polls and the updates of the table orders leave the balance rows
\* and what is known of them alone.
LEMMA NothingOfBalance ==
  ASSUME BalanceInv, TypeInv', UNCHANGED <<wreq, job, balance, rowLock>>
  PROVE  BalanceInv'
BY DEF BalanceInv, LockOfOpenTransaction, FreshInv, FreshRequest, FreshJob, NotOverdrawn

LEMMA UploadKeepsAccounts ==
  ASSUME NEW r \in Uploaders, UploadStep(r)
  PROVE  UNCHANGED <<balance, withdrawals, rowLock>>
BY DEF UploadStep, RefuseUpload, AddOrder, InsertOrder, InsertConflict, GetOrderByNumber,
  UploadFails, UploadTimeout, AnswerUpload, store

LEMMA AccrualStepBalance ==
  ASSUME BalanceInv, TypeInv', NEW w \in Workers, AccrualStep(w),
         UNCHANGED <<withdrawVars, uploadVars>>
  PROVE  BalanceInv'
<1> DEFINE p == job[w]
<1>t. TypeInv /\ WellFormedJob(p) /\ FreshJob(p) /\ UNCHANGED wreq
  BY JobWellFormed DEF BalanceInv, FreshInv, withdrawVars
<1>a. ASSUME NEW j, job' = [job EXCEPT ![w] = j], p.pc # "credited", j.pc # "credited",
             UNCHANGED <<balance, rowLock>>
      PROVE  BalanceInv'
  <2>1. LockOfOpenTransaction'
    BY <1>a, <1>t, JobKeepsLock DEF BalanceInv
  <2>2. FreshJob(j)
    BY <1>a DEF FreshJob
  <2>3. FreshInv'
    BY <1>a, <1>t, <2>2, JobKeepsFresh DEF BalanceInv
  <2>4. NotOverdrawn'
    BY <1>a DEF BalanceInv, NotOverdrawn
  <2>5. QED BY <2>1, <2>3, <2>4 DEF BalanceInv
<1>b. IdleJob.pc # "credited" /\ FreshJob(IdleJob)
  BY DEF IdleJob, FreshJob
<1>1. CASE Receive(w)
  <2>1. PICK o \in ch : job' = [job EXCEPT ![w] =
          [IdleJob EXCEPT !.pc = IF o.status = "NEW" THEN "mark" ELSE "ask",
                          !.number = o.number, !.user = o.user]]
    BY <1>1 DEF Receive
  <2> DEFINE j == [IdleJob EXCEPT !.pc = IF o.status = "NEW" THEN "mark" ELSE "ask",
                                  !.number = o.number, !.user = o.user]
  <2>2. j.pc # "credited"
    BY DEF IdleJob
  <2> HIDE DEF j
  <2>3. job' = [job EXCEPT ![w] = j]
    BY <2>1 DEF j
  <2>4. p.pc # "credited" /\ UNCHANGED <<balance, rowLock>>
    BY <1>1 DEF Receive, store
  <2>5. QED BY <1>a, <2>2, <2>3, <2>4
<1>2. CASE MarkProcessing(w)
  <2>1. p.pc = "mark" /\ UNCHANGED <<balance, rowLock>>
    BY <1>2 DEF MarkProcessing
  <2>2. CASE job' = [job EXCEPT ![w] = [p EXCEPT !.pc = "ask"]]
    <3>1. [p EXCEPT !.pc = "ask"].pc = "ask"
      BY <1>t DEF WellFormedJob, Job
    <3>2. QED BY <1>a, <2>1, <2>2, <3>1
  <2>3. CASE job' = [job EXCEPT ![w] = IdleJob]
    BY <1>a, <1>b, <2>1, <2>3
  <2>4. QED BY <1>2, <2>2, <2>3 DEF MarkProcessing
<1>3. CASE FinalAnswer(w)
  <2>1. PICK s \in Final, a \in AccrualSums \cup {0} :
          job' = [job EXCEPT ![w] =
            [p EXCEPT !.pc = IF a = 0 THEN "settle" ELSE "begin",
                      !.status = s, !.accrual = a]]
    BY <1>3 DEF FinalAnswer
  <2> DEFINE j == [p EXCEPT !.pc = IF a = 0 THEN "settle" ELSE "begin",
                            !.status = s, !.accrual = a]
  <2>2. j.pc # "credited"
    BY <1>t DEF WellFormedJob, Job
  <2> HIDE DEF j
  <2>3. job' = [job EXCEPT ![w] = j]
    BY <2>1 DEF j
  <2>4. p.pc # "credited" /\ UNCHANGED <<balance, rowLock>>
    BY <1>3 DEF FinalAnswer, store
  <2>5. QED BY <1>a, <2>2, <2>3, <2>4
<1>4. CASE SettleOrder(w)
  <2>1. p.pc # "credited" /\ UNCHANGED <<balance, rowLock>>
        /\ job' = [job EXCEPT ![w] = IdleJob]
    BY <1>4 DEF SettleOrder
  <2>2. QED BY <1>a, <1>b, <2>1
<1>5. CASE UpdateOrder(w)
  <2>1. p.pc # "credited" /\ UNCHANGED <<balance, rowLock>>
        /\ job' = [job EXCEPT ![w] = [p EXCEPT !.pc = "ordered"]]
    BY <1>5 DEF UpdateOrder, store
  <2>2. [p EXCEPT !.pc = "ordered"].pc = "ordered"
    BY <1>t DEF WellFormedJob, Job
  <2>3. QED BY <1>a, <2>1, <2>2
<1>6. CASE Credit(w)
  <2> DEFINE new == Stored(balance[p.user].current + p.accrual)
             j   == [p EXCEPT !.pc = "credited", !.current = new]
  <2>1. /\ p.pc = "ordered" /\ job' = [job EXCEPT ![w] = j] /\ Lock(p.user, w)
        /\ UNCHANGED balance
    BY <1>6 DEF Credit
  <2>2. j.pc = "credited" /\ j.current = new /\ j.user = p.user /\ j.accrual = p.accrual
    BY <1>t DEF WellFormedJob, Job
  <2>3. p.user \in Users /\ p.accrual \in Nat
    <3>1. p.user \in Users /\ p.accrual \in AccrualSums \cup {0}
      BY <1>t, <2>1 DEF WellFormedJob, Job
    <3>2. AccrualSums \cup {0} \subseteq Nat
      BY AccrualsAssumption
    <3>3. QED BY <3>1, <3>2
  <2>4. new >= 0
    <3>1. balance[p.user].current \in Int
      <4>1. balance[p.user].current \in Amount
        BY <1>t, <2>3 DEF TypeInv, TypeOK, Balance
      <4>2. QED BY <4>1, AmountInt
    <3>2. balance[p.user].current >= 0
      BY <2>3 DEF BalanceInv, NotOverdrawn
    <3>3. /\ balance[p.user].current + p.accrual \in Int
          /\ balance[p.user].current + p.accrual >= 0
      BY <2>3, <3>1, <3>2
    <3>4. QED BY <3>3, NotNegative
  <2> HIDE DEF j
  <2>5. FreshJob(j)
    BY <2>2, <2>4 DEF FreshJob
  <2>6. LockOfOpenTransaction'
    BY <1>t, <2>1, <2>2, <2>3, JobLocks DEF BalanceInv
  <2>7. FreshInv'
    BY <1>t, <2>1, <2>5, JobKeepsFresh DEF BalanceInv
  <2>8. QED BY <2>1, <2>6, <2>7 DEF BalanceInv, NotOverdrawn
<1>7. CASE CommitAccrual(w)
  <2>1. /\ p.pc = "credited" /\ p.user \in Users /\ Unlock(w)
        /\ job' = [job EXCEPT ![w] = IdleJob]
    BY <1>7, <1>t DEF CommitAccrual, WellFormedJob
  <2>2. balance' = [balance EXCEPT ![p.user] =
                      [balance[p.user] EXCEPT !.current = p.current]]
    BY <1>7 DEF CommitAccrual
  <2>3. LockOfOpenTransaction'
    BY <1>t, <2>1, JobUnlocks DEF BalanceInv
  <2>4. \A u \in Users \ {p.user} : balance'[u] = balance[u]
    BY <1>t, <2>2 DEF TypeInv, TypeOK
  <2>5. FreshInv'
    BY <1>t, <2>1, <2>4, JobCommitKeepsFresh DEF BalanceInv
  <2>6. p.current >= 0
    BY <1>t, <2>1 DEF FreshJob
  <2>7. NotOverdrawn'
    BY <1>t, <2>1, <2>2, <2>6 DEF BalanceInv, NotOverdrawn, TypeInv, TypeOK, Balance
  <2>8. QED BY <2>3, <2>5, <2>7 DEF BalanceInv
<1>8. CASE GiveUp(w)
  <2>1. job' = [job EXCEPT ![w] = IdleJob] /\ Unlock(w) /\ UNCHANGED balance
    BY <1>8 DEF GiveUp
  <2>2. LockOfOpenTransaction'
    BY <1>t, <2>1, JobUnlocks DEF BalanceInv
  <2>3. FreshInv'
    BY <1>t, <1>b, <2>1, JobKeepsFresh DEF BalanceInv
  <2>4. QED BY <2>1, <2>2, <2>3 DEF BalanceInv, NotOverdrawn
<1>9. QED
  BY <1>1, <1>2, <1>3, <1>4, <1>5, <1>6, <1>7, <1>8 DEF AccrualStep

LEMMA BalanceInit == Init => BalanceInv
<1> SUFFICES ASSUME Init PROVE BalanceInv
  OBVIOUS
<1>1. TypeInv
  BY TypeInit
<1>2. LockOfOpenTransaction
  BY HoldersDistinct DEF Init, StoreInit, WithdrawalsInit, AccrualsInit, IdleWithdraw,
    IdleJob, LockOfOpenTransaction, Locking, Distinct
<1>3. FreshInv
  BY DEF Init, WithdrawalsInit, AccrualsInit, IdleWithdraw, IdleJob, FreshInv,
    FreshRequest, FreshJob
<1>4. NotOverdrawn
  BY DEF Init, StoreInit, NotOverdrawn
<1>5. QED BY <1>1, <1>2, <1>3, <1>4 DEF BalanceInv

LEMMA CrashBalance ==
  ASSUME BalanceInv, TypeInv', Crash
  PROVE  BalanceInv'
<1>1. LockOfOpenTransaction'
  BY HoldersDistinct DEF Crash, IdleWithdraw, IdleJob, LockOfOpenTransaction, Locking,
    Distinct
<1>2. FreshInv'
  BY DEF Crash, IdleWithdraw, IdleJob, FreshInv, FreshRequest, FreshJob
<1>3. NotOverdrawn'
  BY DEF Crash, BalanceInv, NotOverdrawn
<1>4. QED BY <1>1, <1>2, <1>3 DEF BalanceInv

LEMMA BalanceStep == BalanceInv /\ [Next]_vars => BalanceInv'
<1> SUFFICES ASSUME BalanceInv, [Next]_vars PROVE BalanceInv'
  OBVIOUS
<1>t. TypeInv'
  BY TypeStep DEF BalanceInv
<1>1. ASSUME NEW r \in Withdrawers, WithdrawStep(r), UNCHANGED <<uploadVars, accrualVars>>
      PROVE  BalanceInv'
  BY <1>1, <1>t, WithdrawStepBalance
<1>2. ASSUME NEW r \in Uploaders, UploadStep(r), UNCHANGED <<withdrawVars, accrualVars>>
      PROVE  BalanceInv'
  BY <1>2, <1>t, UploadKeepsAccounts, NothingOfBalance DEF withdrawVars, accrualVars
<1>3. CASE Poll /\ UNCHANGED <<withdrawVars, uploadVars>>
  BY <1>3, <1>t, NothingOfBalance DEF Poll, store, withdrawVars
<1>4. ASSUME NEW w \in Workers, AccrualStep(w), UNCHANGED <<withdrawVars, uploadVars>>
      PROVE  BalanceInv'
  BY <1>4, <1>t, AccrualStepBalance
<1>5. CASE Crash
  BY <1>5, <1>t, CrashBalance
<1>6. CASE UNCHANGED vars
  BY <1>6, <1>t, NothingOfBalance DEF vars, store, withdrawVars, accrualVars
<1>7. QED
  BY <1>1, <1>2, <1>3, <1>4, <1>5, <1>6 DEF Next, Running

LEMMA BalanceInvariant == Spec => []BalanceInv
<1>1. QED
  BY BalanceInit, BalanceStep, PTL DEF Spec

\* A lock of a balance row belongs to exactly one open transaction that needs
\* it: no way out of AddWithdraw or UpdateOrderAccrual leaves a row locked.
THEOREM LocksAreHeld == Spec => []LockOfOpenTransaction
<1>1. BalanceInv => LockOfOpenTransaction
  BY DEF BalanceInv
<1>2. QED
  BY <1>1, BalanceInvariant, PTL

\* AddWithdraw never overwrites a balance row from values that another
\* transaction has changed since it read them.
THEOREM NoLostUpdate == Spec => []SnapshotIsCurrent
<1>1. BalanceInv => SnapshotIsCurrent
  BY DEF BalanceInv, FreshInv, FreshRequest, SnapshotIsCurrent
<1>2. QED
  BY <1>1, BalanceInvariant, PTL

\* However many withdrawals of a user run at once, with whatever sums, and
\* whatever the rounding of floats does, no balance becomes negative.
THEOREM NeverOverdrawn == Spec => []NotOverdrawn
<1>1. BalanceInv => NotOverdrawn
  BY DEF BalanceInv
<1>2. QED
  BY <1>1, BalanceInvariant, PTL
=============================================================================
