------------------------------ MODULE Uploads ------------------------------
(***************************************************************************)
(* POST /api/user/orders: handler AddOrder, service CreateOrder and the     *)
(* repository calls CreateOrder and GetOrderByNumber.  Each statement       *)
(* commits on its own, so a request is several steps with the work of other *)
(* requests and of the updater in between.  A member of Uploaders is one    *)
(* request in flight at a time, as in Withdrawals.                          *)
(***************************************************************************)
EXTENDS Store

CONSTANT Uploaders  \* concurrent upload requests

VARIABLES
  ureq,     \* the upload requests in flight
  accepted  \* history: [user, number] of every 202 a client was given

uploadVars == <<ureq, accepted>>

IdleUpload == [pc |-> "idle", user |-> None, number |-> None, code |-> 0,
               late |-> FALSE]

UploadsInit == /\ ureq = [r \in Uploaders |-> IdleUpload]
               /\ accepted = {}

\* The handler has its answer for the client, unless the client has a 503
\* already.  Only 200, 202 and 409 say something of the order.
FinishUpload(r, code) ==
  LET q    == ureq[r]
      said == IF q.late THEN 503 ELSE code
      from == IF said \in {200, 202, 409} THEN q ELSE IdleUpload
  IN  ureq' = [ureq EXCEPT ![r] =
        [pc |-> "answering", user |-> from.user, number |-> from.number,
         code |-> said, late |-> FALSE]]

\* Turned away by the middleware (401), the handler (400) or the check of the
\* order number (422): all of them are a 400 here.
RefuseUpload(r) ==
  /\ ureq[r].pc = "idle"
  /\ FinishUpload(r, 400)
  /\ UNCHANGED <<store, accepted>>

AddOrder(r) ==
  /\ ureq[r].pc = "idle"
  /\ \E u \in Users, n \in Numbers :
       ureq' = [ureq EXCEPT ![r] = [IdleUpload EXCEPT !.pc = "insert",
                                               !.user = u, !.number = n]]
  /\ UNCHANGED <<store, accepted>>

\* Mutant: ON CONFLICT DO UPDATE SET user_id.
InsertOverwrites(r) ==
  LET q == ureq[r] IN
  /\ q.pc = "insert"
  /\ orders' = [orders EXCEPT ![q.number] =
                  [owner |-> q.user, status |-> "NEW", accrual |-> 0,
                   uploadedAt |-> Cardinality(Uploaded)]]
  /\ FinishUpload(r, 202)
  /\ UNCHANGED <<balance, withdrawals, rowLock, accepted>>

\* INSERT ... ON CONFLICT DO NOTHING makes a row.  The caller learns of it
\* (202), or the answer of the server is lost (500).  A statement sent before
\* the timeout may take effect after it.
InsertOrder(r) ==
  LET q == ureq[r] IN
  /\ q.pc = "insert"
  /\ orders[q.number] = None
  /\ orders' = [orders EXCEPT ![q.number] =
                  [owner |-> q.user, status |-> "NEW", accrual |-> 0,
                   uploadedAt |-> Cardinality(Uploaded)]]
  /\ \E code \in {202, 500} : FinishUpload(r, code)
  /\ UNCHANGED <<balance, withdrawals, rowLock, accepted>>

\* Mutant: CreateOrder does not look at RowsAffected.
RowsAffectedIgnored(r) ==
  /\ ureq[r].pc = "insert"
  /\ orders[ureq[r].number] # None
  /\ FinishUpload(r, 202)
  /\ UNCHANGED <<store, accepted>>

\* The same statement on a number that has a row: nothing is inserted.
InsertConflict(r) ==
  /\ ureq[r].pc = "insert"
  /\ orders[ureq[r].number] # None
  /\ ureq' = [ureq EXCEPT ![r] = [ureq[r] EXCEPT !.pc = "lookup"]]
  /\ UNCHANGED <<store, accepted>>

\* Mutant: CreateOrder does not compare the users.
OwnerIgnored(r) ==
  /\ ureq[r].pc = "lookup"
  /\ ~ureq[r].late
  /\ orders[ureq[r].number] # None
  /\ FinishUpload(r, 200)
  /\ UNCHANGED <<store, accepted>>

GetOrderByNumber(r) ==
  LET q == ureq[r] IN
  /\ q.pc = "lookup"
  /\ ~q.late
  /\ orders[q.number] # None
  /\ FinishUpload(r, IF orders[q.number].owner = q.user THEN 200 ELSE 409)
  /\ UNCHANGED <<store, accepted>>

\* A statement fails: connection, cancelled context, or no row to look up.
UploadFails(r) ==
  /\ ureq[r].pc \in {"insert", "lookup"}
  /\ FinishUpload(r, 500)
  /\ UNCHANGED <<store, accepted>>

\* http.TimeoutHandler answers 503 and cancels the context of the request.
UploadTimeout(r) ==
  LET q == ureq[r] IN
  /\ q.pc # "idle"
  /\ ~q.late /\ q.code # 503
  /\ IF q.pc = "answering" THEN FinishUpload(r, 503)
                           ELSE ureq' = [ureq EXCEPT ![r] = [q EXCEPT !.late = TRUE]]
  /\ UNCHANGED <<store, accepted>>

\* The handler returns and the client has its answer.
AnswerUpload(r) ==
  LET q == ureq[r] IN
  /\ q.pc = "answering"
  /\ ureq' = [ureq EXCEPT ![r] = IdleUpload]
  /\ accepted' = IF q.code = 202
                 THEN accepted \cup {[user |-> q.user, number |-> q.number]}
                 ELSE accepted
  /\ UNCHANGED store

UploadStep(r) ==
  \/ RefuseUpload(r)     \/ AddOrder(r)    \/ InsertOrder(r) \/ InsertConflict(r)
  \/ GetOrderByNumber(r) \/ UploadFails(r) \/ UploadTimeout(r)
  \/ AnswerUpload(r)
=============================================================================
