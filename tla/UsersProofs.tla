---------------------------- MODULE UsersProofs ----------------------------
(***************************************************************************)
(* The proofs of Registration and of Sessions, for any number of clients,   *)
(* logins and passwords, any life of a token and without a bound on the     *)
(* clock.  Registration: users and balance rows go together, a login is one *)
(* user's, and a token names the user it was asked for.  Sessions: whoever  *)
(* is let in has a balance row, a deactivated user is out in time, and a    *)
(* session is never cut short.                                              *)
(***************************************************************************)
EXTENDS Sessions, TLAPS

Pcs   == {"idle", "check", "begin", "user", "balance", "get", "token", "answering"}
Codes == {0, 200, 401, 403, 404, 409, 500, 503}
Row   == [id : Nat \ {0}, login : Logins, password : Passwords]
Request ==
  [pc : Pcs, login : Logins \cup {None}, password : Passwords \cup {None}, id : Nat,
   code : Codes, taken : BOOLEAN, late : BOOLEAN]

\* The row that the request q inserts, or whose id it has.
RowOf(q) == [id |-> q.id, login |-> q.login, password |-> q.password]

\* The request q has inserted its user and not committed yet.
Open(q) == q.pc \in {"user", "balance"}

Types == /\ users \subseteq Row
         /\ lastId \in Nat
         /\ req \in [Clients -> Request]

\* A request that has got further than its arguments has them.
HasArguments(q) == q.pc \in {"check", "begin", "user", "balance", "get"} =>
  q.login \in Logins /\ q.password \in Passwords

\* An id is drawn once.
IdsDrawn == \A row \in users : row.id <= lastId

\* An open registration has a login and an id that no row has.
OpenIsNew(q, rows, last) == Open(q) =>
  q.id # 0 /\ q.id <= last /\ \A row \in rows : row.id # q.id /\ row.login # q.login

\* No two open registrations have the same login or the same id.
OpenDiffer == \A c, d \in Clients :
  c # d /\ Open(req[c]) /\ Open(req[d]) =>
    req[c].id # req[d].id /\ req[c].login # req[d].login

\* A request that gets a token, or is about to be answered 200, has the row of
\* its user.
AnswerHasRow(q, rows) ==
  q.pc = "token" \/ (q.pc = "answering" /\ q.code = 200) => RowOf(q) \in rows

Fits(q, rows, last) == HasArguments(q) /\ OpenIsNew(q, rows, last) /\ AnswerHasRow(q, rows)

RegInv ==
  /\ Types /\ IdsDrawn /\ OpenDiffer
  /\ \A c \in Clients : Fits(req[c], users, lastId)
  /\ UserHasBalance /\ OneUserPerLogin /\ TokenNamesUser
-----------------------------------------------------------------------------
LEMMA IdleIsRequest == Idle \in Request /\ Idle.pc = "idle"
BY DEF Idle, Request, Pcs, Codes

\* What Finish does to the request that it answers.
LEMMA FinishIs ==
  ASSUME Types, NEW c \in Clients, NEW code \in Codes, NEW id \in Nat,
         NEW taken \in BOOLEAN, Finish(c, code, id, taken)
  PROVE  \E q \in Request :
           /\ req' = [req EXCEPT ![c] = q]
           /\ q.pc = "answering"
           /\ q.code = 200 => /\ code = 200 /\ q.id = id /\ ~req[c].late
                              /\ q.login = req[c].login /\ q.password = req[c].password
<1> DEFINE p    == req[c]
           said == IF p.late THEN 503 ELSE code
           from == IF said \in {200, 409} THEN p ELSE Idle
           i    == IF said = 200 THEN id ELSE 0
           new  == [pc |-> "answering", login |-> from.login, password |-> from.password,
                    id |-> i, code |-> said, taken |-> taken, late |-> FALSE]
<1>1. p \in Request /\ Idle \in Request
  BY IdleIsRequest DEF Types
<1>2. said \in Codes /\ "answering" \in Pcs /\ i \in Nat
  BY DEF Codes, Pcs
<1>3. said = 200 => code = 200 /\ i = id /\ ~p.late /\ from = p
  OBVIOUS
<1>4. req' = [req EXCEPT ![c] = new]
  BY DEF Finish
<1>5. /\ new.pc = "answering" /\ new.login = from.login /\ new.password = from.password
      /\ new.code = said /\ new.id = i
  OBVIOUS
<1>6. from.login \in Logins \cup {None} /\ from.password \in Passwords \cup {None}
  <2>1. from \in Request
    BY <1>1
  <2> HIDE DEF from
  <2>2. QED BY <2>1 DEF Request
<1> HIDE DEF said, from, i
<1>7. new \in Request
  BY <1>2, <1>6 DEF Request
<1> HIDE DEF new
<1> WITNESS new \in Request
<1>8. QED
  BY <1>3, <1>4, <1>5, Zenon

\* The service has returned the id to the handler.
LEMMA ReturnsIs ==
  ASSUME Types, NEW c \in Clients, NEW id \in Nat, Returns(c, id)
  PROVE  \E q \in Request :
           /\ req' = [req EXCEPT ![c] = q]
           /\ q.pc = "token" /\ q.id = id /\ q.late = req[c].late
           /\ q.login = req[c].login /\ q.password = req[c].password
<1> DEFINE q == [req[c] EXCEPT !.pc = "token", !.id = id]
<1>1. req[c] \in Request
  BY DEF Types
<1>2. /\ q \in Request /\ q.pc = "token" /\ q.id = id /\ q.late = req[c].late
      /\ q.login = req[c].login /\ q.password = req[c].password
  BY <1>1 DEF Request, Pcs
<1>3. req' = [req EXCEPT ![c] = q]
  BY DEF Returns
<1> HIDE DEF q
<1>4. QED
  BY <1>2, <1>3

\* A step that changes one request, which is then not open, and no row.
LEMMA NotOpenKeepsInv ==
  ASSUME RegInv, NEW c \in Clients, NEW q \in Request, ~Open(q), HasArguments(q),
         AnswerHasRow(q, users), req' = [req EXCEPT ![c] = q],
         lastId' \in {lastId, lastId + 1}, users' = users, balances' = balances,
         sessions' \subseteq users
  PROVE  RegInv'
<1>1. Types' /\ IdsDrawn' /\ lastId <= lastId' /\ lastId \in Nat /\ lastId' \in Nat
  BY DEF RegInv, Types, IdsDrawn, Row
<1>2. \A d \in Clients : req'[d] = IF d = c THEN q ELSE req[d]
  BY DEF RegInv, Types
<1>3. OpenDiffer'
  BY <1>2 DEF RegInv, OpenDiffer
<1>4. Fits(q, users', lastId')
  BY DEF Fits, OpenIsNew
<1>5. ASSUME NEW d \in Clients, d # c
      PROVE  Fits(req[d], users', lastId')
  <2>1. Fits(req[d], users, lastId) /\ req[d].id \in Nat
    BY DEF RegInv, Types, Request
  <2>2. QED BY <1>1, <2>1 DEF Fits, OpenIsNew
<1>6. \A d \in Clients : Fits(req'[d], users', lastId')
  BY <1>2, <1>4, <1>5
<1>7. UserHasBalance' /\ OneUserPerLogin' /\ TokenNamesUser'
  BY DEF RegInv, UserHasBalance, OneUserPerLogin, TokenNamesUser
<1>8. QED
  BY <1>1, <1>3, <1>6, <1>7 DEF RegInv

\* A step of a registration that does not open, commit or answer it.
LEMMA OpenKeepsInv ==
  ASSUME RegInv, NEW c \in Clients, NEW q \in Request, req' = [req EXCEPT ![c] = q],
         Open(q) <=> Open(req[c]), AnswerHasRow(q, users),
         q.id = req[c].id, q.login = req[c].login, HasArguments(q),
         users' = users, balances' = balances, lastId' = lastId, sessions' = sessions
  PROVE  RegInv'
<1>1. Types' /\ IdsDrawn'
  BY DEF RegInv, Types, IdsDrawn
<1>2. \A d \in Clients : req'[d] = IF d = c THEN q ELSE req[d]
  BY DEF RegInv, Types
<1>3. OpenDiffer'
  BY <1>2 DEF RegInv, OpenDiffer
<1>4. \A d \in Clients : Fits(req[d], users, lastId)
  BY DEF RegInv
<1>5. Fits(q, users, lastId)
  BY <1>4 DEF Fits, OpenIsNew
<1>6. \A d \in Clients : Fits(req'[d], users', lastId')
  BY <1>2, <1>4, <1>5
<1>7. UserHasBalance' /\ OneUserPerLogin' /\ TokenNamesUser'
  BY DEF RegInv, UserHasBalance, OneUserPerLogin, TokenNamesUser
<1>8. QED
  BY <1>1, <1>3, <1>6, <1>7 DEF RegInv

\* An answer other than 200, given to a request that changed no row.
LEMMA RefusalKeepsInv ==
  ASSUME RegInv, NEW c \in Clients, NEW code \in Codes, code # 200, NEW taken \in BOOLEAN,
         Finish(c, code, 0, taken), lastId' \in {lastId, lastId + 1},
         users' = users, balances' = balances, sessions' = sessions
  PROVE  RegInv'
<1>1. Types /\ 0 \in Nat
  BY DEF RegInv
<1>2. PICK q \in Request : /\ req' = [req EXCEPT ![c] = q]
                           /\ q.pc = "answering"
                           /\ q.code = 200 => code = 200
  BY <1>1, FinishIs
<1>3. ~Open(q) /\ HasArguments(q) /\ AnswerHasRow(q, users)
  BY <1>2 DEF Open, HasArguments, AnswerHasRow
<1>4. sessions' \subseteq users
  BY DEF RegInv, TokenNamesUser
<1>5. QED
  BY <1>2, <1>3, <1>4, NotOpenKeepsInv
-----------------------------------------------------------------------------
LEMMA RegInit == Init => RegInv
BY IdleIsRequest DEF Init, RegInv, Types, IdsDrawn, OpenDiffer, Fits, HasArguments, OpenIsNew,
  Open, AnswerHasRow, UserHasBalance, OneUserPerLogin, TokenNamesUser

\* A request with the arguments of the client.
LEMMA BeginKeepsInv ==
  ASSUME RegInv, NEW c \in Clients, NEW l \in Logins, NEW p \in Passwords,
         NEW pc \in {"check", "get"},
         req' = [req EXCEPT ![c] = [Idle EXCEPT !.pc = pc, !.login = l, !.password = p]],
         UNCHANGED <<users, balances, lastId, sessions>>
  PROVE  RegInv'
<1> DEFINE q == [Idle EXCEPT !.pc = pc, !.login = l, !.password = p]
<1>1. q \in Request /\ q.pc = pc /\ q.login = l /\ q.password = p
  BY ZenonT(60) DEF Idle, Request, Pcs, Codes
<1>2. req' = [req EXCEPT ![c] = q]
  OBVIOUS
<1> HIDE DEF q
<1>3. ~Open(q) /\ HasArguments(q) /\ AnswerHasRow(q, users)
  BY <1>1 DEF Open, HasArguments, AnswerHasRow
<1>4. QED
  BY <1>1, <1>2, <1>3, NotOpenKeepsInv DEF RegInv, TokenNamesUser

LEMMA CheckLoginKeepsInv ==
  ASSUME RegInv, NEW c \in Clients, CheckLogin(c)
  PROVE  RegInv'
<1>1. CASE Taken(req[c].login)
  <2>1. PICK taken \in BOOLEAN : Finish(c, 409, 0, taken)
    BY <1>1 DEF CheckLogin
  <2>2. 409 \in Codes /\ 409 # 200
    BY DEF Codes
  <2>3. QED BY <2>1, <2>2, RefusalKeepsInv DEF CheckLogin
<1>2. CASE ~Taken(req[c].login)
  <2> DEFINE q == [req[c] EXCEPT !.pc = "begin"]
  <2>1. req[c] \in Request /\ req[c].pc = "check" /\ HasArguments(req[c])
    BY DEF RegInv, Types, Fits, CheckLogin
  <2>2. /\ q \in Request /\ q.pc = "begin" /\ q.id = req[c].id
        /\ q.login = req[c].login /\ q.password = req[c].password
    BY <2>1 DEF Request, Pcs
  <2>3. req' = [req EXCEPT ![c] = q]
    BY <1>2 DEF CheckLogin
  <2> HIDE DEF q
  <2>4. (Open(q) <=> Open(req[c])) /\ HasArguments(q) /\ AnswerHasRow(q, users)
    BY <2>1, <2>2 DEF Open, HasArguments, AnswerHasRow
  <2>5. QED BY <2>2, <2>3, <2>4, OpenKeepsInv DEF CheckLogin
<1>3. QED BY <1>1, <1>2

LEMMA InsertUserKeepsInv ==
  ASSUME RegInv, NEW c \in Clients, InsertUser(c)
  PROVE  RegInv'
<1>1. /\ req[c] \in Request /\ req[c].pc = "begin" /\ HasArguments(req[c])
      /\ lastId \in Nat /\ lastId' = lastId + 1
      /\ users' = users /\ balances' = balances /\ sessions' = sessions
  BY DEF RegInv, Types, Fits, InsertUser
<1>2. PICK q \in Request : /\ req' = [req EXCEPT ![c] = q]
                           /\ q.pc = "user" /\ q.id = lastId + 1
                           /\ q.login = req[c].login /\ q.password = req[c].password
  <2> DEFINE id  == lastId + 1
             new == [req[c] EXCEPT !.pc = "user", !.id = id]
  <2>1. id \in Nat /\ "user" \in Pcs
    BY <1>1 DEF Pcs
  <2>2. req' = [req EXCEPT ![c] = new]
    BY DEF InsertUser
  <2>3. new.pc = "user" /\ new.id = id
        /\ new.login = req[c].login /\ new.password = req[c].password
    BY <1>1 DEF Request
  <2>4. id = lastId + 1
    OBVIOUS
  <2> HIDE DEF id
  <2>5. new \in Request
    BY <1>1, <2>1, Zenon DEF Request
  <2> HIDE DEF new
  <2>6. QED BY <2>2, <2>3, <2>4, <2>5
<1>3. \A d \in Clients : req'[d] = IF d = c THEN q ELSE req[d]
  BY <1>2 DEF RegInv, Types
<1>4. Types' /\ IdsDrawn'
  BY <1>1, <1>2 DEF RegInv, Types, IdsDrawn, Row
<1>5. ASSUME NEW d \in Clients, d # c, Open(req[d])
      PROVE  req[d].login # q.login /\ req[d].id # q.id
  <2>1. req[d].login # q.login
    BY <1>2, <1>5 DEF InsertUser, LoginPending, Open
  <2>2. req[d].id \in Nat /\ req[d].id <= lastId
    BY <1>5 DEF RegInv, Fits, OpenIsNew, Types, Request
  <2>3. QED BY <1>1, <1>2, <2>1, <2>2
<1>6. OpenDiffer'
  BY <1>3, <1>5 DEF RegInv, OpenDiffer
<1>7. Fits(q, users', lastId')
  <2>1. \A row \in users : row.id # q.id /\ row.login # q.login
    BY <1>1, <1>2 DEF RegInv, Types, IdsDrawn, Row, InsertUser, Taken
  <2>2. HasArguments(q) /\ AnswerHasRow(q, users')
    BY <1>1, <1>2 DEF HasArguments, AnswerHasRow
  <2>3. QED BY <1>1, <1>2, <2>1, <2>2 DEF Fits, OpenIsNew
<1>8. ASSUME NEW d \in Clients, d # c
      PROVE  Fits(req[d], users', lastId')
  <2>1. Fits(req[d], users, lastId) /\ req[d].id \in Nat
    BY DEF RegInv, Types, Request
  <2>2. QED BY <1>1, <2>1 DEF Fits, OpenIsNew
<1>9. \A d \in Clients : Fits(req'[d], users', lastId')
  BY <1>3, <1>7, <1>8
<1>10. UserHasBalance' /\ OneUserPerLogin' /\ TokenNamesUser'
  BY <1>1 DEF RegInv, UserHasBalance, OneUserPerLogin, TokenNamesUser
<1>11. QED
  BY <1>4, <1>6, <1>9, <1>10 DEF RegInv

LEMMA InsertBalanceKeepsInv ==
  ASSUME RegInv, NEW c \in Clients, InsertBalance(c)
  PROVE  RegInv'
<1> DEFINE q == [req[c] EXCEPT !.pc = "balance"]
<1>1. req[c] \in Request /\ req[c].pc = "user" /\ HasArguments(req[c])
  BY DEF RegInv, Types, Fits, InsertBalance
<1>2. /\ q \in Request /\ q.pc = "balance" /\ q.id = req[c].id
      /\ q.login = req[c].login /\ q.password = req[c].password
  BY <1>1 DEF Request, Pcs
<1>3. req' = [req EXCEPT ![c] = q]
  BY DEF InsertBalance
<1> HIDE DEF q
<1>4. (Open(q) <=> Open(req[c])) /\ HasArguments(q) /\ AnswerHasRow(q, users)
  BY <1>1, <1>2 DEF Open, HasArguments, AnswerHasRow
<1>5. QED BY <1>2, <1>3, <1>4, OpenKeepsInv DEF InsertBalance

LEMMA CommitUserKeepsInv ==
  ASSUME RegInv, NEW c \in Clients, CommitUser(c)
  PROVE  RegInv'
<1>1. /\ req[c] \in Request /\ Open(req[c]) /\ HasArguments(req[c])
      /\ OpenIsNew(req[c], users, lastId)
  BY DEF RegInv, Types, Fits, CommitUser, Open
<1>2. PICK row \in Row :
        /\ row = RowOf(req[c]) /\ row.id = req[c].id /\ row.login = req[c].login
        /\ users' = users \cup {row} /\ balances' = balances \cup {row.id}
  <2>1. RowOf(req[c]) \in Row
    BY <1>1 DEF Request, Open, HasArguments, OpenIsNew, Row, RowOf
  <2>2. users' = users \cup {RowOf(req[c])} /\ balances' = balances \cup {req[c].id}
    BY DEF CommitUser, RowOf
  <2>3. RowOf(req[c]).id = req[c].id /\ RowOf(req[c]).login = req[c].login
    BY DEF RowOf
  <2>4. QED BY <2>1, <2>2, <2>3
<1>3. lastId' = lastId /\ sessions' = sessions
  BY DEF CommitUser
<1>4. PICK q \in Request :
        /\ req' = [req EXCEPT ![c] = q]
        /\ \/ q.pc = "token" /\ RowOf(q) = row
           \/ q.pc = "answering" /\ q.code # 200
  <2>1. Types /\ 500 \in Codes /\ 0 \in Nat /\ req[c].id \in Nat
    BY <1>1 DEF RegInv, Codes, Request
  <2>2. CASE Returns(c, req[c].id)
    BY <1>2, <2>1, <2>2, ReturnsIs DEF RowOf
  <2>3. CASE Finish(c, 500, 0, FALSE)
    <3>1. PICK taken \in BOOLEAN : Finish(c, 500, 0, taken)
      BY <2>3
    <3>2. QED BY <2>1, <3>1, FinishIs
  <2>4. QED BY <2>2, <2>3 DEF CommitUser
<1>5. \A d \in Clients : req'[d] = IF d = c THEN q ELSE req[d]
  BY <1>4 DEF RegInv, Types
<1>6. ~Open(q) /\ Fits(q, users', lastId')
  <2>1. ~Open(q) /\ HasArguments(q)
    BY <1>4 DEF Open, HasArguments
  <2>2. QED BY <1>2, <1>4, <2>1 DEF Fits, OpenIsNew, AnswerHasRow
<1>7. Types' /\ IdsDrawn'
  BY <1>1, <1>2, <1>3, <1>4 DEF RegInv, Types, IdsDrawn, OpenIsNew
<1>8. OpenDiffer'
  BY <1>5, <1>6 DEF RegInv, OpenDiffer
<1>9. ASSUME NEW d \in Clients, d # c
      PROVE  Fits(req[d], users', lastId')
  <2>1. Fits(req[d], users, lastId)
    BY DEF RegInv
  <2>2. Open(req[d]) => row.id # req[d].id /\ row.login # req[d].login
    BY <1>1, <1>2, <1>9 DEF RegInv, OpenDiffer
  <2>3. OpenIsNew(req[d], users', lastId')
    BY <1>2, <1>3, <2>1, <2>2 DEF Fits, OpenIsNew
  <2>4. AnswerHasRow(req[d], users')
    BY <1>2, <2>1 DEF Fits, AnswerHasRow
  <2>5. QED BY <2>1, <2>3, <2>4 DEF Fits
<1>10. \A d \in Clients : Fits(req'[d], users', lastId')
  BY <1>5, <1>6, <1>9
<1>11. UserHasBalance'
  BY <1>2 DEF RegInv, UserHasBalance
<1>12. OneUserPerLogin'
  BY <1>1, <1>2 DEF RegInv, OneUserPerLogin, OpenIsNew
<1>13. TokenNamesUser'
  BY <1>2, <1>3 DEF RegInv, TokenNamesUser
<1>14. QED
  BY <1>7, <1>8, <1>10, <1>11, <1>12, <1>13 DEF RegInv

LEMMA GetUserKeepsInv ==
  ASSUME RegInv, NEW c \in Clients, GetUser(c)
  PROVE  RegInv'
<1>1. /\ lastId' \in {lastId, lastId + 1} /\ users' = users
      /\ balances' = balances /\ sessions' = sessions
  BY DEF GetUser
<1>2. 404 \in Codes /\ 401 \in Codes /\ Types
  BY DEF Codes, RegInv
<1>3. CASE Finish(c, 404, 0, FALSE) \/ Finish(c, 401, 0, FALSE)
  <2>1. PICK code \in {404, 401}, taken \in BOOLEAN : Finish(c, code, 0, taken)
    BY <1>3
  <2>2. QED BY <1>1, <1>2, <2>1, RefusalKeepsInv
<1>4. CASE \E row \in users : /\ row.login = req[c].login
                              /\ row.password = req[c].password
                              /\ Returns(c, row.id)
  <2>1. PICK row \in users : /\ row.login = req[c].login
                             /\ row.password = req[c].password
                             /\ Returns(c, row.id)
    BY <1>4
  <2>2. row \in Row /\ row.id \in Nat
    BY DEF RegInv, Types, Row
  <2>3. PICK q \in Request :
          /\ req' = [req EXCEPT ![c] = q]
          /\ q.pc = "token" /\ q.id = row.id
          /\ q.login = req[c].login /\ q.password = req[c].password
    BY <1>2, <2>1, <2>2, ReturnsIs
  <2>4. RowOf(q) = row
    BY <2>1, <2>2, <2>3 DEF RowOf, Row
  <2>5. ~Open(q) /\ HasArguments(q) /\ AnswerHasRow(q, users)
    BY <2>3, <2>4 DEF Open, HasArguments, AnswerHasRow
  <2>6. sessions' \subseteq users
    BY <1>1 DEF RegInv, TokenNamesUser
  <2>7. QED BY <1>1, <2>3, <2>5, <2>6, NotOpenKeepsInv
<1>5. QED BY <1>3, <1>4 DEF GetUser

\* A token that is built is for the user that the service has returned.
LEMMA BuildTokenKeepsInv ==
  ASSUME RegInv, NEW c \in Clients, BuildTokenString(c)
  PROVE  RegInv'
<1>1. /\ req[c] \in Request /\ RowOf(req[c]) \in users /\ sessions \subseteq users
      /\ Types /\ 200 \in Codes
  BY DEF RegInv, Types, Fits, AnswerHasRow, BuildTokenString, TokenNamesUser, Codes
<1>2. PICK taken \in BOOLEAN : Finish(c, 200, req[c].id, taken)
  BY DEF BuildTokenString
<1>3. req[c].id \in Nat
  BY <1>1 DEF Request
<1>4. PICK q \in Request :
        /\ req' = [req EXCEPT ![c] = q]
        /\ q.pc = "answering"
        /\ q.code = 200 => /\ q.id = req[c].id
                           /\ q.login = req[c].login /\ q.password = req[c].password
  BY <1>1, <1>2, <1>3, FinishIs
<1>5. q.code = 200 => RowOf(q) = RowOf(req[c])
  BY <1>4 DEF RowOf
<1>6. ~Open(q) /\ HasArguments(q) /\ AnswerHasRow(q, users)
  BY <1>1, <1>4, <1>5 DEF Open, HasArguments, AnswerHasRow
<1>7. QED
  BY <1>1, <1>4, <1>6, NotOpenKeepsInv DEF BuildTokenString

LEMMA TimeoutKeepsInv ==
  ASSUME RegInv, NEW c \in Clients, Timeout(c)
  PROVE  RegInv'
<1>1. CASE req[c].pc = "answering"
  <2>1. PICK taken \in BOOLEAN : Finish(c, 503, 0, taken)
    BY <1>1 DEF Timeout
  <2>2. 503 \in Codes /\ 503 # 200
    BY DEF Codes
  <2>3. QED BY <2>1, <2>2, RefusalKeepsInv DEF Timeout
<1>2. CASE req[c].pc # "answering"
  <2> DEFINE q == [req[c] EXCEPT !.late = TRUE]
  <2>1. req[c] \in Request /\ HasArguments(req[c]) /\ AnswerHasRow(req[c], users)
    BY DEF RegInv, Types, Fits
  <2>2. /\ q \in Request /\ q.pc = req[c].pc /\ q.id = req[c].id
        /\ q.login = req[c].login /\ q.password = req[c].password
    BY <2>1 DEF Request
  <2>3. req' = [req EXCEPT ![c] = q]
    BY <1>2 DEF Timeout
  <2> HIDE DEF q
  <2>4. (Open(q) <=> Open(req[c])) /\ HasArguments(q) /\ AnswerHasRow(q, users)
    BY <1>2, <2>1, <2>2 DEF Open, HasArguments, AnswerHasRow, RowOf
  <2>5. QED BY <2>2, <2>3, <2>4, OpenKeepsInv DEF Timeout
<1>3. QED BY <1>1, <1>2

LEMMA AnswerKeepsInv ==
  ASSUME RegInv, NEW c \in Clients, Answer(c)
  PROVE  RegInv'
<1>1. AnswerHasRow(req[c], users) /\ req[c].pc = "answering" /\ sessions \subseteq users
  BY DEF RegInv, Fits, Answer, TokenNamesUser
<1>2. req[c].code = 200 => RowOf(req[c]) \in users
  BY <1>1 DEF AnswerHasRow
<1>3. RowOf(req[c]) = [login |-> req[c].login, password |-> req[c].password, id |-> req[c].id]
  BY DEF RowOf
<1>4. sessions' \subseteq users
  BY <1>1, <1>2, <1>3 DEF Answer
<1>5. ~Open(Idle) /\ HasArguments(Idle) /\ AnswerHasRow(Idle, users)
  BY IdleIsRequest DEF Open, HasArguments, AnswerHasRow
<1>6. QED
  BY <1>4, <1>5, IdleIsRequest, NotOpenKeepsInv DEF Answer

LEMMA CrashKeepsInv ==
  ASSUME RegInv, Crash
  PROVE  RegInv'
BY IdleIsRequest DEF Crash, RegInv, Types, IdsDrawn, OpenDiffer, Fits, HasArguments, OpenIsNew, Open,
  AnswerHasRow, UserHasBalance, OneUserPerLogin, TokenNamesUser

LEMMA RegStep == RegInv /\ [Next]_vars => RegInv'
<1> SUFFICES ASSUME RegInv, [Next]_vars PROVE RegInv'
  OBVIOUS
<1>1. ASSUME NEW c \in Clients, Register(c) PROVE RegInv'
  BY <1>1, BeginKeepsInv DEF Register
<1>2. ASSUME NEW c \in Clients, Login(c) PROVE RegInv'
  BY <1>2, BeginKeepsInv DEF Login
<1>3. ASSUME NEW c \in Clients, InsertDuplicate(c) \/ RegisterFails(c) \/ LoginFails(c)
      PROVE  RegInv'
  <2>1. /\ lastId' \in {lastId, lastId + 1} /\ users' = users
        /\ balances' = balances /\ sessions' = sessions
    BY <1>3 DEF InsertDuplicate, RegisterFails, LoginFails
  <2>2. PICK taken \in BOOLEAN : Finish(c, 500, 0, taken)
    BY <1>3 DEF InsertDuplicate, RegisterFails, LoginFails
  <2>3. 500 \in Codes /\ 500 # 200
    BY DEF Codes
  <2>4. QED BY <2>1, <2>2, <2>3, RefusalKeepsInv
<1>4. CASE UNCHANGED vars
  BY <1>4 DEF vars, RegInv, Types, IdsDrawn, OpenDiffer, UserHasBalance, OneUserPerLogin, TokenNamesUser
<1>5. QED
  BY <1>1, <1>2, <1>3, <1>4, CheckLoginKeepsInv, InsertUserKeepsInv, InsertBalanceKeepsInv,
    CommitUserKeepsInv, GetUserKeepsInv, BuildTokenKeepsInv, TimeoutKeepsInv, AnswerKeepsInv, CrashKeepsInv
    DEF Next

LEMMA RegInvariant == Spec => []RegInv
<1>1. QED
  BY RegInit, RegStep, PTL DEF Spec

\* A row stays, so a login that was in use is in use when its 409 is told.
LEMMA ConflictStep == RegInv /\ ConflictIsTrue /\ [Next]_vars => ConflictIsTrue'
<1> SUFFICES ASSUME RegInv, ConflictIsTrue, [Next]_vars PROVE ConflictIsTrue'
  OBVIOUS
<1> DEFINE Told(q) == q.pc = "answering" /\ q.code = 409
<1>1. users \subseteq users' /\ \A l : Taken(l) => Taken(l)'
  <2>1. users \subseteq users'
    <3>1. ASSUME NEW c \in Clients, CommitUser(c) PROVE users \subseteq users'
      BY <3>1 DEF CommitUser
    <3>2. ASSUME NEW c \in Clients,
                 \/ Register(c) \/ CheckLogin(c) \/ InsertUser(c) \/ InsertDuplicate(c)
                 \/ InsertBalance(c) \/ RegisterFails(c) \/ Login(c)
          PROVE  users' = users
      BY <3>2 DEF Register, CheckLogin, InsertUser, InsertDuplicate, InsertBalance,
        RegisterFails, Login
    <3>3. ASSUME NEW c \in Clients,
                 \/ GetUser(c) \/ LoginFails(c) \/ BuildTokenString(c) \/ Timeout(c)
                 \/ Answer(c)
          PROVE  users' = users
      BY <3>3 DEF GetUser, LoginFails, BuildTokenString, Timeout, Answer
    <3>4. Crash \/ UNCHANGED vars => users' = users
      BY DEF Crash, vars
    <3>5. QED BY <3>1, <3>2, <3>3, <3>4, Zenon DEF Next
  <2>2. QED BY <2>1 DEF Taken
<1>2. ASSUME NEW c \in Clients, NEW q, req' = [req EXCEPT ![c] = q], Told(q) => Taken(q.login)
      PROVE  ConflictIsTrue'
  <2>1. \A d \in Clients : req'[d] = IF d = c THEN q ELSE req[d]
    BY <1>2 DEF RegInv, Types
  <2>2. \A d \in Clients : Told(req'[d]) => Taken(req'[d].login)
    BY <1>2, <2>1 DEF ConflictIsTrue
  <2>3. QED BY <1>1, <2>2 DEF ConflictIsTrue
<1>3. ASSUME NEW c \in Clients, NEW code, NEW id, NEW taken, Finish(c, code, id, taken),
             code # 409 \/ Taken(req[c].login)
      PROVE  ConflictIsTrue'
  <2> DEFINE said == IF req[c].late THEN 503 ELSE code
             from == IF said \in {200, 409} THEN req[c] ELSE Idle
             q == [pc |-> "answering", login |-> from.login, password |-> from.password,
                   id |-> IF said = 200 THEN id ELSE 0, code |-> said, taken |-> taken,
                   late |-> FALSE]
  <2>1. req' = [req EXCEPT ![c] = q]
    BY <1>3 DEF Finish
  <2>2. q.code = said /\ (said = 409 => q.login = req[c].login)
    OBVIOUS
  <2>3. Told(q) => Taken(q.login)
    BY <1>3, <2>2
  <2> HIDE DEF q
  <2>4. QED BY <1>2, <2>1, <2>3
<1>4. ASSUME NEW c \in Clients, Register(c) \/ Login(c) PROVE ConflictIsTrue'
  <2>1. PICK pc \in {"check", "get"}, l \in Logins, p \in Passwords :
          req' = [req EXCEPT ![c] = [Idle EXCEPT !.pc = pc, !.login = l, !.password = p]]
    BY <1>4 DEF Register, Login
  <2> DEFINE q == [Idle EXCEPT !.pc = pc, !.login = l, !.password = p]
  <2>2. q.pc # "answering" /\ req' = [req EXCEPT ![c] = q]
    BY <2>1 DEF Idle
  <2> HIDE DEF q
  <2>3. QED BY <1>2, <2>2
<1>5. ASSUME NEW c \in Clients, InsertUser(c) \/ InsertBalance(c) PROVE ConflictIsTrue'
  <2>1. req[c] \in Request
    BY DEF RegInv, Types
  <2> DEFINE p == [req[c] EXCEPT !.pc = "user", !.id = lastId + 1]
             q == [req[c] EXCEPT !.pc = "balance"]
  <2>2. p.pc # "answering" /\ q.pc # "answering"
    BY <2>1 DEF Request
  <2>3. req' = [req EXCEPT ![c] = p] \/ req' = [req EXCEPT ![c] = q]
    BY <1>5 DEF InsertUser, InsertBalance
  <2> HIDE DEF p, q
  <2>4. QED BY <1>2, <2>2, <2>3
<1>6. ASSUME NEW c \in Clients,
             \/ InsertDuplicate(c) \/ CommitUser(c) \/ RegisterFails(c) \/ GetUser(c)
             \/ LoginFails(c)      \/ BuildTokenString(c)
      PROVE  ConflictIsTrue'
  <2> DEFINE Ends(code) == \E id, taken : Finish(c, code, id, taken)
             Goes       == \E id : Returns(c, id)
  <2>1. CommitUser(c) => Goes \/ Ends(500)
    <3>1. CommitUser(c) => Returns(c, req[c].id) \/ Finish(c, 500, 0, FALSE)
      BY DEF CommitUser
    <3>2. QED BY <3>1
  <2>2. GetUser(c) => Ends(404) \/ Ends(401) \/ Goes
    <3>1. GetUser(c) => \E taken \in BOOLEAN :
            \/ Finish(c, 404, 0, taken) \/ Finish(c, 401, 0, taken)
            \/ \E row \in users : Returns(c, row.id)
      BY DEF GetUser
    <3>2. QED BY <3>1
  <2>3. InsertDuplicate(c) \/ RegisterFails(c) \/ LoginFails(c) => Ends(500)
    BY Zenon DEF InsertDuplicate, RegisterFails, LoginFails
  <2>4. BuildTokenString(c) => Ends(200)
    BY Zenon DEF BuildTokenString
  <2>5. CASE Goes
    <3>1. PICK id : Returns(c, id)
      BY <2>5
    <3> DEFINE q == [req[c] EXCEPT !.pc = "token", !.id = id]
    <3>2. req[c] \in Request /\ req' = [req EXCEPT ![c] = q]
      BY <3>1 DEF RegInv, Types, Returns
    <3>3. q.pc # "answering"
      BY <3>2 DEF Request
    <3> HIDE DEF q
    <3>4. QED BY <1>2, <3>2, <3>3
  <2>6. ASSUME NEW code \in {200, 401, 404, 500}, Ends(code)
        PROVE  ConflictIsTrue'
    BY <1>3, <2>6
  <2> HIDE DEF Ends, Goes
  <2>7. QED BY <1>6, <2>1, <2>2, <2>3, <2>4, <2>5, <2>6
<1>7. ASSUME NEW c \in Clients, CheckLogin(c) PROVE ConflictIsTrue'
  <2>1. CASE Taken(req[c].login)
    <3>1. PICK taken : Finish(c, 409, 0, taken)
      BY <1>7, <2>1 DEF CheckLogin
    <3>2. QED BY <1>3, <2>1, <3>1
  <2>2. CASE ~Taken(req[c].login)
    <3>1. req[c] \in Request
      BY DEF RegInv, Types
    <3> DEFINE q == [req[c] EXCEPT !.pc = "begin"]
    <3>2. q.pc # "answering" /\ req' = [req EXCEPT ![c] = q]
      BY <1>7, <2>2, <3>1 DEF CheckLogin, Request
    <3> HIDE DEF q
    <3>3. QED BY <1>2, <3>2
  <2>3. QED BY <2>1, <2>2
<1>8. ASSUME NEW c \in Clients, Timeout(c) PROVE ConflictIsTrue'
  <2>1. CASE req[c].pc = "answering"
    <3>1. PICK code \in {503}, taken \in BOOLEAN : Finish(c, code, 0, taken)
      BY <1>8, <2>1 DEF Timeout
    <3>2. QED BY <1>3, <3>1
  <2>2. CASE req[c].pc # "answering"
    <3>1. req[c] \in Request
      BY DEF RegInv, Types
    <3>2. PICK q : req' = [req EXCEPT ![c] = q] /\ q.pc # "answering"
      BY <1>8, <2>2, <3>1 DEF Timeout, Request
    <3>3. QED BY <1>2, <3>2
  <2>3. QED BY <2>1, <2>2
<1>9. ASSUME NEW c \in Clients, Answer(c) PROVE ConflictIsTrue'
  BY <1>2, <1>9, IdleIsRequest DEF Answer
<1>10. CASE Crash
  BY <1>10, IdleIsRequest DEF Crash, ConflictIsTrue
<1>11. CASE UNCHANGED vars
  BY <1>11 DEF vars, ConflictIsTrue, Taken
<1>12. QED
  BY <1>4, <1>5, <1>6, <1>7, <1>8, <1>9, <1>10, <1>11 DEF Next

\* A user is never without its balance row, wherever a registration ends.
THEOREM BalanceWithUser == Spec => []UserHasBalance
<1>1. RegInv => UserHasBalance
  BY DEF RegInv
<1>2. QED
  BY <1>1, RegInvariant, PTL

\* However many registrations of a login race, one user has it.
THEOREM LoginIsUnique == Spec => []OneUserPerLogin
<1>1. RegInv => OneUserPerLogin
  BY DEF RegInv
<1>2. QED
  BY <1>1, RegInvariant, PTL

\* Whoever has a token has sent the login and the password of its user.
THEOREM TokenIsEarned == Spec => []TokenNamesUser
<1>1. RegInv => TokenNamesUser
  BY DEF RegInv
<1>2. QED
  BY <1>1, RegInvariant, PTL

\* 409 is told only of a login that is in use, whatever else is going on.
THEOREM ConflictsAreTrue == Spec => []ConflictIsTrue
<1>1. Init => ConflictIsTrue
  BY IdleIsRequest DEF Init, ConflictIsTrue
<1>2. QED
  BY <1>1, ConflictStep, RegInvariant, PTL DEF Spec
-----------------------------------------------------------------------------
\* Sessions.
Hours == TokenExpireHours

SessionTypes == /\ hour \in Nat
                /\ aged \subseteq Clients
                /\ token \in [Clients -> Nat]
                /\ cookie \in [Clients -> [id : Nat, ends : Nat]]
                /\ inactive \subseteq [id : Nat, since : Nat]

\* Only users are deactivated.
InactiveAreUsers == \A i \in inactive : \E row \in users : row.id = i.id

\* A token that ends at "ends" is not one that the user id must not have.
InTime(id, ends, out) == \A i \in out : i.id = id => ends <= i.since + Hours + LoginSpan

\* The request q is about to be answered with a token.
HasToken(q) == q.pc = "answering" /\ q.code = 200

CookieFits(k, rows, h, out) == /\ k.id = 0 \/ k.id \in rows
                               /\ k.ends <= h + Hours
                               /\ InTime(k.id, k.ends, out)

TokenFits(q, t, k, h, out) == HasToken(q) =>
  /\ t <= h + Hours /\ k.ends <= t
  /\ InTime(q.id, t, out)

\* A request that will get a token has seen its user active: it was deactivated
\* in this hour, or in the last one if the request has been there since ("old").
InFlight(q, old, h, out) == q.pc = "token" /\ ~q.late =>
  \A i \in out : i.id = q.id => h <= i.since + LoginSpan /\ (~old => h <= i.since)

SessInv ==
  /\ SessionTypes /\ InactiveAreUsers
  /\ \A c \in Clients : /\ CookieFits(cookie[c], balances, hour, inactive)
                         /\ TokenFits(req[c], token[c], cookie[c], hour, inactive)
                         /\ InFlight(req[c], c \in aged, hour, inactive)
-----------------------------------------------------------------------------
\* A refusal of an inactive user keeps what Registration keeps.
LEMMA SessionsKeepReg == RegInv /\ [SessionsNext]_allVars => RegInv'
<1> SUFFICES ASSUME RegInv, [SessionsNext]_allVars PROVE RegInv'
  OBVIOUS
<1>1. ASSUME NEW c \in Clients, HandlerStep(c) PROVE Next
  BY <1>1 DEF HandlerStep, Next
<1>2. ASSUME NEW c \in Clients, LoginUser(c) PROVE RegInv'
  <2>1. CASE GetUser(c)
    <3>1. Next
      BY <2>1 DEF Next
    <3>2. QED BY <3>1, RegStep
  <2>2. CASE ~GetUser(c)
    <3>1. UNCHANGED <<users, balances, lastId, sessions>>
      BY <1>2, <2>2 DEF LoginUser
    <3>2. PICK taken \in BOOLEAN : Finish(c, 403, 0, taken)
      BY <1>2, <2>2 DEF LoginUser
    <3>3. 403 \in Codes /\ 403 # 200
      BY DEF Codes
    <3>4. QED BY <3>1, <3>2, <3>3, RefusalKeepsInv
  <2>3. QED BY <2>1, <2>2
<1>3. ASSUME NEW c \in Clients, SetCookie(c) \/ AddAuthCookie(c) PROVE Next
  BY <1>3 DEF SetCookie, AddAuthCookie, Next
<1>4. CASE Restart
  BY <1>4, RegStep DEF Restart, Next
<1>5. CASE Deactivate \/ Hour \/ UNCHANGED allVars
  <2>1. UNCHANGED vars
    BY <1>5 DEF Deactivate, Hour, allVars
  <2>2. QED BY <2>1, RegStep
<1>6. QED
  BY <1>1, <1>2, <1>3, <1>4, <1>5, RegStep DEF SessionsNext

LEMMA SessionsRegistration == SessionsSpec => []RegInv
<1>1. SessionsInit => RegInv
  BY RegInit DEF SessionsInit
<1>2. QED
  BY <1>1, SessionsKeepReg, PTL DEF SessionsSpec

LEMMA SessInit == SessionsInit => SessInv
BY SessionsAssumption, IdleIsRequest DEF SessionsInit, Init, SessInv, SessionTypes, InactiveAreUsers,
  CookieFits, TokenFits, HasToken, InTime, InFlight, NoCookie, Hours
-----------------------------------------------------------------------------
\* What a step of the handler of c may do that does not look at the clock: its
\* request gets no token, and comes to "token" for a user that may have one.
LEMMA HandlerKeepsSess ==
  ASSUME RegInv, SessInv, NEW c \in Clients, NEW q \in Request,
         req' = [req EXCEPT ![c] = q],
         users \subseteq users', balances \subseteq balances', UNCHANGED sessionVars,
         ~HasToken(q), InFlight(q, c \in aged, hour, inactive)
  PROVE  SessInv'
<1>1. \A d \in Clients : req'[d] = IF d = c THEN q ELSE req[d]
  BY DEF RegInv, Types
<1>2. UNCHANGED <<hour, aged, token, cookie, inactive>>
  BY DEF sessionVars
<1>3. SessionTypes' /\ InactiveAreUsers'
  BY <1>2 DEF SessInv, SessionTypes, InactiveAreUsers
<1>4. \A d \in Clients : CookieFits(cookie[d], balances', hour, inactive)
  BY DEF SessInv, CookieFits
<1>5. \A d \in Clients : /\ TokenFits(req'[d], token[d], cookie[d], hour, inactive)
                          /\ InFlight(req'[d], d \in aged, hour, inactive)
  BY <1>1 DEF SessInv, TokenFits
<1>6. QED
  BY <1>2, <1>3, <1>4, <1>5 DEF SessInv

LEMMA RefusalKeepsSess ==
  ASSUME RegInv, SessInv, NEW c \in Clients, NEW code \in {403, 404, 409, 500, 503, 401},
         NEW id \in Nat, NEW taken \in BOOLEAN, Finish(c, code, id, taken),
         users \subseteq users', balances \subseteq balances', UNCHANGED sessionVars
  PROVE  SessInv'
<1>1. code \in Codes /\ code # 200 /\ Types
  BY DEF Codes, RegInv
<1>2. PICK q \in Request : /\ req' = [req EXCEPT ![c] = q]
                           /\ q.pc = "answering" /\ (q.code = 200 => code = 200)
  BY <1>1, FinishIs
<1>3. ~HasToken(q) /\ InFlight(q, c \in aged, hour, inactive)
  BY <1>1, <1>2 DEF HasToken, InFlight
<1>4. QED
  BY <1>2, <1>3, HandlerKeepsSess

\* The service returns the id of a user that is not deactivated.
LEMMA ReturnKeepsSess ==
  ASSUME RegInv, SessInv, NEW c \in Clients, NEW id \in Nat, Returns(c, id),
         users \subseteq users', balances \subseteq balances', UNCHANGED sessionVars,
         \A i \in inactive : i.id # id
  PROVE  SessInv'
<1>1. Types
  BY DEF RegInv
<1>2. PICK q \in Request : req' = [req EXCEPT ![c] = q] /\ q.pc = "token" /\ q.id = id
  BY <1>1, ReturnsIs
<1>3. ~HasToken(q) /\ InFlight(q, c \in aged, hour, inactive)
  BY <1>2 DEF HasToken, InFlight
<1>4. QED
  BY <1>2, <1>3, HandlerKeepsSess

\* A step of the handler of c that neither answers nor returns an id.
LEMMA GoingOnKeepsSess ==
  ASSUME RegInv, SessInv, NEW c \in Clients, NEW q \in Request,
         q.pc \notin {"answering", "token"} \/ (q.pc # "answering" /\ q.late),
         req' = [req EXCEPT ![c] = q], users' = users, balances' = balances,
         UNCHANGED sessionVars
  PROVE  SessInv'
<1>1. ~HasToken(q) /\ InFlight(q, c \in aged, hour, inactive)
  BY DEF HasToken, InFlight
<1>2. QED
  BY <1>1, HandlerKeepsSess
-----------------------------------------------------------------------------
\* Registration and login up to the id.
LEMMA HandlerSess ==
  ASSUME RegInv, SessInv, NEW c \in Clients, HandlerStep(c)
  PROVE  SessInv'
<1>1. UNCHANGED sessionVars /\ req[c] \in Request
  BY DEF HandlerStep, RegInv, Types
<1>2. CASE Register(c) \/ Login(c)
  <2>1. PICK pc \in {"check", "get"}, l \in Logins, p \in Passwords :
          req' = [req EXCEPT ![c] = [Idle EXCEPT !.pc = pc, !.login = l, !.password = p]]
    BY <1>2 DEF Register, Login
  <2> DEFINE q == [Idle EXCEPT !.pc = pc, !.login = l, !.password = p]
  <2>2. q \in Request /\ q.pc \notin {"answering", "token"} /\ req' = [req EXCEPT ![c] = q]
    BY <2>1, ZenonT(60) DEF Idle, Request, Pcs, Codes
  <2>3. users' = users /\ balances' = balances
    BY <1>2 DEF Register, Login
  <2> HIDE DEF q
  <2>4. QED BY <1>1, <2>2, <2>3, GoingOnKeepsSess
<1>3. CASE CheckLogin(c)
  <2>1. CASE Taken(req[c].login)
    <3>1. PICK taken \in BOOLEAN : Finish(c, 409, 0, taken)
      BY <1>3, <2>1 DEF CheckLogin
    <3>2. users' = users /\ balances' = balances /\ 0 \in Nat
      BY <1>3 DEF CheckLogin
    <3>3. QED BY <1>1, <3>1, <3>2, RefusalKeepsSess
  <2>2. CASE ~Taken(req[c].login)
    <3> DEFINE q == [req[c] EXCEPT !.pc = "begin"]
    <3>1. q \in Request /\ q.pc \notin {"answering", "token"}
      BY <1>1 DEF Request, Pcs
    <3>2. req' = [req EXCEPT ![c] = q] /\ users' = users /\ balances' = balances
      BY <1>3, <2>2 DEF CheckLogin
    <3> HIDE DEF q
    <3>3. QED BY <1>1, <3>1, <3>2, GoingOnKeepsSess
  <2>3. QED BY <2>1, <2>2
<1>4. CASE InsertUser(c)
  <2> DEFINE id == lastId + 1
             q  == [req[c] EXCEPT !.pc = "user", !.id = id]
  <2>1. id \in Nat /\ "user" \in Pcs
    BY DEF RegInv, Types, Pcs
  <2>2. req' = [req EXCEPT ![c] = q] /\ users' = users /\ balances' = balances
    BY <1>4 DEF InsertUser
  <2>3. q.pc \notin {"answering", "token"}
    BY <1>1 DEF Request
  <2> HIDE DEF id
  <2>4. q \in Request
    BY <1>1, <2>1, Zenon DEF Request
  <2> HIDE DEF q
  <2>5. QED BY <1>1, <2>2, <2>3, <2>4, GoingOnKeepsSess
<1>5. CASE InsertBalance(c)
  <2> DEFINE q == [req[c] EXCEPT !.pc = "balance"]
  <2>1. q \in Request /\ q.pc \notin {"answering", "token"}
    BY <1>1 DEF Request, Pcs
  <2>2. req' = [req EXCEPT ![c] = q] /\ users' = users /\ balances' = balances
    BY <1>5 DEF InsertBalance
  <2> HIDE DEF q
  <2>3. QED BY <1>1, <2>1, <2>2, GoingOnKeepsSess
<1>6. CASE CommitUser(c)
  <2>1. /\ req[c].id \in Nat /\ req[c].pc = "balance"
        /\ \A row \in users : row.id # req[c].id
    BY <1>1, <1>6 DEF RegInv, Fits, OpenIsNew, Open, Request, CommitUser
  <2>2. \A i \in inactive : i.id # req[c].id
    BY <2>1 DEF SessInv, InactiveAreUsers
  <2>3. users \subseteq users' /\ balances \subseteq balances'
    BY <1>6 DEF CommitUser
  <2>4. CASE Returns(c, req[c].id)
    BY <1>1, <2>1, <2>2, <2>3, <2>4, ReturnKeepsSess
  <2>5. CASE Finish(c, 500, 0, FALSE)
    <3>1. PICK taken \in BOOLEAN : Finish(c, 500, 0, taken)
      BY <2>5
    <3>2. 0 \in Nat
      OBVIOUS
    <3>3. QED BY <1>1, <2>3, <3>1, <3>2, RefusalKeepsSess
  <2>6. QED BY <1>6, <2>4, <2>5 DEF CommitUser
<1>7. CASE InsertDuplicate(c) \/ RegisterFails(c) \/ LoginFails(c)
  <2>1. PICK taken \in BOOLEAN : Finish(c, 500, 0, taken)
    BY <1>7 DEF InsertDuplicate, RegisterFails, LoginFails
  <2>2. users' = users /\ balances' = balances /\ 0 \in Nat
    BY <1>7 DEF InsertDuplicate, RegisterFails, LoginFails
  <2>3. QED BY <1>1, <2>1, <2>2, RefusalKeepsSess
<1>8. CASE Timeout(c)
  <2>1. CASE req[c].pc = "answering"
    <3>1. PICK taken \in BOOLEAN : Finish(c, 503, 0, taken)
      BY <1>8, <2>1 DEF Timeout
    <3>2. users' = users /\ balances' = balances /\ 0 \in Nat
      BY <1>8 DEF Timeout
    <3>3. QED BY <1>1, <3>1, <3>2, RefusalKeepsSess
  <2>2. CASE req[c].pc # "answering"
    <3> DEFINE q == [req[c] EXCEPT !.late = TRUE]
    <3>1. q \in Request /\ q.pc # "answering" /\ q.late
      BY <1>1, <2>2 DEF Request
    <3>2. req' = [req EXCEPT ![c] = q] /\ users' = users /\ balances' = balances
      BY <1>8, <2>2 DEF Timeout
    <3> HIDE DEF q
    <3>3. QED BY <1>1, <3>1, <3>2, GoingOnKeepsSess
  <2>3. QED BY <2>1, <2>2
<1>9. QED
  BY <1>2, <1>3, <1>4, <1>5, <1>6, <1>7, <1>8 DEF HandlerStep

LEMMA LoginSess ==
  ASSUME RegInv, SessInv, NEW c \in Clients, LoginUser(c)
  PROVE  SessInv'
<1>1. UNCHANGED sessionVars /\ users' = users /\ balances' = balances /\ 0 \in Nat
  BY DEF LoginUser, GetUser
<1> DEFINE Out == \E row \in users : row.login = req[c].login /\ Deactivated(row.id)
<1>2. CASE Out
  <2>1. PICK taken \in BOOLEAN : Finish(c, 403, 0, taken)
    BY <1>2 DEF LoginUser
  <2>2. QED BY <1>1, <2>1, RefusalKeepsSess
<1>3. CASE ~Out
  <2>1. GetUser(c)
    BY <1>3 DEF LoginUser
  <2>2. CASE Finish(c, 404, 0, FALSE) \/ Finish(c, 401, 0, FALSE)
    <3>1. PICK code \in {404, 401}, taken \in BOOLEAN : Finish(c, code, 0, taken)
      BY <2>2
    <3>2. QED BY <1>1, <3>1, RefusalKeepsSess
  <2>3. CASE \E row \in users : row.login = req[c].login /\ Returns(c, row.id)
    <3>1. PICK row \in users : row.login = req[c].login /\ Returns(c, row.id)
      BY <2>3
    <3>2. row.id \in Nat
      BY DEF RegInv, Types, Row
    <3>3. \A i \in inactive : i.id # row.id
      BY <1>3, <3>1 DEF Deactivated
    <3>4. QED BY <1>1, <3>1, <3>2, <3>3, ReturnKeepsSess
  <2>4. QED BY <2>1, <2>2, <2>3 DEF GetUser
<1>4. QED BY <1>2, <1>3

\* The token is built, at most one hour after the request has seen its user
\* active.
LEMMA AuthSess ==
  ASSUME RegInv, SessInv, NEW c \in Clients, AddAuthCookie(c)
  PROVE  SessInv'
<1>1. /\ Types /\ req[c] \in Request /\ 200 \in Codes /\ hour \in Nat /\ Hours \in Nat
      /\ cookie[c].ends \in Nat /\ req[c].pc = "token"
      /\ UNCHANGED <<users, balances, hour, aged, cookie, inactive>>
  BY SessionsAssumption DEF RegInv, Types, SessInv, SessionTypes, AddAuthCookie,
    BuildTokenString, Codes, Hours
<1>2. PICK t \in Nat : t = hour + Hours
  BY <1>1
<1>3. token' = [token EXCEPT ![c] = t] /\ req[c].id \in Nat
  BY <1>1, <1>2 DEF AddAuthCookie, Hours, Request
<1>4. PICK taken \in BOOLEAN : Finish(c, 200, req[c].id, taken)
  BY DEF AddAuthCookie, BuildTokenString
<1>5. PICK q \in Request :
        /\ req' = [req EXCEPT ![c] = q] /\ q.pc = "answering"
        /\ q.code = 200 => q.id = req[c].id /\ ~req[c].late
  BY <1>1, <1>3, <1>4, FinishIs
<1>6. ASSUME NEW d \in Clients
      PROVE  /\ req'[d] = IF d = c THEN q ELSE req[d]
             /\ token'[d] = IF d = c THEN t ELSE token[d]
  BY <1>3, <1>5 DEF RegInv, Types, SessInv, SessionTypes
<1>7. SessionTypes' /\ InactiveAreUsers'
  BY <1>1, <1>3 DEF SessInv, SessionTypes, InactiveAreUsers
<1>8. ASSUME HasToken(q), NEW i \in inactive, i.id = q.id
      PROVE  t <= i.since + Hours + LoginSpan
  <2>1. hour <= i.since + LoginSpan
    BY <1>1, <1>5, <1>8 DEF HasToken, SessInv, InFlight
  <2>2. i.since \in Nat /\ LoginSpan \in Nat
    BY DEF SessInv, SessionTypes, LoginSpan
  <2>3. QED BY <1>1, <1>2, <2>1, <2>2
<1>9. TokenFits(q, t, cookie[c], hour, inactive)
  BY <1>1, <1>2, <1>8 DEF TokenFits, SessInv, CookieFits, InTime
<1>10. InFlight(q, c \in aged, hour, inactive)
  BY <1>5 DEF InFlight
<1>11. \A d \in Clients : /\ TokenFits(req'[d], token'[d], cookie[d], hour, inactive)
                           /\ InFlight(req'[d], d \in aged, hour, inactive)
  BY <1>6, <1>9, <1>10 DEF SessInv
<1>12. QED
  BY <1>1, <1>7, <1>11 DEF SessInv

LEMMA IdleHasNoToken == ~HasToken(Idle) /\ Idle.pc # "token"
BY DEF HasToken, Idle

\* What SetCookie does to the cookies.
LEMMA CookieBecomes ==
  ASSUME RegInv, SessInv, NEW c \in Clients, SetCookie(c)
  PROVE  \E k \in [id : Nat, ends : Nat] :
           /\ cookie' = [cookie EXCEPT ![c] = k]
           /\ CookieFits(k, balances, hour, inactive)
           /\ cookie[c].ends <= k.ends
<1>1. req[c] \in Request /\ req[c].pc = "answering" /\ token[c] \in Nat /\ hour \in Nat
      /\ Hours \in Nat /\ cookie[c] \in [id : Nat, ends : Nat]
  BY SessionsAssumption DEF RegInv, Types, SessInv, SessionTypes, SetCookie, Answer, Hours
<1>2. CASE req[c].code = 200
  <2> DEFINE k == [id |-> req[c].id, ends |-> token[c]]
  <2>1. cookie' = [cookie EXCEPT ![c] = k]
    BY <1>2 DEF SetCookie
  <2>2. TokenFits(req[c], token[c], cookie[c], hour, inactive) /\ HasToken(req[c])
    BY <1>1, <1>2 DEF SessInv, HasToken
  <2>3. req[c].id \in balances
    <3>1. RowOf(req[c]) \in users /\ RowOf(req[c]).id = req[c].id
      BY <1>1, <1>2 DEF RegInv, Fits, AnswerHasRow, RowOf
    <3>2. QED BY <3>1 DEF RegInv, UserHasBalance
  <2>4. k \in [id : Nat, ends : Nat] /\ k.id = req[c].id /\ k.ends = token[c]
    BY <1>1 DEF Request
  <2> HIDE DEF k
  <2>5. CookieFits(k, balances, hour, inactive) /\ cookie[c].ends <= k.ends
    BY <2>2, <2>3, <2>4 DEF CookieFits, TokenFits
  <2>6. QED BY <2>1, <2>4, <2>5
<1>3. CASE req[c].code # 200
  <2>1. cookie' = [cookie EXCEPT ![c] = cookie[c]]
    BY <1>3 DEF SetCookie, SessInv, SessionTypes
  <2>2. CookieFits(cookie[c], balances, hour, inactive) /\ cookie[c].ends <= cookie[c].ends
    BY <1>1 DEF SessInv
  <2>3. QED BY <1>1, <2>1, <2>2
<1>4. QED BY <1>2, <1>3

LEMMA CookieSess ==
  ASSUME RegInv, SessInv, NEW c \in Clients, SetCookie(c)
  PROVE  SessInv'
<1>1. /\ users' = users /\ balances' = balances /\ hour' = hour /\ inactive' = inactive
      /\ req' = [req EXCEPT ![c] = Idle] /\ token' = [token EXCEPT ![c] = 0]
      /\ aged' = aged \ {c}
  BY DEF SetCookie, Answer
<1>2. PICK k \in [id : Nat, ends : Nat] :
        /\ cookie' = [cookie EXCEPT ![c] = k]
        /\ CookieFits(k, balances, hour, inactive)
  BY CookieBecomes
<1>3. SessionTypes' /\ InactiveAreUsers'
  BY <1>1, <1>2 DEF SessInv, SessionTypes, InactiveAreUsers
<1>4. ASSUME NEW d \in Clients
      PROVE  /\ cookie'[d] = IF d = c THEN k ELSE cookie[d]
             /\ req'[d] = IF d = c THEN Idle ELSE req[d]
             /\ token'[d] = IF d = c THEN 0 ELSE token[d]
  BY <1>1, <1>2 DEF SessInv, SessionTypes, RegInv, Types
<1>5. \A d \in Clients : CookieFits(cookie'[d], balances, hour, inactive)
  BY <1>2, <1>4 DEF SessInv
<1>6. \A d \in Clients : /\ TokenFits(req'[d], token'[d], cookie'[d], hour, inactive)
                          /\ InFlight(req'[d], d \in aged', hour, inactive)
  BY <1>1, <1>4, IdleHasNoToken DEF SessInv, TokenFits, InFlight
<1>7. QED
  BY <1>1, <1>3, <1>5, <1>6 DEF SessInv

LEMMA RestartSess ==
  ASSUME RegInv, SessInv, Restart
  PROVE  SessInv'
<1>1. \A c \in Clients : req'[c] = Idle
  BY DEF Restart, Crash
<1>2. SessionTypes' /\ InactiveAreUsers'
  BY DEF Restart, Crash, SessInv, SessionTypes, InactiveAreUsers
<1>3. \A c \in Clients : /\ TokenFits(req'[c], token'[c], cookie'[c], hour', inactive')
                          /\ InFlight(req'[c], c \in aged', hour', inactive')
  BY <1>1, IdleHasNoToken DEF TokenFits, InFlight
<1>4. QED
  BY <1>2, <1>3 DEF SessInv, Restart, Crash

LEMMA DeactivateSess ==
  ASSUME RegInv, SessInv, Deactivate
  PROVE  SessInv'
<1>1. PICK row \in users : inactive' = inactive \cup {[id |-> row.id, since |-> hour]}
  BY DEF Deactivate
<1>2. UNCHANGED <<users, balances, req, hour, aged, token, cookie>>
  BY DEF Deactivate, vars
<1>3. row.id \in Nat /\ hour \in Nat /\ Hours \in Nat
  BY SessionsAssumption DEF RegInv, Types, Row, SessInv, SessionTypes, Hours
<1>4. SessionTypes' /\ InactiveAreUsers'
  BY <1>1, <1>2, <1>3 DEF SessInv, SessionTypes, InactiveAreUsers
<1>5. ASSUME NEW id, NEW ends \in Nat, ends <= hour + Hours, InTime(id, ends, inactive)
      PROVE  InTime(id, ends, inactive')
  BY <1>1, <1>3, <1>5 DEF InTime, LoginSpan
<1>6. ASSUME NEW c \in Clients
      PROVE  /\ CookieFits(cookie[c], balances, hour, inactive')
             /\ TokenFits(req[c], token[c], cookie[c], hour, inactive')
             /\ InFlight(req[c], c \in aged, hour, inactive')
  <2>1. cookie[c].ends \in Nat /\ token[c] \in Nat
    BY DEF SessInv, SessionTypes
  <2>2. /\ CookieFits(cookie[c], balances, hour, inactive)
        /\ TokenFits(req[c], token[c], cookie[c], hour, inactive)
        /\ InFlight(req[c], c \in aged, hour, inactive)
    BY DEF SessInv
  <2>3. InFlight(req[c], c \in aged, hour, inactive')
    BY <1>1, <1>3, <2>2 DEF InFlight, LoginSpan
  <2>4. QED BY <1>5, <2>1, <2>2, <2>3 DEF CookieFits, TokenFits
<1>7. QED
  BY <1>2, <1>4, <1>6 DEF SessInv

LEMMA HourSess ==
  ASSUME RegInv, SessInv, Hour
  PROVE  SessInv'
<1>1. /\ hour' = hour + 1 /\ hour \in Nat /\ Hours \in Nat
      /\ aged' = {c \in Clients : InHandler(c)} /\ \A c \in aged : ~InHandler(c)
      /\ UNCHANGED <<users, balances, req, token, cookie, inactive>>
  BY SessionsAssumption DEF Hour, vars, SessInv, SessionTypes, Hours
<1>2. SessionTypes' /\ InactiveAreUsers'
  BY <1>1 DEF SessInv, SessionTypes, InactiveAreUsers
<1>3. ASSUME NEW c \in Clients
      PROVE  /\ CookieFits(cookie[c], balances, hour', inactive)
             /\ TokenFits(req[c], token[c], cookie[c], hour', inactive)
  <2>1. cookie[c].ends \in Nat /\ token[c] \in Nat
    BY DEF SessInv, SessionTypes
  <2>2. QED BY <1>1, <2>1 DEF SessInv, CookieFits, TokenFits
<1>4. ASSUME NEW c \in Clients, req[c].pc = "token", ~req[c].late,
             NEW i \in inactive, i.id = req[c].id
      PROVE  c \in aged' /\ hour' <= i.since + LoginSpan
  <2>1. c \in aged' /\ c \notin aged
    BY <1>1, <1>4 DEF InHandler
  <2>2. hour <= i.since /\ i.since \in Nat
    BY <1>4, <2>1 DEF SessInv, SessionTypes, InFlight
  <2>3. QED BY <1>1, <2>1, <2>2 DEF LoginSpan
<1>5. \A c \in Clients : InFlight(req[c], c \in aged', hour', inactive)
  BY <1>4 DEF InFlight
<1>6. QED
  BY <1>1, <1>2, <1>3, <1>5 DEF SessInv

LEMMA SessStep == RegInv /\ SessInv /\ [SessionsNext]_allVars => SessInv'
<1> SUFFICES ASSUME RegInv, SessInv, [SessionsNext]_allVars PROVE SessInv'
  OBVIOUS
<1>1. CASE UNCHANGED allVars
  BY <1>1 DEF allVars, sessionVars, vars, SessInv, SessionTypes, InactiveAreUsers
<1>2. QED
  BY <1>1, HandlerSess, LoginSess, AuthSess, CookieSess, RestartSess, DeactivateSess, HourSess
    DEF SessionsNext

LEMMA SessInvariant == SessionsSpec => [](RegInv /\ SessInv)
<1>1. QED
  BY SessInit, SessStep, SessionsRegistration, PTL DEF SessionsSpec
-----------------------------------------------------------------------------
\* Whoever the middleware lets in has a balance row: no request of a client that
\* is logged in ends in the 404 of GetUserBalance.
THEOREM AdmittedAreUsers == SessionsSpec => []AdmittedHasBalance
<1>1. SessInv => AdmittedHasBalance
  BY DEF SessInv, CookieFits, AdmittedHasBalance, BalanceCode, GetUserID
<1>2. QED
  BY <1>1, SessInvariant, PTL

\* A user that is deactivated is out when the last token it may have has ended:
\* the one of a login that had read its row as active.
THEOREM DeactivatedGetsOut == SessionsSpec => []DeactivatedIsOut
<1>1. RegInv /\ SessInv => DeactivatedIsOut
  <2> SUFFICES ASSUME RegInv, SessInv, NEW c \in Clients, NEW i \in inactive,
                      GetUserID(c) = i.id
               PROVE  hour < i.since + Hours + LoginSpan
    BY DEF DeactivatedIsOut, Hours
  <2>1. i.id # 0
    BY DEF RegInv, Types, Row, SessInv, InactiveAreUsers
  <2>2. hour < cookie[c].ends /\ cookie[c].id = i.id
    BY <2>1 DEF GetUserID
  <2>3. cookie[c].ends <= i.since + Hours + LoginSpan
    BY <2>2 DEF SessInv, CookieFits, InTime
  <2>4. /\ hour \in Nat /\ cookie[c].ends \in Nat /\ i.since \in Nat
        /\ Hours \in Nat /\ LoginSpan \in Nat
    BY SessionsAssumption DEF SessInv, SessionTypes, Hours, LoginSpan
  <2>5. QED BY <2>2, <2>3, <2>4
<1>2. QED
  BY <1>1, SessInvariant, PTL

\* No step makes a session end earlier.
THEOREM SessionsAreKept == SessionsSpec => SessionIsKept
<1>1. RegInv /\ SessInv /\ [SessionsNext]_allVars =>
        [\A c \in Clients : cookie'[c].ends >= cookie[c].ends]_allVars
  <2> SUFFICES ASSUME RegInv, SessInv, SessionsNext, NEW d \in Clients
               PROVE  cookie'[d].ends >= cookie[d].ends
    OBVIOUS
  <2>1. cookie[d].ends \in Nat
    BY DEF SessInv, SessionTypes
  <2>2. ASSUME NEW c \in Clients, SetCookie(c)
        PROVE  cookie'[d].ends >= cookie[d].ends
    <3>1. PICK k \in [id : Nat, ends : Nat] : /\ cookie' = [cookie EXCEPT ![c] = k]
                                             /\ cookie[c].ends <= k.ends
      BY <2>2, CookieBecomes
    <3>2. QED BY <2>1, <3>1 DEF SessInv, SessionTypes
  <2>3. CASE cookie' = cookie
    BY <2>1, <2>3
  <2>4. QED
    BY <2>2, <2>3 DEF SessionsNext, HandlerStep, LoginUser, AddAuthCookie, Restart,
      Deactivate, Hour, sessionVars
<1>2. QED
  BY <1>1, SessInvariant, PTL DEF SessionsSpec, SessionIsKept
=============================================================================
