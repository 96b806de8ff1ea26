---------------------------- MODULE Registration ----------------------------
(***************************************************************************)
(* POST /api/user/register and /api/user/login: RegisterUser looks for the  *)
(* login in one statement and creates the user and its balance row in a     *)
(* transaction later; http.TimeoutHandler may answer first.  A member of    *)
(* Clients is one request in flight at a time.  A password stands for its   *)
(* bcrypt hash, and a token for the user id it carries.                     *)
(***************************************************************************)
EXTENDS Integers, FiniteSets

CONSTANTS
  Clients,    \* concurrent requests
  Logins, Passwords,
  MaxUserId,  \* bound: transactions that draw an id
  None

VARIABLES
  users,     \* table users: [id, login, password]
  balances,  \* user_id of the rows of table balance
  lastId,    \* the identity sequence of users; a rollback does not give an id back
  req,       \* the requests in flight
  sessions   \* history: [login, password, id] of every token a client was given

vars == <<users, balances, lastId, req, sessions>>

Idle == [pc |-> "idle", login |-> None, password |-> None, id |-> 0, code |-> 0,
         taken |-> FALSE, late |-> FALSE]

Init == /\ users = {} /\ balances = {} /\ lastId = 0
        /\ req = [c \in Clients |-> Idle]
        /\ sessions = {}

Taken(login) == \E row \in users : row.login = login

\* The handler has its answer for the client, unless the client has a 503
\* already; taken says that the request failed because the login is in use.
\* Only a 200 and a 409 say something of the request.
Finish(c, code, id, taken) ==
  LET said == IF req[c].late THEN 503 ELSE code
      from == IF said \in {200, 409} THEN req[c] ELSE Idle
  IN  req' = [req EXCEPT ![c] =
        [pc |-> "answering", login |-> from.login, password |-> from.password,
         id |-> IF said = 200 THEN id ELSE 0, code |-> said, taken |-> taken,
         late |-> FALSE]]

\* The service returns the id of the user to the handler, which has no token yet.
Returns(c, id) == req' = [req EXCEPT ![c] = [req[c] EXCEPT !.pc = "token", !.id = id]]

Register(c) ==
  /\ req[c].pc = "idle"
  /\ \E l \in Logins, p \in Passwords :
       req' = [req EXCEPT ![c] = [Idle EXCEPT !.pc = "check", !.login = l, !.password = p]]
  /\ UNCHANGED <<users, balances, lastId, sessions>>

\* Mutant: a login that is not there is reported as taken.
CheckInverted(c) ==
  /\ req[c].pc = "check"
  /\ ~req[c].late
  /\ IF ~Taken(req[c].login)
     THEN Finish(c, 409, 0, TRUE)
     ELSE req' = [req EXCEPT ![c] = [req[c] EXCEPT !.pc = "begin"]]
  /\ UNCHANGED <<users, balances, lastId, sessions>>

CheckLogin(c) ==
  /\ req[c].pc = "check"
  /\ ~req[c].late
  /\ IF Taken(req[c].login)
     THEN Finish(c, 409, 0, TRUE)
     ELSE req' = [req EXCEPT ![c] = [req[c] EXCEPT !.pc = "begin"]]
  /\ UNCHANGED <<users, balances, lastId, sessions>>

\* The unique index on login: an insert waits for the transaction that has
\* inserted the login and not ended yet.
LoginPending(login) == \E c \in Clients :
  req[c].login = login /\ req[c].pc \in {"user", "balance"}

\* Mutant: no unique index on login.
InsertAnyUser(c) ==
  /\ req[c].pc = "begin"
  /\ ~req[c].late
  /\ lastId < MaxUserId
  /\ lastId' = lastId + 1
  /\ req' = [req EXCEPT ![c] = [req[c] EXCEPT !.pc = "user", !.id = lastId + 1]]
  /\ UNCHANGED <<users, balances, sessions>>

\* BEGIN and INSERT INTO users ... RETURNING id.
InsertUser(c) ==
  /\ req[c].pc = "begin"
  /\ ~req[c].late
  /\ ~LoginPending(req[c].login)
  /\ ~Taken(req[c].login)
  /\ lastId < MaxUserId
  /\ lastId' = lastId + 1
  /\ req' = [req EXCEPT ![c] = [req[c] EXCEPT !.pc = "user", !.id = lastId + 1]]
  /\ UNCHANGED <<users, balances, sessions>>

\* The same statement when the login has been taken since CheckLogin: the
\* unique violation is an error like any other.
InsertDuplicate(c) ==
  /\ req[c].pc = "begin"
  /\ ~req[c].late
  /\ Taken(req[c].login)
  /\ lastId < MaxUserId
  /\ lastId' = lastId + 1
  /\ Finish(c, 500, 0, TRUE)
  /\ UNCHANGED <<users, balances, sessions>>

\* Mutant: the two inserts are not in one transaction.
InsertBalanceAlone(c) ==
  /\ req[c].pc = "user"
  /\ ~req[c].late
  /\ users' = users \cup {[id |-> req[c].id, login |-> req[c].login,
                           password |-> req[c].password]}
  /\ req' = [req EXCEPT ![c] = [req[c] EXCEPT !.pc = "balance"]]
  /\ UNCHANGED <<balances, lastId, sessions>>

InsertBalance(c) ==
  /\ req[c].pc = "user"
  /\ ~req[c].late
  /\ req' = [req EXCEPT ![c] = [req[c] EXCEPT !.pc = "balance"]]
  /\ UNCHANGED <<users, balances, lastId, sessions>>

\* The commit takes effect: RegisterUser returns the id, or an error when the
\* answer of the server is lost (500).
CommitUser(c) ==
  /\ req[c].pc = "balance"
  /\ users' = users \cup {[id |-> req[c].id, login |-> req[c].login,
                           password |-> req[c].password]}
  /\ balances' = balances \cup {req[c].id}
  /\ Returns(c, req[c].id) \/ Finish(c, 500, 0, FALSE)
  /\ UNCHANGED <<lastId, sessions>>

\* A statement or the hashing fails: connection, cancelled context.
RegisterFails(c) ==
  /\ req[c].pc \in {"check", "begin", "user", "balance"}
  /\ Finish(c, 500, 0, FALSE)
  /\ UNCHANGED <<users, balances, lastId, sessions>>

Login(c) ==
  /\ req[c].pc = "idle"
  /\ \E l \in Logins, p \in Passwords :
       req' = [req EXCEPT ![c] = [Idle EXCEPT !.pc = "get", !.login = l, !.password = p]]
  /\ UNCHANGED <<users, balances, lastId, sessions>>

\* Mutant: LoginUser does not compare the passwords.
AnyPassword(c) ==
  /\ req[c].pc = "get"
  /\ ~req[c].late
  /\ \/ /\ ~Taken(req[c].login)
        /\ Finish(c, 404, 0, FALSE)
     \/ \E row \in users : /\ row.login = req[c].login
                           /\ Returns(c, row.id)
  /\ UNCHANGED <<users, balances, lastId, sessions>>

\* GetUser reads the row of an active user; LoginUser compares the passwords of
\* what was read.  Inactive users are in Sessions.
GetUser(c) ==
  /\ req[c].pc = "get"
  /\ ~req[c].late
  /\ \/ /\ ~Taken(req[c].login)
        /\ Finish(c, 404, 0, FALSE)
     \/ \E row \in users :
          /\ row.login = req[c].login
          /\ IF row.password = req[c].password THEN Returns(c, row.id)
                                              ELSE Finish(c, 401, 0, FALSE)
  /\ UNCHANGED <<users, balances, lastId, sessions>>

LoginFails(c) ==
  /\ req[c].pc = "get"
  /\ Finish(c, 500, 0, FALSE)
  /\ UNCHANGED <<users, balances, lastId, sessions>>

\* addAuthCookie, after the service has returned: nothing is read again, and a
\* token can be signed without the context of the request.
BuildTokenString(c) ==
  /\ req[c].pc = "token"
  /\ Finish(c, 200, req[c].id, FALSE)
  /\ UNCHANGED <<users, balances, lastId, sessions>>

\* http.TimeoutHandler answers 503 and cancels the context of the request.
Timeout(c) ==
  /\ req[c].pc # "idle"
  /\ ~req[c].late /\ req[c].code # 503
  /\ IF req[c].pc = "answering" THEN Finish(c, 503, 0, FALSE)
     ELSE req' = [req EXCEPT ![c] = [req[c] EXCEPT !.late = TRUE]]
  /\ UNCHANGED <<users, balances, lastId, sessions>>

\* The handler returns; with a 200 the client has a token for the id.
Answer(c) ==
  LET q == req[c] IN
  /\ q.pc = "answering"
  /\ req' = [req EXCEPT ![c] = Idle]
  /\ sessions' = IF q.code = 200
       THEN sessions \cup {[login |-> q.login, password |-> q.password, id |-> q.id]}
       ELSE sessions
  /\ UNCHANGED <<users, balances, lastId>>

\* The process ends: open transactions are rolled back.
Crash == /\ req' = [c \in Clients |-> Idle]
         /\ UNCHANGED <<users, balances, lastId, sessions>>

Next == \/ \E c \in Clients :
             \/ Register(c)      \/ CheckLogin(c)    \/ InsertUser(c)
             \/ InsertDuplicate(c) \/ InsertBalance(c) \/ CommitUser(c)
             \/ RegisterFails(c) \/ Login(c)         \/ GetUser(c)
             \/ LoginFails(c)    \/ BuildTokenString(c)
             \/ Timeout(c)       \/ Answer(c)
        \/ Crash

Spec == Init /\ [][Next]_vars
-----------------------------------------------------------------------------
\* Every committed user has its balance row and every row its user, whatever
\* fails between the two inserts: AddWithdraw and the credit of an order rely
\* on it.
UserHasBalance == {row.id : row \in users} = balances

\* A login and an id belong to one user, however many registrations race.
OneUserPerLogin ==
  \A a, b \in users : a.login = b.login \/ a.id = b.id => a = b

\* A token names the user with the login and the password that were sent for
\* it, for ever.
TokenNamesUser == sessions \subseteq users

\* 409 is told only of a login that is in use.
ConflictIsTrue ==
  \A c \in Clients : req[c].pc = "answering" /\ req[c].code = 409 => Taken(req[c].login)

\* A registration that fails because its login is in use is answered 409, also
\* when the login was taken after CheckLogin.
TakenIsConflict ==
  \A c \in Clients : req[c].pc = "answering" /\ req[c].taken /\ req[c].code # 503
                       => req[c].code = 409
=============================================================================
