------------------------------ MODULE Sessions ------------------------------
(***************************************************************************)
(* The tokens that Register and Login give, and what UserAuthMiddleware and *)
(* the balance request make of them.  A token is signed with a key of the   *)
(* configuration and carries an id and its end; the server keeps nothing of *)
(* it, so a token outlives a crash, a newer token and the deactivation of   *)
(* its user.  Time is a counter of hours that starts at 1; a request has    *)
(* five seconds, so the clock moves once at most while it runs.             *)
(***************************************************************************)
EXTENDS Registration

CONSTANTS
  TokenExpireHours,
  MaxHours  \* bound: the clock stops here

ASSUME SessionsAssumption == TokenExpireHours \in Nat \ {0} /\ MaxHours \in Nat

VARIABLES
  hour,      \* time.Now()
  aged,      \* the clients whose request was there when the clock last moved
  token,     \* the end of the token that the handler of a client has built
  cookie,    \* the cookie of each client: [id, ends]
  inactive   \* users with active = FALSE: [id, since]

sessionVars == <<hour, aged, token, cookie, inactive>>
allVars == <<vars, sessionVars>>

NoCookie == [id |-> 0, ends |-> 0]

SessionsInit == /\ Init
                /\ hour = 1
                /\ aged = {}
                /\ token = [c \in Clients |-> 0]
                /\ cookie = [c \in Clients |-> NoCookie]
                /\ inactive = {}

Deactivated(id) == \E i \in inactive : i.id = id

\* The request of c is with its handler, and nothing has been answered.
InHandler(c) == req[c].pc \notin {"idle", "answering"} /\ ~req[c].late

\* A step of a handler that does not look at the clock.
HandlerStep(c) ==
  /\ \/ Register(c)      \/ CheckLogin(c) \/ InsertUser(c)    \/ InsertDuplicate(c)
     \/ InsertBalance(c) \/ CommitUser(c) \/ RegisterFails(c) \/ Login(c)
     \/ LoginFails(c)    \/ Timeout(c)
  /\ UNCHANGED sessionVars

\* Mutant: LoginUser does not look at the column active.
LoginAnyUser(c) == GetUser(c) /\ UNCHANGED sessionVars

\* LoginUser: a user that is inactive in the row read is refused before its
\* password is compared.
LoginUser(c) ==
  /\ IF \E row \in users : row.login = req[c].login /\ Deactivated(row.id)
     THEN /\ req[c].pc = "get"
          /\ ~req[c].late
          /\ Finish(c, 403, 0, FALSE)
          /\ UNCHANGED <<users, balances, lastId, sessions>>
     ELSE GetUser(c)
  /\ UNCHANGED sessionVars

\* BuildTokenString takes the time of now, whatever has become of the user.
AddAuthCookie(c) ==
  /\ BuildTokenString(c)
  /\ token' = [token EXCEPT ![c] = hour + TokenExpireHours]
  /\ UNCHANGED <<hour, aged, cookie, inactive>>

\* Mutant: the cookie is set before the outcome is known.
CookieFirst(c) ==
  /\ Answer(c)
  /\ cookie' = [cookie EXCEPT ![c] = [id |-> req[c].id, ends |-> token[c]]]
  /\ token' = [token EXCEPT ![c] = 0]
  /\ aged' = aged \ {c}
  /\ UNCHANGED <<hour, inactive>>

\* With a 200 the cookie is replaced; other answers leave it as it is.
SetCookie(c) ==
  /\ Answer(c)
  /\ cookie' = IF req[c].code = 200
       THEN [cookie EXCEPT ![c] = [id |-> req[c].id, ends |-> token[c]]]
       ELSE cookie
  /\ token' = [token EXCEPT ![c] = 0]
  /\ aged' = aged \ {c}
  /\ UNCHANGED <<hour, inactive>>

\* The operator's UPDATE of the column active; no code does it.
Deactivate == /\ \E row \in users :
                   /\ ~Deactivated(row.id)
                   /\ inactive' = inactive \cup {[id |-> row.id, since |-> hour]}
              /\ UNCHANGED <<vars, hour, aged, token, cookie>>

\* The clock moves on; a request that was there when it moved before has had
\* its five seconds, and is answered 503 or done.
Hour == /\ hour < MaxHours
        /\ \A c \in aged : ~InHandler(c)
        /\ hour' = hour + 1
        /\ aged' = {c \in Clients : InHandler(c)}
        /\ UNCHANGED <<vars, token, cookie, inactive>>

\* The process ends; the clients have their cookies.
Restart == /\ Crash
           /\ token' = [c \in Clients |-> 0]
           /\ aged' = {}
           /\ UNCHANGED <<hour, cookie, inactive>>

SessionsNext == \/ \E c \in Clients : \/ HandlerStep(c)   \/ LoginUser(c)
                                     \/ AddAuthCookie(c) \/ SetCookie(c)
                \/ Restart
                \/ Deactivate
                \/ Hour

SessionsSpec == SessionsInit /\ [][SessionsNext]_allVars
-----------------------------------------------------------------------------
\* Mutant: the claims are read without their check.
ParseUnverified(c) == cookie[c].id

\* GetUserID: the id of the token, or 0 when it is refused.
GetUserID(c) == IF hour < cookie[c].ends THEN cookie[c].id ELSE 0

\* The code of GET /api/user/balance with the cookie of c.
BalanceCode(c) ==
  IF GetUserID(c) = 0 THEN 401 ELSE IF GetUserID(c) \in balances THEN 200 ELSE 404

\* A client that is let in has a committed user with a balance row: the 404 of
\* GetUserBalance never happens, whatever was rolled back, lost or timed out.
AdmittedHasBalance == \A c \in Clients : BalanceCode(c) # 404

\* How long after the look at active a login may still build its token: less
\* than the hour in which the clock moves once.
LoginSpan == 1

\* The middleware does not look at active, and a login that has read the row
\* before the deactivation builds its token after it.  Yet a deactivated user is
\* out when the life of a token and the span of a login have passed: the logins
\* that come later get none, and those under way none that lasts longer.
DeactivatedIsOut ==
  \A c \in Clients, i \in inactive :
    GetUserID(c) = i.id => hour < i.since + TokenExpireHours + LoginSpan

\* A failed login, a timeout or a crash never ends a session, and a new token
\* never ends before the one it replaces.
SessionIsKept ==
  [][\A c \in Clients : cookie'[c].ends >= cookie[c].ends]_allVars
=============================================================================
