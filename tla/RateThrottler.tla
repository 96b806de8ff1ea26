--------------------------- MODULE RateThrottler ---------------------------
(***************************************************************************)
(* RateThrottler: the workers of the updater share one moment before which  *)
(* no request may be sent to the accrual system.  A worker reads it under   *)
(* the lock and compares it with the clock after it has given the lock      *)
(* back; an answer 429 moves it.  Time is a counter of seconds that starts  *)
(* at 1, and the zero time.Time is 0.                                       *)
(***************************************************************************)
EXTENDS Integers

CONSTANTS
  Workers,
  MaxTime  \* bound: the clock stops here, and no pause reaches it

ASSUME ThrottlerAssumption == MaxTime \in Nat \ {0}

VARIABLES
  now,        \* time.Now()
  waitUntil,  \* the field of RateThrottler
  next,       \* what each worker has read of waitUntil
  until,      \* the moment each worker computed from its last 429
  limit,      \* history: the latest moment any 429 has asked to wait for
  early       \* history: the requests sent in spite of it, since it was last moved

throttlerVars == <<now, waitUntil, next, until, limit, early>>

ThrottlerInit == /\ now = 1 /\ waitUntil = 0
                 /\ next = [w \in Workers |-> 0]
                 /\ until = [w \in Workers |-> 0]
                 /\ limit = 0 /\ early = 0

Tick == /\ now < MaxTime
        /\ now' = now + 1
        /\ UNCHANGED <<waitUntil, next, until, limit, early>>

\* The read under RLock.
ReadLimit(w) == /\ next' = [next EXCEPT ![w] = waitUntil]
                /\ UNCHANGED <<now, waitUntil, until, limit, early>>

\* time.Now().After(next)
Allowed(w) == now > next[w]

\* The timer of the select has fired.
Awake(w) == now >= next[w]

\* GetOrderInfo sends its request.
SendRequest == /\ early' = IF now <= limit THEN early + 1 ELSE early
               /\ UNCHANGED <<now, waitUntil, next, until, limit>>

\* UpdateNextRequestAllowed adds the timeout of a 429 to the clock before it
\* takes the lock.
TooManyRequests(w, timeout) ==
  /\ now + timeout < MaxTime
  /\ until' = [until EXCEPT ![w] = now + timeout]
  /\ UNCHANGED <<now, waitUntil, next, limit, early>>

\* The later of two moments.
Later(a, b) == IF b > a THEN b ELSE a

\* Mutant: the field is overwritten without the comparison.
Overwritten(w) ==
  /\ waitUntil' = until[w]
  /\ limit' = Later(limit, until[w])
  /\ early' = IF until[w] > limit THEN 0 ELSE early
  /\ UNCHANGED <<now, next, until>>

\* The rest of it under the lock: the moment only ever moves forward.
MoveLimit(w) ==
  /\ waitUntil' = Later(waitUntil, until[w])
  /\ limit' = Later(limit, until[w])
  /\ early' = IF until[w] > limit THEN 0 ELSE early
  /\ UNCHANGED <<now, next, until>>
=============================================================================
