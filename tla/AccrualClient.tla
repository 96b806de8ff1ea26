--------------------------- MODULE AccrualClient ---------------------------
(***************************************************************************)
(* GetOrderInfo: what a request to the accrual system ends with, and what   *)
(* the client makes of it.  Code 0 stands for no response: the address does *)
(* not parse, the connection fails, or the timeout of the client is over.   *)
(***************************************************************************)
EXTENDS Integers

CONSTANTS
  RetryAfter,  \* numbers that the header Retry-After of a 429 may hold
  NotANumber   \* any other value of it, or no header

ASSUME ClientAssumption == RetryAfter \subseteq Nat /\ NotANumber \notin Int

\* The status is that of the body, "unreadable" if it does not decode.
OrderStatus == {"REGISTERED", "INVALID", "PROCESSING", "PROCESSED"}
Response == [code : {0, 200, 204, 429, 500}, status : OrderStatus \cup {"unreadable"},
             retryAfter : RetryAfter \cup {NotANumber}]

IsFinal(status) == status \in {"INVALID", "PROCESSED"}

\* GetOrderInfo returns an OrderInfo with a final status.
HasOutcome(resp) == resp.code = 200 /\ IsFinal(resp.status)

\* GetOrderInfo returns a RateLimitError.
IsRateLimit(resp) == resp.code = 429

\* The Timeout of the RateLimitError: a Retry-After that Atoi refuses is 0.
Timeout(resp) == IF resp.retryAfter = NotANumber THEN 0 ELSE resp.retryAfter
=============================================================================
