------------------------------ MODULE Updater ------------------------------
(***************************************************************************)
(* The goroutines of the updater: Run, which polls the orders, sends them   *)
(* through the channel and waits for the workers with a WaitGroup, and the  *)
(* workers.  What the jobs do to the tables is in Accruals; here an order   *)
(* has no identity, and the calls to the repository and to the accrual      *)
(* system are what may succeed, fail or panic.                              *)
(***************************************************************************)
EXTENDS RateThrottler, AccrualClient, FiniteSets

CONSTANT Failures  \* whether calls to the database may fail

ASSUME UpdaterAssumption == /\ IsFiniteSet(Workers) /\ Workers # {}
                            /\ Failures \in BOOLEAN

Capacity == 2 * Cardinality(Workers)  \* of the channel, and of a batch

VARIABLES
  ctxDone,   \* the context of the process is cancelled
  run,       \* where Run is
  todo,      \* orders of the batch that Run has not sent yet
  ch,        \* orders in the channel
  closed,    \* the channel is closed
  wg,        \* the counter of the WaitGroup
  work,      \* where each worker is
  panicked   \* a goroutine panicked: the process has ended

updaterVars == <<ctxDone, run, todo, ch, closed, wg, work, panicked>>
vars == <<updaterVars, throttlerVars>>

Init == /\ ctxDone = FALSE /\ run = "select" /\ todo = 0
        /\ ch = 0 /\ closed = FALSE /\ wg = 0
        /\ work = [w \in Workers |-> "receive"]
        /\ panicked = FALSE
        /\ ThrottlerInit

\* main cancels the context: a signal, or the failure of another goroutine.
Cancel == /\ ~ctxDone
          /\ ctxDone' = TRUE
          /\ UNCHANGED <<run, todo, ch, closed, wg, work, panicked, throttlerVars>>
-----------------------------------------------------------------------------
\* Mutant: Run returns without closing the channel.
ReturnOnly == /\ run = "select"
              /\ ctxDone
              /\ run' = "returned"
              /\ UNCHANGED <<ctxDone, todo, ch, closed, wg, work, panicked, throttlerVars>>

\* select takes ctx.Done(): Run returns, and its deferred call closes the channel.
Return == /\ run = "select"
          /\ ctxDone
          /\ run' = "returned"
          /\ closed' = TRUE
          /\ UNCHANGED <<ctxDone, todo, ch, wg, work, panicked, throttlerVars>>

\* Mutant: the limit of the query does not fit the channel.
PollOneMore == /\ run = "select"
               /\ ~ctxDone
               /\ \E n \in 0..(Capacity + 1) :
                    /\ todo' = n
                    /\ run' = IF n = 0 THEN "select" ELSE "send"
               /\ UNCHANGED <<ctxDone, ch, closed, wg, work, panicked, throttlerVars>>

\* select takes the timer: GetOrdersToProcess finds at most Capacity orders.
Poll == /\ run = "select"
        /\ ~ctxDone
        /\ \E n \in 0..Capacity :
             /\ todo' = n
             /\ run' = IF n = 0 THEN "select" ELSE "send"
        /\ UNCHANGED <<ctxDone, ch, closed, wg, work, panicked, throttlerVars>>

\* GetOrdersToProcess fails and returns nil: the error is logged and len(*orders)
\* dereferences the nil pointer.
PollPanics == /\ run = "select"
              /\ ctxDone \/ Failures
              /\ panicked' = TRUE
              /\ UNCHANGED <<ctxDone, run, todo, ch, closed, wg, work, throttlerVars>>

Send == /\ run = "send"
        /\ ch < Capacity
        /\ ch' = ch + 1
        /\ todo' = todo - 1
        /\ run' = "add"
        /\ UNCHANGED <<ctxDone, closed, wg, work, panicked, throttlerVars>>

\* Mutant: every order of the batch adds the orders that are left.
AddRest == /\ run = "add"
           /\ wg' = wg + todo + 1
           /\ run' = IF todo = 0 THEN "wait" ELSE "send"
           /\ UNCHANGED <<ctxDone, todo, ch, closed, work, panicked, throttlerVars>>

\* wg.Add(1), after the order has been sent.
Add == /\ run = "add"
       /\ wg' = wg + 1
       /\ run' = IF todo = 0 THEN "wait" ELSE "send"
       /\ UNCHANGED <<ctxDone, todo, ch, closed, work, panicked, throttlerVars>>

\* Mutant: Run polls again when the channel is empty.
WaitForChannel == /\ run = "wait"
                  /\ ch = 0
                  /\ run' = "select"
                  /\ UNCHANGED <<ctxDone, todo, ch, closed, wg, work, panicked, throttlerVars>>

Wait == /\ run = "wait"
        /\ wg = 0
        /\ run' = "select"
        /\ UNCHANGED <<ctxDone, todo, ch, closed, wg, work, panicked, throttlerVars>>
-----------------------------------------------------------------------------
\* The worker w goes on at the place p.
Goes(w, p) == /\ work' = [work EXCEPT ![w] = p]
              /\ UNCHANGED <<ctxDone, run, todo, closed, panicked>>

\* The worker has an order; one that was polled as NEW is marked first.
Receive(w) == /\ work[w] = "receive"
              /\ ch > 0
              /\ ch' = ch - 1
              /\ \E p \in {"mark", "gate"} : Goes(w, p)
              /\ UNCHANGED <<wg, throttlerVars>>

\* The channel is closed and empty: range ends.
Exit(w) == /\ work[w] = "receive"
           /\ ch = 0 /\ closed
           /\ Goes(w, "exit")
           /\ UNCHANGED <<ch, wg, throttlerVars>>

\* innerWorker returns, and its deferred wg.Done() panics below zero.
Done(w) == /\ wg' = wg - 1
           /\ panicked' = (wg = 0)
           /\ work' = [work EXCEPT ![w] = "receive"]
           /\ UNCHANGED <<ctxDone, run, todo, ch, closed>>

Mark(w) == /\ work[w] = "mark"
           /\ ~ctxDone
           /\ Goes(w, "gate")
           /\ UNCHANGED <<ch, wg, throttlerVars>>

\* UpdateOrderStatus or UpdateOrderAccrual fails.
CallFails(w) == /\ work[w] \in {"mark", "write"}
                /\ ctxDone \/ Failures
                /\ Done(w)
                /\ UNCHANGED throttlerVars

\* WaitUntilNextRequestAllowed: one turn of its loop is Gate and Check.
Gate(w) == /\ work[w] = "gate"
           /\ ReadLimit(w)
           /\ Goes(w, "check")
           /\ UNCHANGED <<ch, wg>>

Check(w) == /\ work[w] = "check"
            /\ Goes(w, IF Allowed(w) THEN "ask" ELSE "sleep")
            /\ UNCHANGED <<ch, wg, throttlerVars>>

\* The pause is over: the loop looks at the limit again.
Wake(w) == /\ work[w] = "sleep"
           /\ Awake(w)
           /\ Goes(w, "gate")
           /\ UNCHANGED <<ch, wg, throttlerVars>>

\* The context ends the pause.
Interrupted(w) == /\ work[w] = "sleep"
                  /\ ctxDone
                  /\ Done(w)
                  /\ UNCHANGED throttlerVars

Ask(w) == /\ work[w] = "ask"
          /\ SendRequest
          /\ Goes(w, "asked")
          /\ UNCHANGED <<ch, wg>>

\* Mutant: Done is not deferred, and this way out forgets it.
ReturnWithoutDone(w) == /\ work[w] = "asked"
                        /\ Goes(w, "receive")
                        /\ UNCHANGED <<ch, wg, throttlerVars>>

\* 204, an error, a client timeout or a status that is not final.
NoFinalAnswer(w) == /\ work[w] = "asked"
                    /\ \E resp \in Response : ~IsRateLimit(resp) /\ ~HasOutcome(resp)
                    /\ Done(w)
                    /\ UNCHANGED throttlerVars

RateLimited(w) == /\ work[w] = "asked"
                  /\ \E resp \in Response : /\ IsRateLimit(resp)
                                            /\ TooManyRequests(w, Timeout(resp))
                  /\ Goes(w, "limit")
                  /\ UNCHANGED <<ch, wg>>

UpdateNextRequestAllowed(w) == /\ work[w] = "limit"
                               /\ MoveLimit(w)
                               /\ Done(w)

FinalAnswer(w) == /\ work[w] = "asked"
                  /\ \E resp \in Response : HasOutcome(resp)
                  /\ Goes(w, "write")
                  /\ UNCHANGED <<ch, wg, throttlerVars>>

\* The outcome is written; its context may end just after it.
Write(w) == /\ work[w] = "write"
            /\ Done(w)
            /\ UNCHANGED throttlerVars

\* BeginTxx fails, and the deferred Rollback has no transaction to call.
WritePanics(w) == /\ work[w] = "write"
                  /\ ctxDone \/ Failures
                  /\ panicked' = TRUE
                  /\ UNCHANGED <<ctxDone, run, todo, ch, closed, wg, work, throttlerVars>>

RunStep == Return \/ Poll \/ PollPanics \/ Send \/ Add \/ Wait

WorkerStep(w) ==
  \/ Receive(w) \/ Exit(w)  \/ Mark(w)  \/ CallFails(w)   \/ Gate(w)
  \/ Check(w)   \/ Wake(w)  \/ Interrupted(w) \/ Ask(w)   \/ NoFinalAnswer(w)
  \/ RateLimited(w) \/ UpdateNextRequestAllowed(w) \/ FinalAnswer(w)
  \/ Write(w)   \/ WritePanics(w)

Next == /\ ~panicked
        /\ \/ Cancel \/ RunStep
           \/ \E w \in Workers : WorkerStep(w)
           \/ Tick /\ UNCHANGED updaterVars

Spec == Init /\ [][Next]_vars

\* Every goroutine is scheduled, a call to the accrual system ends (its client
\* has a timeout), a call to the database ends, and time passes.
Fairness == /\ WF_vars(~panicked /\ RunStep)
            /\ \A w \in Workers : WF_vars(~panicked /\ WorkerStep(w))
            /\ WF_vars(~panicked /\ Tick /\ UNCHANGED updaterVars)

FairSpec == Spec /\ Fairness
-----------------------------------------------------------------------------
Busy == {w \in Workers : work[w] \notin {"receive", "exit"}}

TypeOK ==
  /\ ctxDone \in BOOLEAN /\ closed \in BOOLEAN /\ panicked \in BOOLEAN
  /\ run \in {"select", "send", "add", "wait", "returned"}
  /\ todo \in 0..Capacity /\ ch \in 0..Capacity
  /\ wg \in -1..Capacity
  /\ work \in [Workers -> {"receive", "mark", "gate", "check", "sleep", "ask",
                           "asked", "limit", "write", "exit"}]
  /\ now \in 1..MaxTime /\ waitUntil \in 0..MaxTime /\ limit \in 0..MaxTime
  /\ next \in [Workers -> 0..MaxTime] /\ until \in [Workers -> 0..MaxTime]
  /\ early \in Nat

\* Run polls only when nobody works on an order any more, so no order is in two
\* jobs: what the crediting of orders relies on.
BatchBarrier == run \in {"select", "returned"} => ch = 0 /\ Busy = {}

\* Run never blocks on the channel: a batch fits into it.
NeverBlocks == run = "send" => ch < Capacity

\* The pause that a 429 asks for is respected by all requests but those of the
\* workers that had looked at the limit before: at most one for each of them.
FewEarlyRequests == early < Cardinality(Workers)

\* The WaitGroup counts the orders sent and not done; it never gets below zero.
CounterNotNegative == wg >= 0

\* The updater stops when it is told to.
ShutdownEnds ==
  ctxDone ~> (panicked \/ (run = "returned" /\ \A w \in Workers : work[w] = "exit"))

\* A batch ends, however often and however long the accrual system pauses the
\* workers: polling goes on.
BatchEnds == run = "wait" ~> (panicked \/ run # "wait")
=============================================================================
