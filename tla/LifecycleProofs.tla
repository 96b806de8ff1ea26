--------------------------- MODULE LifecycleProofs ---------------------------
(***************************************************************************)
(* The proofs of Lifecycle, for any set of requests and any three timeouts  *)
(* in their order: no process that ends by itself loses a request in its    *)
(* handler, and the forced exit of an interrupted process has a reason.     *)
(* That the process ends at all is a liveness property, for TLC.            *)
(***************************************************************************)
EXTENDS Lifecycle, TLAPS

Handling(r) == request[r] = "handling"

PartTypes ==
  /\ phase \in {"config", "opening", "up"}
  /\ rootDone \in BOOLEAN /\ ctxDone \in BOOLEAN /\ lateStart \in BOOLEAN
  /\ db \in {"none", "open", "closed", "failed"}
  /\ updater \in {"created", "running", "returned"}
  /\ watcher \in {"waiting", "watching", "returned"}
  /\ server \in {"created", "listening", "failed", "closed"}
  /\ stopper \in {"waiting", "draining", "returned"}
  /\ exit \in {"none", "ok", "error", "forced", "panic"}

RequestTypes == /\ request \in [Requests -> {"none", "handling", "writing"}]
                /\ timer \in [Requests -> Int]
                /\ \A r \in Requests : Handling(r) => timer[r] \in 0..HandlerTimeout

\* Before the goroutines are started nothing has happened to them.
NotUp == phase # "up" => /\ server = "created" /\ stopper = "waiting"
                         /\ \A r \in Requests : ~Handling(r)

UpHasDB == phase = "up" => db # "none"

\* ctx ends with rootCtx, or by a server that has failed; from then on the forced
\* exit is near.
ContextsAgree == /\ rootDone => ctxDone
                 /\ ctxDone /\ ~rootDone => server = "failed"
                 /\ IF ctxDone THEN exitIn \in 0..TimeoutCommon ELSE exitIn = Off

\* Stop: nothing is accepted any more, and the handlers end before its time does.
Stopping ==
  /\ stopper # "waiting" => server # "listening" /\ rootDone
  /\ stopper = "draining" => /\ drainIn \in 0..TimeoutInners
                             /\ \A r \in Requests : Handling(r) => timer[r] < drainIn
  /\ stopper = "returned" => \A r \in Requests : ~Handling(r)

\* The forced exit comes last, unless the process has come up after its context
\* was done.
InTime ==
  phase = "up" /\ ctxDone /\ ~lateStart =>
    /\ \A r \in Requests : Handling(r) => timer[r] < exitIn
    /\ server # "failed" /\ stopper = "waiting" => exitIn = TimeoutCommon
    /\ server # "failed" /\ stopper = "draining" => drainIn < exitIn

LifeInv == /\ PartTypes /\ RequestTypes /\ NotUp /\ UpHasDB
           /\ ContextsAgree /\ Stopping /\ InTime

-----------------------------------------------------------------------------
LEMMA Timeouts ==
  /\ HandlerTimeout \in Nat /\ TimeoutInners \in Nat /\ TimeoutCommon \in Nat
  /\ 0 < HandlerTimeout
  /\ HandlerTimeout < TimeoutInners /\ TimeoutInners < TimeoutCommon
BY TimeoutsAssumption

LEMMA LifeInit == Init => LifeInv
<1> SUFFICES ASSUME Init PROVE LifeInv
  OBVIOUS
<1>1. Off \in Int /\ \A r \in Requests : ~Handling(r)
  BY DEF Init, Handling, Off
<1>2. RequestTypes
  BY <1>1 DEF Init, RequestTypes
<1>3. PartTypes /\ NotUp /\ UpHasDB
  BY <1>1 DEF Init, PartTypes, NotUp, UpHasDB
<1>4. ContextsAgree /\ Stopping /\ InTime
  BY DEF Init, ContextsAgree, Stopping, InTime
<1> QED BY <1>2, <1>3, <1>4 DEF LifeInv

\* Less takes one from a timer that runs.
LEMMA LessCounts ==
  /\ \A t \in Int : Less(t) \in Int
  /\ \A t \in Nat : t > 0 => Less(t) = t - 1
  /\ Less(Off) = Off
BY DEF Less, Off

\* The types of the requests and their timers depend on nothing else.
LEMMA SameRequests ==
  ASSUME LifeInv, UNCHANGED <<request, timer>>
  PROVE  RequestTypes'
BY DEF LifeInv, RequestTypes, Handling

LEMMA InterruptStep == LifeInv /\ Interrupt => LifeInv'
<1> SUFFICES ASSUME LifeInv, Interrupt PROVE LifeInv'
  OBVIOUS
<1>1. CASE ctxDone
  BY <1>1, Timeouts, SameRequests DEF LifeInv, PartTypes, NotUp, UpHasDB, ContextsAgree,
    Stopping, InTime, Handling, Interrupt, CancelCtx, start, group
<1>2. CASE ~ctxDone
  <2>1. exitIn' = TimeoutCommon /\ ctxDone' /\ rootDone' /\ stopper = "waiting"
    BY <1>2 DEF Interrupt, CancelCtx, LifeInv, ContextsAgree, Stopping, PartTypes
  <2>2. InTime'
    BY <2>1, Timeouts DEF LifeInv, RequestTypes, Handling, InTime, Interrupt, start, group
  <2>3. PartTypes' /\ NotUp' /\ UpHasDB' /\ Stopping'
    BY <2>1, <1>2 DEF LifeInv, PartTypes, NotUp, UpHasDB, Stopping, Handling, Interrupt,
      start, group
  <2>4. ContextsAgree'
    BY <2>1, Timeouts DEF ContextsAgree
  <2> QED BY <2>2, <2>3, <2>4, SameRequests DEF LifeInv, Interrupt
<1> QED BY <1>1, <1>2

LEMMA StartFailsStep == LifeInv /\ StartFails => LifeInv'
<1> SUFFICES ASSUME LifeInv, StartFails PROVE LifeInv'
  OBVIOUS
<1>1. server' = "failed" /\ ctxDone' /\ phase = "up" /\ phase' = "up"
  BY DEF StartFails, CancelCtx, Up, start
<1>2. ContextsAgree'
  BY <1>1, Timeouts DEF LifeInv, ContextsAgree, StartFails, CancelCtx, PartTypes
<1>3. \A r \in Requests : Handling(r)' /\ ~lateStart' => timer'[r] < exitIn'
  BY Timeouts DEF LifeInv, RequestTypes, InTime, Handling, StartFails, CancelCtx, Up, start
<1>4. InTime'
  BY <1>1, <1>3 DEF InTime
<1>5. PartTypes' /\ NotUp' /\ UpHasDB' /\ Stopping'
  BY <1>1 DEF LifeInv, PartTypes, NotUp, UpHasDB, Stopping, Handling, StartFails, CancelCtx,
    start
<1> QED BY <1>2, <1>4, <1>5, SameRequests DEF LifeInv, StartFails

LEMMA StopStep == LifeInv /\ StopServer => LifeInv'
<1> SUFFICES ASSUME LifeInv, StopServer PROVE LifeInv'
  OBVIOUS
<1>1. /\ stopper = "waiting" /\ stopper' = "draining" /\ drainIn' = TimeoutInners
      /\ rootDone /\ ctxDone /\ phase = "up" /\ UNCHANGED <<request, timer, exitIn, start>>
      /\ server' = IF server = "listening" THEN "closed" ELSE server
      /\ UNCHANGED <<contexts, db, updater, watcher, exit>>
  BY DEF StopServer, Up, LifeInv, ContextsAgree
<1>2. Stopping'
  BY <1>1, Timeouts DEF LifeInv, Stopping, RequestTypes, Handling, contexts, PartTypes
<1>3. InTime'
  BY <1>1, Timeouts DEF LifeInv, InTime, Handling, contexts, start
<1>4. PartTypes' /\ NotUp' /\ UpHasDB' /\ ContextsAgree'
  BY <1>1 DEF LifeInv, PartTypes, NotUp, UpHasDB, ContextsAgree, contexts, start
<1> QED BY <1>1, <1>2, <1>3, <1>4, SameRequests DEF LifeInv

LEMMA StartServerStep == LifeInv /\ StartServer => LifeInv'
<1> SUFFICES ASSUME LifeInv, StartServer PROVE LifeInv'
  OBVIOUS
<1>1. /\ server = "created" /\ phase = "up" /\ Up
      /\ server' = IF stopper = "waiting" THEN "listening" ELSE "closed"
      /\ UNCHANGED <<start, contexts, db, updater, watcher, stopper, request, timer, timers,
                     exit>>
  BY DEF StartServer, Up
<1>2. PartTypes' /\ NotUp' /\ UpHasDB' /\ ContextsAgree' /\ Stopping'
  BY <1>1 DEF LifeInv, PartTypes, NotUp, UpHasDB, ContextsAgree, Stopping, Handling,
    start, contexts, timers
<1>3. InTime'
  BY <1>1 DEF LifeInv, InTime, Handling, start, contexts, timers
<1> QED BY <1>1, <1>2, <1>3, SameRequests DEF LifeInv

LEMMA DrainedStep == LifeInv /\ Drained => LifeInv'
<1> SUFFICES ASSUME LifeInv, Drained PROVE LifeInv'
  OBVIOUS
<1>1. /\ stopper = "draining" /\ stopper' = "returned" /\ phase = "up"
      /\ drainIn = 0 \/ \A r \in Requests : request[r] = "none"
      /\ UNCHANGED <<start, contexts, db, updater, watcher, server, request, timer, exitIn,
                     exit>>
  BY DEF Drained, Up
<1>2. \A r \in Requests : ~Handling(r)
  BY <1>1 DEF LifeInv, Stopping, RequestTypes, Handling
<1>3. PartTypes' /\ NotUp' /\ UpHasDB' /\ ContextsAgree' /\ Stopping' /\ InTime'
  BY <1>1, <1>2 DEF LifeInv, PartTypes, NotUp, UpHasDB, ContextsAgree, Stopping, InTime,
    Handling, start, contexts
<1> QED BY <1>1, <1>3, SameRequests DEF LifeInv
-----------------------------------------------------------------------------
\* A request is accepted only while Stop waits, with the whole time ahead.
LEMMA AcceptStep ==
  ASSUME LifeInv, NEW r \in Requests, Accept(r)
  PROVE  LifeInv'
<1>1. /\ request' = [request EXCEPT ![r] = "handling"]
      /\ timer' = [timer EXCEPT ![r] = HandlerTimeout]
      /\ server = "listening" /\ phase = "up"
      /\ UNCHANGED <<start, contexts, group, timers, exit>>
  BY DEF Accept, Up
<1>2. stopper = "waiting"
  BY <1>1 DEF LifeInv, Stopping, PartTypes
<1>3. RequestTypes'
  BY <1>1, Timeouts DEF LifeInv, RequestTypes, Handling
<1>4. PartTypes' /\ NotUp' /\ UpHasDB' /\ ContextsAgree' /\ Stopping'
  BY <1>1, <1>2 DEF LifeInv, PartTypes, NotUp, UpHasDB, ContextsAgree, Stopping,
    start, contexts, group, timers
<1>5. ASSUME ctxDone, ~lateStart, NEW s \in Requests, Handling(s)'
      PROVE  timer'[s] < exitIn
  <2>1. exitIn = TimeoutCommon
    BY <1>1, <1>2, <1>5 DEF LifeInv, InTime
  <2>2. timer'[s] \in 0..HandlerTimeout
    BY <1>3, <1>5 DEF RequestTypes
  <2> QED BY <2>1, <2>2, Timeouts
<1>6. InTime'
  BY <1>1, <1>2, <1>5 DEF LifeInv, InTime, start, contexts, group, timers
<1> QED BY <1>3, <1>4, <1>6 DEF LifeInv

\* A request that leaves its handler, or has left it, troubles nobody.
LEMMA LeaveStep ==
  ASSUME LifeInv, NEW r \in Requests, Respond(r) \/ Written(r)
  PROVE  LifeInv'
<1>1. /\ RequestTypes'
      /\ \A s \in Requests : Handling(s)' => Handling(s) /\ timer'[s] = timer[s]
      /\ UNCHANGED <<start, contexts, group, timers, exit>>
  BY DEF Respond, Written, LifeInv, RequestTypes, Handling, Off
<1>2. PartTypes' /\ NotUp' /\ UpHasDB' /\ ContextsAgree' /\ Stopping' /\ InTime'
  BY <1>1 DEF LifeInv, PartTypes, NotUp, UpHasDB, ContextsAgree, Stopping, InTime,
    start, contexts, group, timers
<1> QED BY <1>1, <1>2 DEF LifeInv

\* The timers of the handlers, of Stop and of the forced exit run side by side:
\* none of them passes its end unnoticed.
LEMMA TickStep == LifeInv /\ Tick => LifeInv'
<1> SUFFICES ASSUME LifeInv, Tick PROVE LifeInv'
  OBVIOUS
<1>1. /\ timer' = [r \in Requests |-> Less(timer[r])]
      /\ drainIn' = Less(drainIn) /\ exitIn' = Less(exitIn)
      /\ UNCHANGED <<start, contexts, group, request, exit>>
      /\ Alive /\ ~Urgent
  BY DEF Tick
<1>2. exitIn # 0 /\ (phase = "up" => ~(rootDone /\ stopper = "waiting"))
  BY <1>1 DEF Urgent, Up
<1>3. ASSUME NEW r \in Requests, Handling(r)
      PROVE  /\ phase = "up" /\ timer[r] \in 1..HandlerTimeout
             /\ timer'[r] = timer[r] - 1
  <2>1. phase = "up"
    BY <1>3 DEF LifeInv, NotUp
  <2>2. timer[r] # 0 /\ timer[r] \in 0..HandlerTimeout
    BY <1>1, <1>3, <2>1 DEF Urgent, Up, LifeInv, RequestTypes, Handling
  <2>3. timer[r] \in Nat /\ timer[r] > 0 /\ timer[r] \in 1..HandlerTimeout
    BY <2>2, Timeouts
  <2> QED BY <1>1, <2>1, <2>3, LessCounts
<1>4. RequestTypes'
  <2>1. timer' \in [Requests -> Int]
    BY <1>1, LessCounts DEF LifeInv, RequestTypes
  <2>2. ASSUME NEW r \in Requests, Handling(r)' PROVE timer'[r] \in 0..HandlerTimeout
    <3>1. Handling(r)
      BY <1>1, <2>2 DEF Handling
    <3> QED BY <3>1, <1>3, Timeouts
  <2> QED BY <1>1, <2>1, <2>2 DEF LifeInv, RequestTypes
<1>5. ctxDone => exitIn \in 1..TimeoutCommon /\ exitIn' = exitIn - 1
  <2>1. ctxDone => exitIn \in Nat /\ exitIn > 0 /\ exitIn \in 1..TimeoutCommon
    BY <1>2, Timeouts DEF LifeInv, ContextsAgree
  <2> QED BY <1>1, <2>1, LessCounts
<1>6. ContextsAgree'
  BY <1>1, <1>5, LessCounts, Timeouts DEF LifeInv, ContextsAgree, contexts, group
<1>7. stopper = "draining" => drainIn \in 1..TimeoutInners /\ drainIn' = drainIn - 1
  <2>1. stopper = "draining" => phase = "up"
    BY DEF LifeInv, NotUp
  <2>2. stopper = "draining" => drainIn # 0 /\ drainIn \in 0..TimeoutInners
    BY <1>1, <2>1 DEF Urgent, Up, LifeInv, Stopping
  <2>3. stopper = "draining" =>
          drainIn \in Nat /\ drainIn > 0 /\ drainIn \in 1..TimeoutInners
    BY <2>2, Timeouts
  <2> QED BY <1>1, <2>3, LessCounts
<1>8. Stopping'
  <2>1. stopper # "waiting" => server # "listening" /\ rootDone
    BY DEF LifeInv, Stopping
  <2>2. stopper = "draining" => drainIn' \in 0..TimeoutInners
    BY <1>7, Timeouts
  <2>3. ASSUME stopper = "draining", NEW r \in Requests, Handling(r)
        PROVE  timer'[r] < drainIn'
    <3>1. timer[r] < drainIn
      BY <2>3 DEF LifeInv, Stopping
    <3> QED BY <3>1, <2>3, <1>3, <1>7, Timeouts
  <2>4. stopper = "returned" => \A r \in Requests : ~Handling(r)
    BY DEF LifeInv, Stopping
  <2> QED BY <1>1, <2>1, <2>2, <2>3, <2>4 DEF Stopping, Handling, contexts, group
<1>9. InTime'
  <2> SUFFICES ASSUME phase = "up", ctxDone, ~lateStart
               PROVE  /\ \A r \in Requests : Handling(r) => timer'[r] < exitIn'
                      /\ ~(server # "failed" /\ stopper = "waiting")
                      /\ server # "failed" /\ stopper = "draining" => drainIn' < exitIn'
    BY <1>1 DEF InTime, Handling, start, contexts, group
  <2>1. ASSUME NEW r \in Requests, Handling(r) PROVE timer'[r] < exitIn'
    <3>1. timer[r] < exitIn
      BY <2>1 DEF LifeInv, InTime
    <3> QED BY <3>1, <2>1, <1>3, <1>5, Timeouts
  <2>2. ~(server # "failed" /\ stopper = "waiting")
    BY <1>2 DEF LifeInv, ContextsAgree
  <2>3. server # "failed" /\ stopper = "draining" => drainIn' < exitIn'
    <3>1. server # "failed" /\ stopper = "draining" => drainIn < exitIn
      BY DEF LifeInv, InTime
    <3> QED BY <3>1, <1>5, <1>7, Timeouts
  <2> QED BY <2>1, <2>2, <2>3
<1>10. PartTypes' /\ NotUp' /\ UpHasDB'
  BY <1>1 DEF LifeInv, PartTypes, NotUp, UpHasDB, Handling, start, contexts, group
<1> QED BY <1>4, <1>6, <1>8, <1>9, <1>10 DEF LifeInv

\* The process comes up: late, when its context is done already.
LEMMA OpenStep == LifeInv /\ Open => LifeInv'
<1> SUFFICES ASSUME LifeInv, Open PROVE LifeInv'
  OBVIOUS
<1>1. /\ phase = "opening" /\ phase' = "up" /\ db' = "open" /\ lateStart' = ctxDone
      /\ UNCHANGED <<contexts, updater, watcher, server, stopper, request, timer, timers,
                     exit>>
  BY DEF Open
<1>2. InTime' /\ UpHasDB' /\ NotUp'
  BY <1>1 DEF InTime, UpHasDB, NotUp, contexts
<1>3. PartTypes' /\ ContextsAgree' /\ Stopping'
  BY <1>1 DEF LifeInv, PartTypes, ContextsAgree, Stopping, Handling, contexts, timers
<1> QED BY <1>1, <1>2, <1>3, SameRequests DEF LifeInv

\* The other steps: of the configuration, the database, the updater, the watcher,
\* and the ends of the process.
OtherStep == \/ ParseConfig \/ OpenFails \/ CloseDB \/ StartUpdater \/ UpdaterPanics
             \/ UpdaterReturns \/ Watch \/ WatchEnds \/ Return \/ ForceExit

LEMMA OtherSteps == LifeInv /\ OtherStep => LifeInv'
<1> SUFFICES ASSUME LifeInv, OtherStep PROVE LifeInv'
  OBVIOUS
<1>1. /\ PartTypes' /\ UpHasDB'
      /\ phase' = phase \/ (phase = "config" /\ phase' = "opening")
      /\ UNCHANGED <<lateStart, contexts, server, stopper, request, timer, drainIn, exitIn>>
  BY DEF OtherStep, ParseConfig, OpenFails, CloseDB, StartUpdater, UpdaterPanics,
    UpdaterReturns, Watch, WatchEnds, Return, ForceExit, Up, LifeInv, PartTypes, UpHasDB,
    start, contexts, group, timers
<1>2. NotUp' /\ ContextsAgree' /\ Stopping' /\ InTime'
  BY <1>1 DEF LifeInv, NotUp, ContextsAgree, Stopping, InTime, Handling, contexts
<1> QED BY <1>1, <1>2, SameRequests DEF LifeInv

LEMMA LifeStep == LifeInv /\ [Next]_vars => LifeInv'
<1> SUFFICES ASSUME LifeInv, [Next]_vars PROVE LifeInv'
  OBVIOUS
<1>1. CASE UNCHANGED vars
  BY <1>1 DEF LifeInv, PartTypes, RequestTypes, NotUp, UpHasDB, ContextsAgree, Stopping,
    InTime, Handling, vars, start, contexts, group, timers
<1>2. CASE Interrupt BY <1>2, InterruptStep
<1>3. CASE Open BY <1>3, OpenStep
<1>4. CASE StartServer BY <1>4, StartServerStep
<1>5. CASE StartFails BY <1>5, StartFailsStep
<1>6. CASE StopServer BY <1>6, StopStep
<1>7. CASE Drained BY <1>7, DrainedStep
<1>8. ASSUME NEW r \in Requests, Accept(r) PROVE LifeInv'
  BY <1>8, AcceptStep
<1>9. ASSUME NEW r \in Requests, Respond(r) \/ Written(r) PROVE LifeInv'
  BY <1>9, LeaveStep
<1>10. CASE Tick BY <1>10, TickStep
<1>11. CASE OtherStep BY <1>11, OtherSteps
<1> QED BY <1>1, <1>2, <1>3, <1>4, <1>5, <1>6, <1>7, <1>8, <1>9, <1>10, <1>11
          DEF Next, OtherStep

\* The invariant of the life of the process: every timer that runs is between its
\* timeout and zero, and the handlers' end before Stop's, Stop's before the forced
\* exit's.
THEOREM LifeInvariant == Spec => []LifeInv
BY LifeInit, LifeStep, PTL DEF Spec
-----------------------------------------------------------------------------
LEMMA DoneStep == LifeInv /\ HandlersAreDone /\ [Next]_vars => HandlersAreDone'
<1> SUFFICES ASSUME LifeInv, HandlersAreDone, [Next]_vars PROVE HandlersAreDone'
  OBVIOUS
<1>1. CASE UNCHANGED <<exit, request, lateStart>>
  BY <1>1 DEF HandlersAreDone
<1>2. ASSUME ParseConfig \/ OpenFails, exit' # exit PROVE HandlersAreDone'
  BY <1>2 DEF ParseConfig, OpenFails, LifeInv, NotUp, Handling, HandlersAreDone
<1>3. CASE Return
  BY <1>3 DEF Return, LifeInv, Stopping, Handling, HandlersAreDone
<1>4. CASE ForceExit
  <2>1. exitIn = 0 /\ exit' = "forced" /\ UNCHANGED <<request, lateStart>>
    BY <1>4 DEF ForceExit, start
  <2>2. ctxDone
    BY <2>1 DEF LifeInv, ContextsAgree, PartTypes, Off
  <2>3. ASSUME ~lateStart, NEW r \in Requests PROVE ~Handling(r)
    <3>1. CASE phase = "up"
      <4>1. Handling(r) => timer[r] < 0 /\ timer[r] \in 0..HandlerTimeout
        BY <2>1, <2>2, <2>3, <3>1 DEF LifeInv, InTime, RequestTypes
      <4> QED BY <4>1, Timeouts
    <3>2. CASE phase # "up"
      BY <3>2 DEF LifeInv, NotUp
    <3> QED BY <3>1, <3>2
  <2> QED BY <2>1, <2>3 DEF HandlersAreDone, Handling
<1>5. CASE UpdaterPanics
  BY <1>5 DEF UpdaterPanics, HandlersAreDone
<1>6. CASE \E r \in Requests : Accept(r) \/ Respond(r) \/ Written(r)
  BY <1>6 DEF Accept, Respond, Written, Up, Alive, HandlersAreDone
<1>7. CASE Open
  BY <1>7 DEF Open, Alive, HandlersAreDone
<1> QED
  BY <1>1, <1>2, <1>3, <1>4, <1>5, <1>6, <1>7
  DEF Next, vars, start, Interrupt, ParseConfig, OpenFails, CloseDB, StartUpdater,
    UpdaterReturns, Watch, WatchEnds, StartServer, StartFails, StopServer, Drained, Tick

\* run of main.go: for any number of requests, a process that ends otherwise than by
\* a panic has let every request leave its handler, unless it has come up after
\* its context was done and the forced exit cuts it short.
THEOREM HandlersDone == Spec => []HandlersAreDone
<1>1. Init => HandlersAreDone
  BY DEF Init, HandlersAreDone
<1> QED BY <1>1, DoneStep, LifeInvariant, PTL DEF Spec

\* The time of the forced exit comes with a tick, and a tick finds every goroutine
\* waiting for a timer: none is left that waits, but for the excepted.
LEMMA OnlyStuckTicks ==
  ASSUME LifeInv, Tick, exitIn' = 0, exitIn # 0,
         phase # "opening", ~lateStart, server # "failed", updater # "running"
  PROVE  FALSE
<1>1. ~Urgent /\ Alive /\ exitIn' = Less(exitIn)
  BY DEF Tick
<1>2. ctxDone
  BY <1>1, LessCounts DEF LifeInv, ContextsAgree, PartTypes, Off
<1>3. exitIn = 1
  BY <1>1, <1>2, Timeouts DEF LifeInv, ContextsAgree, Less
<1>4. phase = "up" /\ Up
  BY <1>1 DEF Urgent, Up, LifeInv, PartTypes
<1>5. /\ db # "open" /\ updater = "returned" /\ server # "created"
      /\ watcher = "returned" /\ rootDone /\ stopper # "waiting"
  BY <1>1, <1>2, <1>4 DEF Urgent, LifeInv, UpHasDB, PartTypes, ContextsAgree
<1>6. stopper # "draining"
  <2>1. stopper = "draining" => drainIn < 1 /\ drainIn \in 0..TimeoutInners
    BY <1>2, <1>3, <1>4 DEF LifeInv, InTime, Stopping
  <2>2. stopper = "draining" => drainIn = 0
    BY <2>1, Timeouts
  <2> QED BY <1>1, <1>4, <2>2 DEF Urgent
<1>7. server = "closed" /\ stopper = "returned"
  BY <1>5, <1>6 DEF LifeInv, Stopping, PartTypes
<1> QED BY <1>1, <1>4, <1>5, <1>7 DEF Urgent

\* The timeouts of run, 30 seconds over 10 over the handlers': for any values in
\* this order an interrupted process whose updater returns ends by itself before
\* it is forced to, whatever its requests and clients do.
THEOREM ForcedMeansStuck == Spec => ForcedOnlyIfStuck
<1>1. LifeInv /\ [Next]_vars =>
        [exitIn' = 0 => \/ exitIn = 0
                        \/ phase = "opening" \/ lateStart
                        \/ server = "failed" \/ updater = "running"]_vars
  <2> SUFFICES ASSUME LifeInv, [Next]_vars, exitIn' = 0, exitIn # 0
               PROVE  \/ phase = "opening" \/ lateStart
                      \/ server = "failed" \/ updater = "running"
    OBVIOUS
  <2>1. CASE Tick
    BY <2>1, OnlyStuckTicks
  <2>2. CASE Interrupt \/ StartFails
    BY <2>2, Timeouts DEF Interrupt, StartFails, CancelCtx
  <2> QED
    BY <2>1, <2>2
    DEF Next, vars, timers, ParseConfig, Open, OpenFails, CloseDB, UpdaterPanics,
      StartUpdater, UpdaterReturns, Watch, WatchEnds, StartServer, StopServer, Drained,
      Accept, Respond, Written, Return, ForceExit
<1> QED BY <1>1, LifeInvariant, PTL DEF Spec, ForcedOnlyIfStuck
=============================================================================
