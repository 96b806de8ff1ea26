----------------------------- MODULE Lifecycle -----------------------------
(***************************************************************************)
(* run of cmd/gophermart from its contexts to the end of the process: the   *)
(* configuration, the opening of the database, the goroutines of the        *)
(* errgroup and the forced exit.  rootCtx ends with an interrupt; ctx, its   *)
(* child, also when Start fails.  What the updater does is in Updater: here  *)
(* it returns some time after ctx is done, or never, or it panics.  A timer  *)
(* holds the units of time it has left.                                      *)
(***************************************************************************)
EXTENDS Integers

CONSTANTS
  Requests,        \* concurrent HTTP requests
  HandlerTimeout,  \* of http.TimeoutHandler, the longest of the two
  TimeoutInners, TimeoutCommon

ASSUME TimeoutsAssumption ==
  /\ {HandlerTimeout, TimeoutInners, TimeoutCommon} \subseteq Nat \ {0}
  /\ HandlerTimeout < TimeoutInners /\ TimeoutInners < TimeoutCommon

VARIABLES
  phase,     \* of run: "config", "opening", "up"
  rootDone, ctxDone,  \* the contexts
  db,        \* the connection: "none", "open", "closed", or "failed" to close
  updater,   \* the one of Run: "created", "running", "returned"
  watcher,   \* the one that waits for workerWG: "waiting", "watching", "returned"
  server,    \* the one of Start: "created", "listening", "failed", "closed"
  stopper,   \* the one of Stop: "waiting", "draining", "returned"
  request,   \* each request: "none", "handling", "writing"
  timer,     \* of the requests' handlers
  watchIn, drainIn, exitIn,  \* timers
  exit,      \* "none", or how the process ended: "ok", "error", "forced", "panic"
  lateStart  \* history: the database was open only after ctx was done

start == <<phase, lateStart>>
contexts == <<rootDone, ctxDone>>
group == <<db, updater, watcher, server, stopper>>
timers == <<watchIn, drainIn, exitIn>>
vars == <<start, contexts, group, request, timer, timers, exit>>

Off == -1

Init == /\ phase = "config" /\ lateStart = FALSE
        /\ rootDone = FALSE /\ ctxDone = FALSE
        /\ db = "none" /\ updater = "created" /\ watcher = "waiting"
        /\ server = "created" /\ stopper = "waiting"
        /\ request = [r \in Requests |-> "none"]
        /\ timer = [r \in Requests |-> Off]
        /\ watchIn = Off /\ drainIn = Off /\ exitIn = Off
        /\ exit = "none"

Alive == exit = "none"

\* The goroutines of the errgroup have been started.
Up == Alive /\ phase = "up"

\* ctx is cancelled: context.AfterFunc starts the timer of the forced exit.
CancelCtx == /\ ctxDone' = TRUE
             /\ exitIn' = IF ctxDone THEN exitIn ELSE TimeoutCommon

Interrupt == /\ Alive /\ ~rootDone
             /\ rootDone' = TRUE
             /\ CancelCtx
             /\ UNCHANGED <<start, group, request, timer, watchIn, drainIn, exit>>
-----------------------------------------------------------------------------
\* ParseConfig: an environment that does not parse, or no address of the
\* database or of the accrual system, ends run.
ParseConfig == /\ Alive /\ phase = "config"
               /\ \/ phase' = "opening" /\ UNCHANGED exit
                  \/ exit' = "error" /\ UNCHANGED phase
               /\ UNCHANGED <<lateStart, contexts, group, request, timer, timers>>

\* Open connects and migrates, however long it takes: ctx does not reach it.
\* Then run starts its goroutines.
Open == /\ Alive /\ phase = "opening"
        /\ phase' = "up"
        /\ db' = "open"
        /\ lateStart' = ctxDone
        /\ UNCHANGED <<contexts, updater, watcher, server, stopper, request, timer,
                       timers, exit>>

\* No connection, or a migration fails and Open closes the connection.
OpenFails == /\ Alive /\ phase = "opening"
             /\ db' \in {"none", "closed"}
             /\ exit' = "error"
             /\ UNCHANGED <<start, contexts, updater, watcher, server, stopper, request,
                            timer, timers>>
-----------------------------------------------------------------------------
\* The error of Close is the goroutine's.
CloseDB == /\ Up /\ ctxDone /\ db = "open"
           /\ db' \in {"closed", "failed"}
           /\ UNCHANGED <<start, contexts, updater, watcher, server, stopper, request, timer,
                          timers, exit>>
-----------------------------------------------------------------------------
\* workerWG.Add(1) and Run.
StartUpdater == /\ Up /\ updater = "created"
                /\ updater' = "running"
                /\ UNCHANGED <<start, contexts, db, watcher, server, stopper, request, timer,
                               timers, exit>>

\* The updater panics: a poll fails, as it does when ctx ends during it, or a
\* transaction cannot begin, as when the database is closed already.
UpdaterPanics == /\ Up /\ updater = "running"
                 /\ exit' = "panic"
                 /\ UNCHANGED <<start, contexts, group, request, timer, timers>>

UpdaterReturns == /\ Up /\ ctxDone /\ updater = "running"
                  /\ updater' = "returned"
                  /\ UNCHANGED <<start, contexts, db, watcher, server, stopper, request, timer,
                                 timers, exit>>

Watch == /\ Up /\ ctxDone /\ watcher = "waiting"
         /\ watcher' = "watching"
         /\ watchIn' = TimeoutInners
         /\ UNCHANGED <<start, contexts, db, updater, server, stopper, request, timer,
                        drainIn, exitIn, exit>>

\* workerWG.Wait returns, also when Run is not in the WaitGroup yet; or the time
\* is over.
WatchEnds == /\ Up /\ watcher = "watching"
             /\ updater # "running" \/ watchIn = 0
             /\ watcher' = "returned"
             /\ watchIn' = Off
             /\ UNCHANGED <<start, contexts, db, updater, server, stopper, request, timer,
                            drainIn, exitIn, exit>>
-----------------------------------------------------------------------------
\* Mutant: the server listens although it has been stopped.
ListensAnyway == /\ Up /\ server = "created"
                 /\ server' = "listening"
                 /\ UNCHANGED <<start, contexts, db, updater, watcher, stopper, request, timer,
                                timers, exit>>

\* ListenAndServe after Shutdown returns ErrServerClosed.
StartServer == /\ Up /\ server = "created"
               /\ server' = IF stopper = "waiting" THEN "listening" ELSE "closed"
               /\ UNCHANGED <<start, contexts, db, updater, watcher, stopper, request, timer,
                              timers, exit>>

\* Mutant: the timer of the forced exit belongs to rootCtx.
FailsUntimed == /\ Up /\ server \in {"created", "listening"}
                /\ server' = "failed" /\ ctxDone' = TRUE
                /\ UNCHANGED <<start, rootDone, db, updater, watcher, stopper, request, timer,
                               timers, exit>>

\* The address cannot be listened on, or accepting fails: the error of the
\* goroutine cancels ctx.
StartFails == /\ Up /\ server \in {"created", "listening"}
              /\ server' = "failed"
              /\ CancelCtx
              /\ UNCHANGED <<start, rootDone, db, updater, watcher, stopper, request, timer,
                             watchIn, drainIn, exit>>

\* Shutdown closes the listener, Start returns ErrServerClosed, which is dropped.
StopServer == /\ Up /\ rootDone /\ stopper = "waiting"
              /\ stopper' = "draining"
              /\ drainIn' = TimeoutInners
              /\ server' = IF server = "listening" THEN "closed" ELSE server
              /\ UNCHANGED <<start, contexts, db, updater, watcher, request, timer,
                             watchIn, exitIn, exit>>

\* Mutant: Close and not Shutdown.
StopsAtOnce == /\ Up /\ stopper = "draining"
               /\ stopper' = "returned" /\ drainIn' = Off
               /\ UNCHANGED <<start, contexts, db, updater, watcher, server, request, timer,
                              watchIn, exitIn, exit>>

\* Shutdown has waited for the requests, or its time is over.
Drained == /\ Up /\ stopper = "draining"
           /\ drainIn = 0 \/ \A r \in Requests : request[r] = "none"
           /\ stopper' = "returned"
           /\ drainIn' = Off
           /\ UNCHANGED <<start, contexts, db, updater, watcher, server, request, timer,
                          watchIn, exitIn, exit>>
-----------------------------------------------------------------------------
Accept(r) == /\ Up /\ server = "listening" /\ request[r] = "none"
             /\ request' = [request EXCEPT ![r] = "handling"]
             /\ timer' = [timer EXCEPT ![r] = HandlerTimeout]
             /\ UNCHANGED <<start, contexts, group, timers, exit>>

\* The handler has answered or TimeoutHandler does; the response is written to
\* the client, which no timeout limits.
Respond(r) == /\ Up /\ request[r] = "handling"
              /\ request' = [request EXCEPT ![r] = "writing"]
              /\ timer' = [timer EXCEPT ![r] = Off]
              /\ UNCHANGED <<start, contexts, group, timers, exit>>

Written(r) == /\ Up /\ request[r] = "writing"
              /\ request' = [request EXCEPT ![r] = "none"]
              /\ UNCHANGED <<start, contexts, group, timer, timers, exit>>
-----------------------------------------------------------------------------
\* g.Wait: every goroutine of the group has returned, and one of them an error or
\* none.
Return == /\ Up
          /\ db # "open" /\ updater = "returned" /\ watcher = "returned"
          /\ server \in {"failed", "closed"} /\ stopper = "returned"
          /\ exit' = IF "failed" \in {server, db} THEN "error" ELSE "ok"
          /\ UNCHANGED <<start, contexts, group, request, timer, timers>>

ForceExit == /\ Alive /\ exitIn = 0
             /\ exit' = "forced"
             /\ UNCHANGED <<start, contexts, group, request, timer, timers>>

\* What the goroutines do as soon as they can.
Prompt == \/ ParseConfig
          \/ CloseDB     \/ StartUpdater \/ Watch   \/ WatchEnds
          \/ StartServer \/ StopServer   \/ Drained
          \/ Return      \/ ForceExit
          \/ \E r \in Requests : timer[r] = 0 /\ Respond(r)

\* When Prompt is enabled: a goroutine can go on, or a timer is over.
Urgent ==
  \/ Alive /\ (phase = "config" \/ exitIn = 0)
  \/ Up /\ \/ ctxDone /\ (db = "open" \/ watcher = "waiting")
           \/ updater = "created" \/ server = "created"
           \/ watcher = "watching" /\ (updater # "running" \/ watchIn = 0)
           \/ rootDone /\ stopper = "waiting"
           \/ /\ stopper = "draining"
              /\ drainIn = 0 \/ \A r \in Requests : request[r] = "none"
           \/ \E r \in Requests : timer[r] = 0 /\ request[r] = "handling"
           \/ /\ db # "open" /\ updater = "returned" /\ watcher = "returned"
              /\ server \in {"failed", "closed"} /\ stopper = "returned"

Less(t) == IF t > 0 THEN t - 1 ELSE t

\* A unit of time; no goroutine that can go on is kept from it that long.
Tick == /\ Alive
        /\ ~Urgent
        /\ timer' = [r \in Requests |-> Less(timer[r])]
        /\ watchIn' = Less(watchIn)
        /\ drainIn' = Less(drainIn)
        /\ exitIn' = Less(exitIn)
        /\ UNCHANGED <<start, contexts, group, request, exit>>

Next == \/ Interrupt    \/ ParseConfig    \/ Open  \/ OpenFails
        \/ CloseDB      \/ UpdaterPanics
        \/ StartUpdater \/ UpdaterReturns \/ Watch \/ WatchEnds
        \/ StartServer  \/ StartFails     \/ StopServer \/ Drained
        \/ \E r \in Requests : Accept(r) \/ Respond(r) \/ Written(r)
        \/ Return       \/ ForceExit      \/ Tick

Spec == Init /\ [][Next]_vars /\ WF_vars(Prompt) /\ WF_vars(Tick)
-----------------------------------------------------------------------------
\* However the process ends by itself, every request has left its handler: only
\* a client that is slow to read loses its response.  There are two exceptions: a
\* panic of the updater, which may be in the middle of a drain, and the forced exit
\* of a process that has come up so long after the interrupt that no time is left.
HandlersAreDone ==
  exit \in {"ok", "error"} \/ (exit = "forced" /\ ~lateStart)
    => \A r \in Requests : request[r] # "handling"

\* After an interrupt alone, the time of the forced exit comes only if the updater
\* or the opening of the database hangs: draining and watching end before it, also
\* when a client never reads.
ForcedOnlyIfStuck ==
  [][exitIn' = 0 => \/ exitIn = 0
                    \/ phase = "opening" \/ lateStart
                    \/ server = "failed" \/ updater = "running"]_vars

\* Once its context is done the process ends, whatever hangs: only the forced exit
\* sees to it after a failed start, because Stop waits for an interrupt, and while
\* the database is being opened, because Open does not wait for one.
ProcessEnds == ctxDone ~> ~Alive
=============================================================================
