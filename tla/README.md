# A verification project for Gophermart

Gophermart is a loyalty service: registered users upload the numbers of their
orders, a background updater asks an external accrual system what each order has
earned and credits it, and users spend points on new orders. This directory
models the service in TLA+, checks the models with TLC and proves theorems about
them with TLAPS. `PROJECT.json` lists every component, run, mutant, hazard and
theorem, and maps each definition to the lines it models.

## The system

| component | source | state | operations |
|---|---|---|---|
| withdrawals | `server/handler.go`, `service/gophermart`, `repo/gophermart.go` | requests in flight, tables `balance`, `withdrawals` | `AddWithdraw` |
| order uploads | same | requests in flight, table `orders` | `AddOrder` / `CreateOrder` |
| accrual processing | `worker/accrual`, `repo/gophermart.go` | batch, jobs, tables `orders`, `balance` | `GetOrdersToProcess`, `innerWorker`, `UpdateOrderStatus`, `UpdateOrderAccrual` |
| updater goroutines | `worker/accrual/accrual_updater.go` | channel, WaitGroup, `Run`, workers | `Run`, `worker`, shutdown |
| rate throttler | `worker/accrual/rate_throttler.go` | the moment of the next request | wait, update after a 429 |
| registration, login | `server/handler.go`, `service/user`, `repo/user.go` | tables `users`, `balance` | `RegisterUser`, `LoginUser` |
| authentication | `middleware/user.go`, `service/user` | the token in each client's cookie, the column `active` | `BuildTokenString`, `GetUserID` |
| listings and balance | `server/handler.go`, `repo/gophermart.go` | what each user has been shown | `GetUserBalance`, `GetOrders`, `GetWithdrawals` |
| accrual client | `client/accrual` | none | `GetOrderInfo` |
| order number check | `utils/order_number_check.go` | none | `OrderNumberCheck` |
| process | `cmd/gophermart/main.go` | contexts, goroutines of the errgroup | start, shutdown, forced exit |
| configuration, connector | `config` | none | `ParseConfig`, `Open` |
| router, timeouts | `server/router.go`, `server/timeout_helper.go` | none of their own | `timeoutHandler` |
| logger, logging middleware | `logger`, `middleware/logging.go` | none | output only |

Requests and workers are goroutines of one process that share nothing but the
PostgreSQL tables (the workers also share the channel, the WaitGroup and the
throttler). What is hard:

* a withdrawal reads the balance row, computes in Go and writes absolute values
  back while credits add to the same row: the row lock is all that keeps a
  credit from being lost;
* every handler runs under `http.TimeoutHandler`: a client that has its 503
  retries while the first handler still runs and may commit;
* the answer of a COMMIT may be lost, and the process may die between any two
  statements;
* `UpdateOrderAccrual` does not look at the status it overwrites: that an order
  is credited once rests on `Run` waiting for a whole batch;
* a batch is the oldest `2 * workersNum` orders without a final answer, however
  often they were asked for in vain;
* amounts are `float64` in Go and `DECIMAL(10,2)` in the tables;
* the sum of a withdrawal may be any number but 0, negative ones included: the
  comparison with the balance is the only check of it;
* a login looks at `active`, compares the password and only then takes the time for
  the token: the user may be deactivated in between;
* the goroutines of `main` stop on two different contexts and under four
  timeouts: the handlers', the drain's, the updater's and that of the forced exit;
  the database is opened without any of them, so an interrupt may come while
  `Open` hangs, and the updater's panic may cut off requests that are drained;
* a user who asks for the balance, the orders and the withdrawals gets three
  SELECTs of three moments, with credits and withdrawals in between;
* the token is all the server knows of a client: it outlives a crash, newer
  tokens and the deactivation of its user, and it must never name a user whose
  registration was rolled back.

## Modules

| module | models | extends |
|---|---|---|
| `Money` | column values, their rounding and their limit | |
| `Store` | tables, unique keys, the row locks of `balance` | `Money` |
| `Withdrawals` | a withdrawal request, one action per SQL statement | `Store` |
| `Uploads` | an upload request, one action per statement | `Store` |
| `Accruals` | the updater's effects on the tables | `Store` |
| `LoyaltyAccounts` | abstract: upload, settle, withdraw, top up as atomic events | |
| `Gophermart` | the three on one store, crashes, fairness, all properties, the refinement | `Withdrawals`, `Uploads`, `Accruals` |
| `GophermartProofs` | proofs: types, row locks, balances | `Gophermart` |
| `OrdersProofs` | proofs: an order in the updater; what clients were told | `GophermartProofs` |
| `AccountsProofs` | proofs: balances are sums of rows; the refinement | `OrdersProofs` |
| `Listings` | the three GET requests and what they have shown | `Gophermart` |
| `ListingsProofs` | the proofs | `Listings`, `AccountsProofs` |
| `MCGophermart`, `MCListings` | symmetry, initial states and specifications of the runs | `Gophermart`, `Listings` |
| `AccrualClient` | the responses of the accrual system and what `GetOrderInfo` makes of them | |
| `RateThrottler` | the shared pause of the workers, with a clock | |
| `Updater` | the goroutines of the updater, without the tables | `RateThrottler`, `AccrualClient` |
| `UpdaterProofs` | the proofs | `Updater` |
| `Registration` | register and login requests | |
| `Sessions` | tokens, cookies, their check, deactivated users | `Registration` |
| `UsersProofs` | the proofs of both | `Sessions` |
| `MCSessions` | symmetry of the run | `Sessions` |
| `Lifecycle` | `run` from the configuration to the end of the process | |
| `LifecycleProofs` | the proofs | `Lifecycle` |
| `OrderNumber` | the check of Luhn | |
| `OrderNumberProofs` | the proofs | `OrderNumber` |

### How state and actions correspond to the code

A request is a record with a program counter `pc`: the statement it runs next.
Each action named like a repository method is one SQL statement of it together
with the Go code up to the next statement. So `GetBalanceTx` is `SELECT ... FOR
UPDATE` with the comparison of the funds after it, `InsertWithdrawal`,
`UpdateBalance` and `CommitWithdrawal` are the three statements of
`AddWithdrawTx`. What a transaction has written and not committed is in its own
record; the tables hold committed rows only, which is READ COMMITTED. A
statement that would wait (row lock, unique key inserted by an open
transaction) is not enabled. Every statement may also fail; the deferred
`Rollback` is part of the action that leaves the handler (`FinishWithdraw`,
`GiveUp`). A late request (`late`) is one whose client has its 503: its context
is cancelled, so it can only fail, or commit if the commit was already sent.

`paid` and `accepted` record what clients were told; they restrict nothing.

Amounts count HALF kopecks. A column holds even amounts, so one unit is the
smallest amount at which rounding has a tie to break, and sums computed in
`float64` may be rounded to either side of the tie (`StoredFloats`).

In `Updater` an order has no identity: what matters is how many are in the
channel and counted by the WaitGroup. `Accruals` takes from it that `Run` polls
only when no order is in the channel or in a job (`BatchDone`), and `Updater`
shows exactly this (`BatchBarrier`).

In `Listings` each GET is one action that puts what its SELECT reads into
`shown`; a user asks in any order, so `shown` mixes answers of different
moments. A refusal or a failed SELECT shows nothing and is no step.

`Sessions` adds to the requests of `Registration` the clock (`hour`), the token
that a handler has built (`token`), the client's `cookie` and the users with
`active = FALSE`. The steps of a handler are those of the code: `LoginUser` reads
the row and refuses an inactive user, `CommitUser` ends the registration;
`AddAuthCookie` takes the time and builds the token after either has returned,
and looks at nothing else; the cookie is set when the answer reaches the client
(`SetCookie`), and only a 200 sets it. Between any two of them users are
deactivated and the clock moves. An hour is long and a handler has three seconds:
`Hour` does not come a second time while a request is with its handler and not
timed out (`aged` are the clients that have seen it once). No code deactivates a
user; `Deactivate` stands for the operator.

In `Lifecycle`, `phase` is how far `run` has come: reading the configuration,
opening the database, or up with its goroutines; the latter have a variable
each, and every timeout has a timer. `lateStart` remembers that the database was
open only after the context had ended: such a process may still accept a request
just before the forced exit, and `HandlersAreDone` says so. A database that fails to
close (`db = "failed"`) or a server that fails makes `run` return an error. It also leaves out the
end by a panic of the updater, which is not an orderly stop.
Time passes (`Tick`) only when no goroutine can go on by itself (`Prompt`): a
goroutine is not kept from running for as long as a unit of time. `Urgent` spells out when
`Prompt` is enabled, guard by guard, so that `Tick` can be reasoned about without
`ENABLED`. The updater and the clients are not prompt. The end of the process is, for the tables, the
`Crash` of `Gophermart`: every open transaction is rolled back.

## Properties and runs

Every property has a mutant in `PROJECT.json`: a plausible bug in one definition
under which the run finds the property violated.

| run | what is checked | bounds |
|---|---|---|
| `accounts` | `TypeOK`, `LockOfOpenTransaction`, `SnapshotIsCurrent`, `NotOverdrawn`, `BalanceAgrees`, `PaidIsRecorded`, the refinement `AccountsSpec` | 1 user, 2 numbers, both uploaded, 2 withdrawals at a time, of -1 and 1.5 kopecks, 2 workers, rewards of 1.5 kopecks |
| `uploads` | `AcceptedIsRecorded`, `AcceptedOnce`, `AnswerNamesOwner`, `OneJobPerOrder`, `OrderIsMonotone` | 2 users, 2 numbers, 2 requests, 2 workers, empty tables |
| `settling` | `BalanceAgrees` (here exact), `ListedIsInBalance`, `BalanceIsListed`, `ShownIsNotTakenBack`, `EventuallySettled`, `LockIsReleased`, `EventuallyShown` | 1 user, 2 numbers of which 1 never gets an answer, 1 worker, 1 withdrawal at a time |
| `starvation` | `EventuallySettled` is violated | 2 of 3 orders never get an answer, 1 worker |
| `rounding` | `BalanceIsExact` is violated | withdrawals of half a kopeck |
| `negative` | `NoMoreThanEarned` is violated | withdrawals of -1 kopeck |
| `updater` | `TypeOK`, `BatchBarrier`, `NeverBlocks`, `FewEarlyRequests`, `ShutdownEnds`, `BatchEnds` | 2 workers, batches of 0 to 4, 4 seconds, pauses of 1 and 2 and one that does not parse (0) |
| `waitgroup` | `CounterNotNegative` is violated | 1 worker, no failures |
| `registration` | `UserHasBalance`, `OneUserPerLogin`, `TokenNamesUser`, `ConflictIsTrue`, `AdmittedHasBalance`, `DeactivatedIsOut`, `SessionIsKept` | 2 clients, 2 logins, 2 passwords, 2 ids, 3 hours, tokens of 1 hour |
| `taken` | `TakenIsConflict` is violated | 2 clients, 1 login |
| `lifecycle` | `HandlersAreDone`, `ForcedOnlyIfStuck`, `ProcessEnds` | 2 requests; units of 5 seconds |
| `ordernumber` | `AcceptsCheckDigit`, `TyposAreRefused` | strings of up to 5 characters |

Why the bounds are enough: every conflict in the code is between two
transactions on one row or one key, so two requests and two workers meet every
pair, and two numbers tell "the same order" from "another". Uploads need two users,
to tell the owner of an order from another user; withdrawals and credits meet on
the balance row of one user, and a second one, with a row of
its own, adds states and no conflict (the proofs are for any number of users). A member of `Withdrawers` serves any number of
requests one after the other, so retries are unbounded. `MaxAmount` is small so
that the overflow of a column happens; `accounts` rewards and withdraws 3 half kopecks so that
rounding happens, and withdraws -2 so that both signs meet. Two characters decide the parity of a place in
`OrderNumberCheck`, so five show every interaction of neighbours. In `Updater`
the clock stops at `MaxTime` and no pause reaches it; in `Registration` inserts
stop at `MaxUserId`, logins and failures go on. In `Sessions` a token
given in hour 1 has ended in hour 2; a login that has read its row in hour 1 may
build one in hour 2, when its user is deactivated already, which ends in hour 3:
`DeactivatedIsOut` is at its limit there. The timeouts of `lifecycle` are
those of the code (5, 10 and 30 seconds); timers only run down, so nothing else
needs a bound. Symmetry is used in the safety runs only, over values that no
definition tells apart. Deadlock is checked except in `updater`, `waitgroup`, `lifecycle` and `ordernumber`, which really end:
the updater stops on shutdown or panics, the process ends, and typing stops at
the bound.

`accounts` checks the abstract specification: the owner of a number, its reward
and the withdrawals are read from the tables, and every step of the service must
be one event of `LoyaltyAccounts` or none. The accounts have no balance; what a
user may spend is what the orders have earned less what was withdrawn, but for the
rounding. `AddWithdraw` rounds three columns, each for itself, so for a sum that is
not of whole kopecks the row and the withdrawals may drift apart, by one kopeck at
most for each withdrawal: `Slack` and `Drift`, which are 0 when every sum is of
whole kopecks (`settling`). A negative sum is the event `TopUp`: the code does it,
no document promises it, and the finding `negative` says what it leads to. `Given` is
what such withdrawals have given; `Withdrawn` of a listing is the sum with signs.
The run starts from uploaded orders, so TLC sees every event but `Upload`: that
steps of uploads implement it as well is shown by the proof.

### Fairness

`settling` assumes weak fairness of the updater's goroutines (the Go scheduler
runs them and the poll's timer fires), strong fairness per order of the steps
that may fail (neither the database nor the accrual system fails every time for
one order; of an order outside `Calculated` only that it is marked PROCESSING at
some time), that an open withdrawal goes on or fails (its context has a
deadline), and that the process does not crash for ever. Nothing is assumed of
clients, and an order outside `Calculated` never needs to get an answer.
`EventuallyShown` is conditional: it is about a user who goes on asking for the
orders.
`updater` assumes that each goroutine is scheduled, that calls end (the HTTP
client has a timeout, the database calls have a context), and that time passes;
failures and panics need not be rare, so the properties admit the end by a
panic. `lifecycle` assumes that goroutines which can go on do, and that time
passes; nothing is assumed of the updater, of the opening of the database or of
clients.

### Findings

* `starvation` (`repo/gophermart.go:140`): as many orders without a final answer
  as fit into a batch keep newer orders from being asked for, for ever.
* `rounding` (`gophermart_service.go:67`): a sum with half a kopeck is rounded
  twice, differently; the balance no longer agrees to the kopeck with the withdrawals.
* `negative` (`gophermart_service.go:57`): a negative sum passes the comparison with
  the balance, is recorded as a withdrawal and adds points that no order has earned,
  where the specification has `sum` as points to be written off.
* `waitgroup` (`accrual_updater.go:75`): `wg.Add(1)` after the send; a worker
  that is done first makes the counter negative, which panics.
* `taken` (`user_service.go:56`): a login taken between the look and the insert
  is answered 500 and not 409.

## Proofs

`GophermartProofs` proves, for every number of users, numbers, requests and
workers and for every set of sums and rewards that the assumptions admit:

* `TypeCorrect`: `Spec => []TypeOK`. `TypeOK` is not inductive: what a job writes
  to a row must have fitted the column before, and a job must belong to an order
  that has a row. `TypeInv` adds this per program counter, and each lemma
  `...StepType` shows that one kind of step preserves it.
* `LocksAreHeld`, `NoLostUpdate`, `NeverOverdrawn`: the invariants
  `LockOfOpenTransaction`, `SnapshotIsCurrent` and `NotOverdrawn`, from one
  inductive invariant `BalanceInv`. Its core is `FreshInv`: whoever holds the
  lock of a row knows what the row holds, or will write what is computed from
  it, and this is not negative. A commit changes one row, and the lock shows
  that nobody else has read that row; the lemmas about locks and freshness are
  stated per kind of change and used by every action.

`OrdersProofs` adds where an order is in the updater. `PipelineInv`: the orders of
the channel and of the jobs are pairwise different, and none of them is final.
No statement checks this; it is preserved because a poll happens only when the
last batch is done, because a receive moves an order from the channel to one
worker, and because a job writes an outcome to its own order only and ends with
it. From it follow `OrdersHaveOneJob` (`OneJobPerOrder`) and `OrdersAreMonotone`
(`OrderIsMonotone`): the statement that writes the outcome does not look at the
status it overwrites, but never finds an outcome there.

It also proves what clients may rely on: `AcceptedAreRecorded`,
`AnswersNameOwner`, `NumbersAreAcceptedOnce` and `PaidAreRecorded`.
`UploadAnswersInv` joins the answers under way with those that were given: a code
tells the truth about the row from the moment the handler decides on it, since
owners never change, and a 202 is due only to the one who has inserted the row.
`PaidInv` adds to what was told that the numbers inserted by open transactions
have no row yet and are different, so that a commit never replaces a withdrawal.

`AccountsProofs` is about sums. `LoyaltyAccounts!Total` writes the sum of a function
over a set as the number of points under its graph, so a sum needs no recursion:
that one more row adds its amount (`TotalAdds`) and that a larger set has no smaller
sum (`TotalGrows`) follow from the library's facts about cardinalities.
`StepIsEvent` then says of every step of the service that it is one of four
events: nothing, an upload, the settling of an order with the credit of its reward,
or a withdrawal with the debit of its sum. The cases rest on what was proved before:
a withdrawal commits the row and the balance together (`SnapshotIsCurrent`), a job
settles an order that had no outcome (`PipelineInv`). From this one lemma follow

* `BalancesAgree` (`BalanceAgrees`): each event moves the balance row and the sum
  of the rows by amounts that differ by the rounding of one withdrawal at most, so
  the two never part further than `Drift`, whatever is interrupted;
* `ServiceKeepsAccounts` (`AccountsSpec`): the refinement. The initial tables are
  empty accounts, and each event is the event of that name in `LoyaltyAccounts` or a
  stutter. That the abstract withdrawal is covered by what was earned and not spent
  is where the balance is needed: the code compares with the row, the promise
  with the sums, and `BalanceAgrees` says how far they may be from each other.

Both hold for every set of sums, whatever their signs and fractions. `Net`, the sum
with signs, is a difference of two counts, that of the points taken and that of the
points given, so that it needs no more than `Total`; a withdrawal moves one of the two
(`SpentByWithdrawal`). `Rounding` is about the three columns of one withdrawal.

`ListingsProofs` proves `NothingIsTakenBack`: everything a user has been shown is
still in the tables, at the same stage or further (`ShownInv`, from
`OrdersAreMonotone` and from withdrawals never changing), so the next listing
shows it again.

`ListedAreInBalance` and `BalancesAreListed` compare answers of different moments,
for any sums. What a user has earned and what the user's withdrawals have taken,
those that gave something set aside, never falls (`SumsGrow`), nor does `Drift`; a
listing shows some of the rows of now with their amounts (`ShownInv`), so its
total is no larger than what all rows have earned or taken, which the balance agrees
with (`AgreeingBalance`); and a balance shown before is explained by what had been
earned and taken then, so by the larger sums of now (`SumsInv`).

`UpdaterProofs` proves for any number of workers that `Run` polls only when the
last batch is done (`OneBatchAtATime`), never blocks on the channel
(`SendNeverBlocks`) and never counts more than the channel holds
(`UpdaterTypesHold`). The invariant counts: the WaitGroup, less the order that
`Run` has sent and not counted yet, is the number of orders in the channel and
of busy workers; with what is left of the batch they fit the channel.
`FewAreEarly` is about the pauses. The worker that moves the limit is not about to
send; each other worker may have looked at the limit before, sends one early
request at most and must look again. `EarlyInv` adds the two: the early requests
and the workers that may still send one are fewer than all workers.

`UsersProofs` proves for any number of clients, logins and passwords that
users and balance rows go together (`BalanceWithUser`), that a login and an id
are one user's (`LoginIsUnique`) and that a token names the user whose login and
password were sent for it (`TokenIsEarned`), and that 409 is told only of a login
in use (`ConflictsAreTrue`). The invariants are about committed
rows; the strengthening `RegInv` is about the open transactions that become rows:
their ids and logins differ from each other's and from those of every row, and a
request that is about to be answered 200 has its row.

Of `Sessions` it shows first that `SessionsSpec` keeps `RegInv`: every step of it is
a step of `Registration`, one that changes none of its variables, or the refusal
of an inactive user. `SessInv` then follows a token from the handler to the cookie:
its id has a balance row, it ends at most `TokenExpireHours` after now, at most that
and `LoginSpan` after the deactivation of its user, and never before the cookie it
replaces. `InFlight` is about the logins between the row and the token: one whose user
is deactivated meanwhile has seen the clock move once at most since then. This gives
`AdmittedAreUsers`, `DeactivatedGetsOut` and `SessionsAreKept`. A deactivated user is
not out within the life of a token, as one may think from the check in `LoginUser`,
but within that and the time of a login.

`LifecycleProofs` proves for any set of requests and any three timeouts in their
order that a process that ends by itself has let every request leave its handler
(`HandlersDone`), and that the time of the forced exit comes only if the updater or the
opening of the database hangs (`ForcedMeansStuck`). The invariant `LifeInv` is about the
distances of the timers: every handler ends before the drain does, and the drain
before the forced exit (`Stopping`, `InTime`), because nothing is accepted once Stop
has begun and because until then no unit of time has passed since the interrupt. A unit
of time takes one off each timer that runs and passes none at zero, so the
distances stay. `OnlyStuckTicks` is the core of the second theorem: were a tick to
bring the forced exit, every goroutine but the excepted would be waiting with its
time not over, and there is no such state.

`OrderNumberProofs` proves of numbers of every length that `OrderNumberCheck` accepts
those that end in their check digit (`CheckDigitIsAccepted`) and finds a mistyped
digit and swapped neighbours (`TyposRefused`). The sum of the weighted digits
is written like `LoyaltyAccounts!Total`, so it can be split into one term and the rest
(`TotalSplits`). A typo changes one term and a swap two, and by less than 10:
`WeightedDiffers`, `SwapDiffers` and `OneRemainder` are about single digits.

Assumptions: the named `ASSUME`s of the modules. Holders of locks are distinct
values, `MaxAmount` is a column value, rewards are not negative; TLC evaluates
them in every run. Sums may be any number, with 0 for one that is nearly 0: what
`validate:"required"` lets through.

Only model-checked: the liveness properties (`EventuallySettled`, `LockIsReleased`,
`EventuallyShown`, `ShutdownEnds`, `BatchEnds`, `ProcessEnds`), since liveness under
fairness is outside the prover's reach, and the five properties that the code
violates. That `Urgent` holds exactly when `Prompt` is enabled is read off the two
definitions: a statement with `ENABLED` cannot be proved here.

## What is not modelled

* Parsing, routing, logging, the steps of the migrations: no state of the service.
* The values of the configuration and their precedence (environment, flag,
  default). The assumptions exclude values that `validate` lets through and that
  make the service useless: no workers, and tokens that end when they are given.
* The order of the rows of a listing, and its failures: they show nothing.
* A registration refused with 400 before the service is called: nothing changes.
* Logins and numbers longer than their columns: the statement fails like any other.
* A clock that is set back: a token that has ended would be accepted again.
* Two service instances on one database: the code relies on one process (a hazard
  that `OneJobPerOrder` does not reach).
* A commit that takes effect late. `CommitAccrual` lets a commit take effect although
  its error is logged, but not after the worker has gone on: that the connection
  breaks, the worker gives the order up, the next poll reads it as not final, and only
  then the commit of the first attempt becomes visible is left out, for the process
  that lives as for one that has died. `OneJobPerOrder` is about this process's
  jobs and would not see it; the order would be credited twice.
* Orders uploaded at the same microsecond: `uploadedAt` is distinct.
* A deadlock of row locks: a transaction locks at most one row of `balance`, and
  the only other rows it locks are its own order or its own insert.
* A request after the closing of the database: its statements fail, which the
  request modules have at any point.

## Plan

Done, in this order: `Money`, `Store`, `Withdrawals`, `Uploads`, `Accruals`,
`LoyaltyAccounts`, `Gophermart` with its runs, the invariants about balances
proved; `RateThrottler`, `Updater`, `Registration`, each with its proofs;
`OrderNumber`; `Lifecycle`; `Listings`, `AccrualClient`, `Sessions`, the start of `run`
in `Lifecycle`; the proofs about orders, answers, listings, sessions and pauses; the
sums, the refinement, the listings against the balance, the order number and the end
of the process. Every safety property of a passing run is now stated by a theorem.

What is left:

1. `Updater` composed with `Accruals`, so that the orders of a batch have an
   identity from the poll to the WaitGroup. Today `BatchBarrier`, proved of the one,
   is the guard `BatchDone` of the other.
2. Commits that take effect after a later poll, with the outcome they lead to.
