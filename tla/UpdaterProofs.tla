--------------------------- MODULE UpdaterProofs ---------------------------
(***************************************************************************)
(* The proofs of Updater, for any number of workers and any pauses: Run     *)
(* polls only when the last batch is done and never blocks on the channel,  *)
(* and few requests are sent in spite of a pause.                           *)
(***************************************************************************)
EXTENDS Updater, FiniteSetTheorems, TLAPS

WorkPc == {"receive", "mark", "gate", "check", "sleep", "ask", "asked", "limit",
           "write", "exit"}
RunPc  == {"select", "send", "add", "wait", "returned"}

\* The order that Run has sent and not counted yet.
Uncounted == IF run = "add" THEN 1 ELSE 0

\* The types of what is counted.
CountTypes == /\ run \in RunPc
              /\ todo \in Nat /\ ch \in Nat /\ wg \in Int
              /\ work \in [Workers -> WorkPc]

\* The WaitGroup counts the orders in the channel and in work.
Counted == wg + Uncounted = ch + Cardinality(Busy)

\* What is left of a batch fits into the channel.
BatchFits == /\ run = "send" => todo > 0
             /\ todo + ch + Cardinality(Busy) <= Capacity

\* Between two batches nothing is counted.
Between == run \in {"select", "returned"} => wg = 0

CountInv == CountTypes /\ Counted /\ BatchFits /\ Between
-----------------------------------------------------------------------------
LEMMA BusyFinite == IsFiniteSet(Busy) /\ Cardinality(Busy) \in Nat
<1>1. IsFiniteSet(Workers) /\ Busy \subseteq Workers
  BY UpdaterAssumption DEF Busy
<1>2. QED
  BY <1>1, FS_Subset, FS_CardinalityType

LEMMA CapacityPositive == Capacity \in Nat /\ Capacity >= 2
<1>1. IsFiniteSet(Workers) /\ Workers # {}
  BY UpdaterAssumption
<1>2. Cardinality(Workers) \in Nat /\ Cardinality(Workers) # 0
  BY <1>1, FS_CardinalityType, FS_EmptySet
<1>3. QED
  BY <1>2 DEF Capacity

\* A worker that takes an order becomes busy, one that goes on stays busy, and
\* one that is done is busy no more.
LEMMA BusyMore ==
  ASSUME CountTypes, NEW w \in Workers, work[w] = "receive",
         NEW p \in WorkPc \ {"receive", "exit"}, work' = [work EXCEPT ![w] = p]
  PROVE  Cardinality(Busy') = Cardinality(Busy) + 1
<1>1. Busy' = Busy \cup {w} /\ w \notin Busy
  BY DEF Busy, CountTypes, WorkPc
<1>2. QED
  BY <1>1, BusyFinite, FS_AddElement

LEMMA BusySame ==
  ASSUME CountTypes, NEW w \in Workers, NEW p \in WorkPc,
         work[w] \in {"receive", "exit"} <=> p \in {"receive", "exit"},
         work' = [work EXCEPT ![w] = p]
  PROVE  Busy' = Busy
BY DEF Busy, CountTypes

LEMMA BusyLess ==
  ASSUME CountTypes, NEW w \in Workers, work[w] \in WorkPc \ {"receive", "exit"},
         work' = [work EXCEPT ![w] = "receive"]
  PROVE  /\ Cardinality(Busy') = Cardinality(Busy) - 1
         /\ Cardinality(Busy) > 0
<1>1. Busy' = Busy \ {w} /\ w \in Busy
  BY DEF Busy, CountTypes, WorkPc
<1>2. Cardinality(Busy') = Cardinality(Busy) - 1
  BY <1>1, BusyFinite, FS_RemoveElement
<1>3. IsFiniteSet(Busy') /\ Cardinality(Busy') \in Nat
  BY <1>1, BusyFinite, FS_RemoveElement, FS_CardinalityType
<1>4. QED
  BY <1>2, <1>3, BusyFinite
-----------------------------------------------------------------------------
LEMMA CountInit == Init => CountInv
<1> SUFFICES ASSUME Init PROVE CountInv
  OBVIOUS
<1>1. Busy = {}
  BY DEF Init, Busy
<1>2. Cardinality(Busy) = 0
  BY <1>1, FS_EmptySet
<1>3. QED
  BY <1>2, CapacityPositive DEF Init, CountInv, CountTypes, Counted, BatchFits, Between, Uncounted, RunPc,
    WorkPc

\* Nothing is in the channel or in work when the WaitGroup counts nothing.
LEMMA NothingLeft ==
  ASSUME CountInv, run # "add", wg = 0
  PROVE  ch = 0 /\ Busy = {}
<1>1. ch + Cardinality(Busy) = 0 /\ ch \in Nat /\ Cardinality(Busy) \in Nat
  BY BusyFinite DEF CountInv, Counted, CountTypes, Uncounted
<1>2. ch = 0 /\ Cardinality(Busy) = 0
  BY <1>1
<1>3. QED
  BY <1>2, BusyFinite, FS_EmptySet

LEMMA RunStepCounts ==
  ASSUME CountInv, RunStep
  PROVE  CountInv'
<1>t. /\ CountTypes /\ Counted /\ BatchFits /\ Between
      /\ Capacity \in Nat /\ Cardinality(Busy) \in Nat
  BY CapacityPositive, BusyFinite DEF CountInv
<1>b. UNCHANGED work => Busy' = Busy
  BY DEF Busy
<1> USE DEF CountInv, CountTypes, Counted, BatchFits, Between, Uncounted, RunPc
<1>1. CASE Return
  BY <1>1, <1>t, <1>b DEF Return
<1>2. CASE Poll
  <2>1. ch = 0 /\ Cardinality(Busy) = 0
    BY <1>2, NothingLeft, FS_EmptySet DEF Poll
  <2>2. QED BY <1>2, <1>t, <1>b, <2>1 DEF Poll
<1>3. CASE PollPanics
  BY <1>3, <1>t, <1>b DEF PollPanics
<1>4. CASE Send
  BY <1>4, <1>t, <1>b DEF Send
<1>5. CASE Add
  BY <1>5, <1>t, <1>b DEF Add
<1>6. CASE Wait
  BY <1>6, <1>t, <1>b DEF Wait
<1>7. QED
  BY <1>1, <1>2, <1>3, <1>4, <1>5, <1>6 DEF RunStep

\* A worker that neither takes an order nor is done with one.
LEMMA GoesCounts ==
  ASSUME CountInv, NEW w \in Workers, NEW p \in WorkPc, Goes(w, p),
         work[w] \in {"receive", "exit"} <=> p \in {"receive", "exit"},
         UNCHANGED <<ch, wg>>
  PROVE  CountInv'
<1>1. Busy' = Busy
  BY BusySame DEF CountInv, Goes
<1>2. work' \in [Workers -> WorkPc]
  BY DEF CountInv, CountTypes, Goes
<1>3. QED
  BY <1>1, <1>2 DEF Goes, CountInv, CountTypes, Counted, BatchFits, Between, Uncounted

LEMMA DoneCounts ==
  ASSUME CountInv, NEW w \in Workers, work[w] \in WorkPc \ {"receive", "exit"}, Done(w)
  PROVE  CountInv'
<1>1. /\ Cardinality(Busy') = Cardinality(Busy) - 1
      /\ Cardinality(Busy) > 0 /\ Cardinality(Busy) \in Nat
  BY BusyLess, BusyFinite DEF CountInv, Done
<1>2. work' \in [Workers -> WorkPc]
  BY DEF CountInv, CountTypes, Done, WorkPc
<1>3. run \notin {"select", "returned"}
  <2>1. CASE run \in {"select", "returned"}
    <3>1. Busy = {}
      BY <2>1, NothingLeft DEF CountInv, Between
    <3>2. QED BY <1>1, <3>1, FS_EmptySet
  <2>2. QED BY <2>1
<1>4. BatchFits'
  BY <1>1, CapacityPositive DEF Done, CountInv, CountTypes, BatchFits
<1>5. CountTypes' /\ Counted' /\ Between'
  BY <1>1, <1>2, <1>3 DEF Done, CountInv, CountTypes, Counted, Between, Uncounted
<1>6. QED
  BY <1>4, <1>5 DEF CountInv

LEMMA ReceiveCounts ==
  ASSUME CountInv, NEW w \in Workers, Receive(w)
  PROVE  CountInv'
<1>1. PICK p \in {"mark", "gate"} : Goes(w, p)
  BY DEF Receive
<1>2. p \in WorkPc \ {"receive", "exit"} /\ work[w] = "receive"
      /\ work' = [work EXCEPT ![w] = p]
  BY <1>1 DEF WorkPc, Goes, Receive
<1>3. Cardinality(Busy') = Cardinality(Busy) + 1 /\ Cardinality(Busy) \in Nat
  BY <1>2, BusyMore, BusyFinite DEF CountInv
<1>4. work' \in [Workers -> WorkPc]
  BY <1>2 DEF CountInv, CountTypes
<1>5. QED
  BY <1>1, <1>3, <1>4, CapacityPositive
    DEF Receive, Goes, CountInv, CountTypes, Counted, BatchFits, Between, Uncounted

LEMMA WorkerStepCounts ==
  ASSUME CountInv, NEW w \in Workers, WorkerStep(w)
  PROVE  CountInv'
<1> USE DEF WorkPc
<1>1. CASE Receive(w)
  BY <1>1, ReceiveCounts
<1>2. CASE Exit(w)
  BY <1>2, GoesCounts DEF Exit
<1>3. CASE Mark(w) \/ Gate(w) \/ Wake(w) \/ Ask(w) \/ RateLimited(w) \/ FinalAnswer(w)
  BY <1>3, GoesCounts DEF Mark, Gate, Wake, Ask, RateLimited, FinalAnswer
<1>4. CASE Check(w)
  BY <1>4, GoesCounts DEF Check
<1>5. CASE \/ CallFails(w) \/ Interrupted(w) \/ NoFinalAnswer(w) \/ Write(w)
           \/ UpdateNextRequestAllowed(w)
  BY <1>5, DoneCounts
    DEF CallFails, Interrupted, NoFinalAnswer, Write, UpdateNextRequestAllowed
<1>6. CASE WritePanics(w)
  <2>1. Busy' = Busy
    BY <1>6 DEF WritePanics, Busy
  <2>2. QED
    BY <1>6, <2>1
      DEF WritePanics, CountInv, CountTypes, Counted, BatchFits, Between, Uncounted
<1>7. QED
  BY <1>1, <1>2, <1>3, <1>4, <1>5, <1>6 DEF WorkerStep

LEMMA CountStep == CountInv /\ [Next]_vars => CountInv'
<1> SUFFICES ASSUME CountInv, [Next]_vars PROVE CountInv'
  OBVIOUS
<1>1. CASE RunStep
  BY <1>1, RunStepCounts
<1>2. ASSUME NEW w \in Workers, WorkerStep(w) PROVE CountInv'
  BY <1>2, WorkerStepCounts
<1>3. CASE UNCHANGED <<run, todo, ch, wg, work>>
  BY <1>3 DEF CountInv, CountTypes, Counted, BatchFits, Between, Uncounted, Busy
<1>4. QED
  BY <1>1, <1>2, <1>3 DEF Next, Cancel, vars, updaterVars

LEMMA CountInvariant == Spec => []CountInv
<1>1. QED
  BY CountInit, CountStep, PTL DEF Spec

\* Run polls, or returns, only when every order of the last batch has been
\* received by a worker that is done with it: no order is in two batches.
THEOREM OneBatchAtATime == Spec => []BatchBarrier
<1>1. CountInv => BatchBarrier
  BY NothingLeft DEF CountInv, Between, BatchBarrier
<1>2. QED
  BY <1>1, CountInvariant, PTL

\* The channel has room for every order that Run still has to send.
THEOREM SendNeverBlocks == Spec => []NeverBlocks
<1>1. CountInv => NeverBlocks
  BY CapacityPositive, BusyFinite DEF CountInv, CountTypes, BatchFits, NeverBlocks
<1>2. QED
  BY <1>1, CountInvariant, PTL
-----------------------------------------------------------------------------
(***************************************************************************)
(* The pauses.                                                              *)
(***************************************************************************)
Moment == 0..MaxTime

ThrottlerTypes ==
  /\ ctxDone \in BOOLEAN /\ closed \in BOOLEAN /\ panicked \in BOOLEAN
  /\ now \in 1..MaxTime /\ waitUntil \in Moment /\ limit \in Moment
  /\ next \in [Workers -> Moment] /\ until \in [Workers -> Moment]
  /\ early \in Nat

\* The workers that may still send a request in spite of the limit: they have
\* looked at it before it was moved.
MayBeEarly == {w \in Workers : /\ now <= limit
                               /\ \/ work[w] = "check" /\ next[w] < limit
                                  \/ work[w] = "ask"}

\* The one that has moved the limit is not among them, and each of the others
\* sends one early request at most before it looks again.
EarlyInv == /\ waitUntil = limit
            /\ early + Cardinality(MayBeEarly) < Cardinality(Workers)

PauseInv == CountTypes /\ ThrottlerTypes /\ EarlyInv

LEMMA WorkersFinite ==
  /\ IsFiniteSet(Workers) /\ Cardinality(Workers) \in Nat
  /\ \A S \in SUBSET Workers :
       /\ IsFiniteSet(S) /\ Cardinality(S) \in Nat
       /\ Cardinality(S) <= Cardinality(Workers)
<1>1. IsFiniteSet(Workers)
  BY UpdaterAssumption
<1>2. QED
  BY <1>1, FS_Subset, FS_CardinalityType

\* Fewer workers that may be early, and no early request.
LEMMA NotEarlier ==
  ASSUME EarlyInv, early \in Nat, early' = early, waitUntil' = limit',
         MayBeEarly' \subseteq MayBeEarly
  PROVE  EarlyInv'
<1>1. MayBeEarly \in SUBSET Workers /\ MayBeEarly' \in SUBSET Workers
  BY DEF MayBeEarly
<1>2. IsFiniteSet(MayBeEarly)
  BY <1>1, WorkersFinite
<1>3. Cardinality(MayBeEarly') <= Cardinality(MayBeEarly)
  BY <1>2, FS_Subset
<1>4. /\ Cardinality(MayBeEarly) \in Nat /\ Cardinality(MayBeEarly') \in Nat
      /\ Cardinality(Workers) \in Nat
  BY <1>1, WorkersFinite
<1>5. early + Cardinality(MayBeEarly') < Cardinality(Workers)
  BY <1>3, <1>4 DEF EarlyInv
<1>6. QED
  BY <1>5 DEF EarlyInv

LEMMA AskIsCounted ==
  ASSUME PauseInv, NEW w \in Workers, Ask(w)
  PROVE  EarlyInv'
<1>1. /\ work[w] = "ask" /\ work' = [work EXCEPT ![w] = "asked"]
      /\ UNCHANGED <<now, limit, next, waitUntil>>
      /\ early' = IF now <= limit THEN early + 1 ELSE early
  BY DEF Ask, Goes, SendRequest
<1>2. MayBeEarly' = MayBeEarly \ {w}
  BY <1>1 DEF MayBeEarly, PauseInv, CountTypes
<1>3. early \in Nat /\ waitUntil' = limit'
  BY <1>1 DEF PauseInv, ThrottlerTypes, EarlyInv
<1>4. CASE now <= limit
  <2>1. w \in MayBeEarly /\ IsFiniteSet(MayBeEarly)
    BY <1>1, <1>4, WorkersFinite DEF MayBeEarly
  <2>2. Cardinality(MayBeEarly') = Cardinality(MayBeEarly) - 1
    BY <1>2, <2>1, FS_RemoveElement
  <2>3. Cardinality(MayBeEarly) \in Nat /\ Cardinality(Workers) \in Nat
    BY WorkersFinite DEF MayBeEarly
  <2>4. early' = early + 1
    BY <1>1, <1>4
  <2>5. QED
    BY <1>3, <2>2, <2>3, <2>4 DEF PauseInv, EarlyInv
<1>5. CASE ~(now <= limit)
  <2>1. early' = early /\ MayBeEarly' \subseteq MayBeEarly
    BY <1>1, <1>2, <1>5
  <2>2. QED
    BY <1>3, <2>1, NotEarlier DEF PauseInv
<1>6. QED
  BY <1>4, <1>5

LEMMA MoveLimitIsFair ==
  ASSUME PauseInv, NEW w \in Workers, UpdateNextRequestAllowed(w)
  PROVE  EarlyInv'
<1>1. /\ work[w] = "limit" /\ work' = [work EXCEPT ![w] = "receive"]
      /\ UNCHANGED <<now, next>>
      /\ waitUntil' = Later(waitUntil, until[w]) /\ limit' = Later(limit, until[w])
      /\ early' = IF until[w] > limit THEN 0 ELSE early
  BY DEF UpdateNextRequestAllowed, MoveLimit, Done
<1>2. waitUntil' = limit' /\ early \in Nat /\ limit \in Int /\ until[w] \in Int
  BY <1>1 DEF PauseInv, EarlyInv, ThrottlerTypes, Moment
<1>3. w \notin MayBeEarly'
  BY <1>1 DEF MayBeEarly, PauseInv, CountTypes
<1>4. CASE until[w] > limit
  <2>1. MayBeEarly' \in SUBSET (Workers \ {w})
    BY <1>3 DEF MayBeEarly
  <2>2. /\ IsFiniteSet(Workers \ {w})
        /\ Cardinality(Workers \ {w}) = Cardinality(Workers) - 1
    BY WorkersFinite, FS_RemoveElement
  <2>3. Cardinality(MayBeEarly') <= Cardinality(Workers) - 1
    BY <2>1, <2>2, FS_Subset
  <2>4. Cardinality(MayBeEarly') \in Nat /\ Cardinality(Workers) \in Nat
    BY <2>1, WorkersFinite
  <2>5. early' = 0
    BY <1>1, <1>4
  <2>6. QED
    BY <1>2, <2>3, <2>4, <2>5 DEF EarlyInv
<1>5. CASE ~(until[w] > limit)
  <2>1. limit' = limit /\ early' = early
    BY <1>1, <1>2, <1>5 DEF Later
  <2>2. MayBeEarly' \subseteq MayBeEarly
    BY <1>1, <2>1 DEF MayBeEarly, PauseInv, CountTypes
  <2>3. QED
    BY <1>2, <2>1, <2>2, NotEarlier DEF PauseInv
<1>6. QED
  BY <1>4, <1>5

\* A worker that looks at the limit is not early, nor one that the limit lets
\* pass once it has seen it.
LEMMA GoesOnNotEarlier ==
  ASSUME PauseInv, NEW w \in Workers, NEW p \in WorkPc,
         work' = [work EXCEPT ![w] = p], UNCHANGED <<now, waitUntil, limit, early>>,
         \A v \in Workers \ {w} : next'[v] = next[v],
         p = "check" => next'[w] = limit,
         p = "ask" => work[w] = "check" /\ now > next[w]
  PROVE  EarlyInv'
<1>1. /\ now \in Int /\ limit \in Int /\ \A v \in Workers : next[v] \in Int
      /\ early \in Nat /\ waitUntil' = limit'
  BY DEF PauseInv, ThrottlerTypes, Moment, EarlyInv
<1>2. \A v \in Workers \ {w} : work'[v] = work[v]
  BY DEF PauseInv, CountTypes
<1>3. work'[w] = p
  BY DEF PauseInv, CountTypes
<1>4. w \in MayBeEarly' => w \in MayBeEarly
  BY <1>1, <1>3 DEF MayBeEarly
<1>5. MayBeEarly' \subseteq MayBeEarly
  BY <1>2, <1>4 DEF MayBeEarly
<1>6. QED
  BY <1>1, <1>5, NotEarlier DEF PauseInv

LEMMA PauseInit == Init => PauseInv
<1> SUFFICES ASSUME Init PROVE PauseInv
  OBVIOUS
<1>1. CountTypes
  BY CountInit DEF CountInv
<1>2. ThrottlerTypes
  <2>1. 1 \in 1..MaxTime /\ 0 \in Moment
    BY ThrottlerAssumption DEF Moment
  <2>2. /\ now \in 1..MaxTime /\ waitUntil \in Moment /\ limit \in Moment
        /\ early \in Nat
    BY <2>1 DEF Init, ThrottlerInit
  <2>3. next \in [Workers -> Moment] /\ until \in [Workers -> Moment]
    BY <2>1 DEF Init, ThrottlerInit
  <2>4. QED
    BY <2>2, <2>3 DEF Init, ThrottlerTypes
<1>3. MayBeEarly = {}
  BY DEF Init, ThrottlerInit, MayBeEarly
<1>4. Cardinality(MayBeEarly) = 0 /\ Capacity = 2 * Cardinality(Workers)
  BY <1>3, FS_EmptySet DEF Capacity
<1>5. early = 0 /\ waitUntil = limit
  BY DEF Init, ThrottlerInit
<1>6. EarlyInv
  BY <1>4, <1>5, CapacityPositive, WorkersFinite DEF EarlyInv
<1>7. QED
  BY <1>1, <1>2, <1>6 DEF PauseInv

LEMMA WorkerStepTypes ==
  ASSUME PauseInv, NEW w \in Workers, WorkerStep(w)
  PROVE  ThrottlerTypes'
<1>t. ThrottlerTypes
  BY DEF PauseInv
<1> USE <1>t DEF ThrottlerTypes
<1>1. CASE Receive(w) \/ Exit(w) \/ Mark(w) \/ Check(w) \/ Wake(w) \/ FinalAnswer(w)
  BY <1>1 DEF Receive, Exit, Mark, Check, Wake, FinalAnswer, Goes, throttlerVars
<1>2. CASE CallFails(w) \/ Interrupted(w) \/ NoFinalAnswer(w) \/ Write(w)
  BY <1>2 DEF CallFails, Interrupted, NoFinalAnswer, Write, Done, throttlerVars
<1>3. CASE Gate(w)
  BY <1>3 DEF Gate, ReadLimit, Goes
<1>4. CASE Ask(w)
  BY <1>4 DEF Ask, SendRequest, Goes
<1>5. CASE RateLimited(w)
  <2>1. PICK resp \in Response : TooManyRequests(w, Timeout(resp))
    BY <1>5 DEF RateLimited
  <2>2. Timeout(resp) \in Nat
    <3>1. resp.retryAfter \in RetryAfter \cup {NotANumber}
      BY DEF Response
    <3>2. QED
      BY <3>1, ClientAssumption DEF Timeout
  <2>3. now + Timeout(resp) \in Moment
    BY <2>1, <2>2, ThrottlerAssumption DEF TooManyRequests, Moment
  <2>4. QED
    BY <1>5, <2>1, <2>3 DEF RateLimited, TooManyRequests, Goes
<1>6. CASE UpdateNextRequestAllowed(w)
  <2>1. until[w] \in Moment
    OBVIOUS
  <2>2. QED
    BY <1>6, <2>1 DEF UpdateNextRequestAllowed, MoveLimit, Later, Done
<1>7. CASE WritePanics(w)
  BY <1>7 DEF WritePanics, throttlerVars
<1>8. QED
  BY <1>1, <1>2, <1>3, <1>4, <1>5, <1>6, <1>7 DEF WorkerStep

LEMMA WorkerStepNotEarly ==
  ASSUME PauseInv, NEW w \in Workers, WorkerStep(w)
  PROVE  EarlyInv'
<1> USE DEF WorkPc
<1>1. CASE Receive(w)
  <2>1. PICK p \in {"mark", "gate"} : Goes(w, p)
    BY <1>1 DEF Receive
  <2>2. QED
    BY <1>1, <2>1, GoesOnNotEarlier DEF Receive, Goes, throttlerVars
<1>2. CASE Exit(w) \/ Mark(w) \/ Wake(w) \/ FinalAnswer(w)
  BY <1>2, GoesOnNotEarlier DEF Exit, Mark, Wake, FinalAnswer, Goes, throttlerVars
<1>3. CASE CallFails(w) \/ Interrupted(w) \/ NoFinalAnswer(w) \/ Write(w)
  BY <1>3, GoesOnNotEarlier
    DEF CallFails, Interrupted, NoFinalAnswer, Write, Done, throttlerVars
<1>4. CASE Gate(w)
  BY <1>4, GoesOnNotEarlier
    DEF Gate, ReadLimit, Goes, PauseInv, EarlyInv, ThrottlerTypes
<1>5. CASE Check(w)
  BY <1>5, GoesOnNotEarlier DEF Check, Allowed, Goes, throttlerVars
<1>6. CASE Ask(w)
  BY <1>6, AskIsCounted
<1>7. CASE RateLimited(w)
  BY <1>7, GoesOnNotEarlier DEF RateLimited, TooManyRequests, Goes
<1>8. CASE UpdateNextRequestAllowed(w)
  BY <1>8, MoveLimitIsFair
<1>9. CASE WritePanics(w)
  <2>1. MayBeEarly' = MayBeEarly
    BY <1>9 DEF WritePanics, throttlerVars, MayBeEarly
  <2>2. QED
    BY <1>9, <2>1 DEF WritePanics, throttlerVars, PauseInv, EarlyInv
<1>10. QED
  BY <1>1, <1>2, <1>3, <1>4, <1>5, <1>6, <1>7, <1>8, <1>9 DEF WorkerStep

\* When the clock moves, fewer requests are early.
LEMMA TickPauses ==
  ASSUME PauseInv, Tick, UNCHANGED updaterVars
  PROVE  ThrottlerTypes' /\ EarlyInv'
<1>t. ThrottlerTypes /\ EarlyInv
  BY DEF PauseInv
<1>1. now' = now + 1 /\ now < MaxTime /\ UNCHANGED <<waitUntil, next, until, limit, early>>
  BY DEF Tick
<1>2. ThrottlerTypes'
  BY <1>t, <1>1, ThrottlerAssumption DEF ThrottlerTypes, updaterVars
<1>3. now \in Int /\ limit \in Int
  BY <1>t DEF ThrottlerTypes, Moment
<1>4. MayBeEarly' \subseteq MayBeEarly
  BY <1>1, <1>3 DEF MayBeEarly, updaterVars
<1>5. EarlyInv'
  BY <1>t, <1>1, <1>4, NotEarlier DEF ThrottlerTypes, EarlyInv
<1>6. QED
  BY <1>2, <1>5

\* Neither the clock, nor the limit, nor a worker moves.
LEMMA NothingMoves ==
  ASSUME PauseInv, UNCHANGED work, UNCHANGED throttlerVars,
         ctxDone' \in BOOLEAN, closed' \in BOOLEAN, panicked' \in BOOLEAN
  PROVE  ThrottlerTypes' /\ EarlyInv'
<1>1. MayBeEarly' = MayBeEarly
  BY DEF MayBeEarly, throttlerVars
<1>2. ThrottlerTypes'
  BY DEF PauseInv, ThrottlerTypes, throttlerVars
<1>3. EarlyInv'
  BY <1>1 DEF PauseInv, EarlyInv, throttlerVars
<1>4. QED
  BY <1>2, <1>3

LEMMA PauseStep == CountInv /\ PauseInv /\ [Next]_vars => PauseInv'
<1> SUFFICES ASSUME CountInv, PauseInv, [Next]_vars PROVE PauseInv'
  OBVIOUS
<1>1. CountTypes'
  BY CountStep DEF CountInv
<1>2. ctxDone \in BOOLEAN /\ closed \in BOOLEAN /\ panicked \in BOOLEAN
  BY DEF PauseInv, ThrottlerTypes
<1>3. CASE RunStep
  <2>1. /\ UNCHANGED work /\ UNCHANGED throttlerVars
        /\ ctxDone' \in BOOLEAN /\ closed' \in BOOLEAN /\ panicked' \in BOOLEAN
    BY <1>2, <1>3 DEF RunStep, Return, Poll, PollPanics, Send, Add, Wait
  <2>2. ThrottlerTypes' /\ EarlyInv'
    BY <2>1, NothingMoves
  <2>3. QED BY <1>1, <2>2 DEF PauseInv
<1>4. CASE Cancel \/ UNCHANGED vars
  <2>1. /\ UNCHANGED work /\ UNCHANGED throttlerVars
        /\ ctxDone' \in BOOLEAN /\ closed' \in BOOLEAN /\ panicked' \in BOOLEAN
    BY <1>2, <1>4 DEF Cancel, vars, updaterVars
  <2>2. ThrottlerTypes' /\ EarlyInv'
    BY <2>1, NothingMoves
  <2>3. QED BY <1>1, <2>2 DEF PauseInv
<1>5. ASSUME NEW w \in Workers, WorkerStep(w) PROVE PauseInv'
  BY <1>1, <1>5, WorkerStepTypes, WorkerStepNotEarly DEF PauseInv
<1>6. CASE Tick /\ UNCHANGED updaterVars
  BY <1>1, <1>6, TickPauses DEF PauseInv
<1>7. QED
  BY <1>3, <1>4, <1>5, <1>6 DEF Next

LEMMA PauseInvariant == Spec => []PauseInv
<1>1. QED
  BY PauseInit, PauseStep, CountInvariant, PTL DEF Spec

\* When a 429 moves the moment before which nothing may be asked, fewer
\* requests than there are workers are still sent before it, whatever the
\* pauses are and however the answers and the looks at the clock interleave.
THEOREM FewAreEarly == Spec => []FewEarlyRequests
<1>1. PauseInv => FewEarlyRequests
  <2> SUFFICES ASSUME PauseInv PROVE early < Cardinality(Workers)
    BY DEF FewEarlyRequests
  <2>1. early \in Nat /\ early + Cardinality(MayBeEarly) < Cardinality(Workers)
    BY DEF PauseInv, ThrottlerTypes, EarlyInv
  <2>2. Cardinality(MayBeEarly) \in Nat /\ Cardinality(Workers) \in Nat
    BY WorkersFinite DEF MayBeEarly
  <2>3. QED
    BY <2>1, <2>2
<1>2. QED
  BY <1>1, PauseInvariant, PTL

\* The variables keep their types: neither the batch, nor the channel, nor the
\* WaitGroup ever counts more orders than the channel has room for.
THEOREM UpdaterTypesHold == Spec => []TypeOK
<1>1. CountInv /\ PauseInv => TypeOK
  <2> SUFFICES ASSUME CountInv, PauseInv PROVE TypeOK
    OBVIOUS
  <2>1. ThrottlerTypes /\ CountTypes /\ Counted /\ BatchFits
    BY DEF CountInv, PauseInv
  <2>2. Cardinality(Busy) \in Nat /\ Capacity \in Nat
    BY BusyFinite, CapacityPositive
  <2>3. todo \in 0..Capacity /\ ch \in 0..Capacity
    BY <2>1, <2>2 DEF CountTypes, BatchFits
  <2>4. wg \in -1..Capacity
    BY <2>1, <2>2 DEF CountTypes, Counted, BatchFits, Uncounted
  <2>5. QED
    BY <2>1, <2>3, <2>4 DEF TypeOK, CountTypes, ThrottlerTypes, Moment, RunPc, WorkPc
<1>2. QED
  BY <1>1, CountInvariant, PauseInvariant, PTL
=============================================================================
