---------------------------- MODULE IntelService ----------------------------
(***************************************************************************)
(* The cold path of the daemon (intel/service.ts): stored events are       *)
(* queued, handed one at a time to the LLM extractor, reconciled into      *)
(* facts and marked processed.  Around the extractor call stand a bounded  *)
(* queue that drops its oldest entry, a circuit breaker, a daily budget,   *)
(* rate-limit retries and, in the events table, a visibility timeout that  *)
(* lets the periodic rescan retry what a crash or a failure left behind.   *)
(*                                                                         *)
(* Time is a discrete Tick.  Timestamps are kept as ages (how many ticks   *)
(* ago), cut off where the code no longer tells larger values apart.  A    *)
(* language model is configured throughout: without one every entry point  *)
(* returns at once.                                                        *)
(***************************************************************************)
EXTENDS Integers, Sequences, FiniteSets

CONSTANTS
    EventCount,      \* events are 1..EventCount, in the order of created_at
    QueueMax,        \* DEFAULT_QUEUE_MAX
    Threshold,       \* CIRCUIT_BREAKER_FAILURE_THRESHOLD
    Window,          \* CIRCUIT_BREAKER_WINDOW_MS, in ticks
    OpenTicks,       \* CIRCUIT_BREAKER_OPEN_MS, in ticks
    Retries,         \* RATE_LIMIT_RETRIES
    Visibility,      \* INTEL_VISIBILITY_TIMEOUT_SECONDS, in ticks
    RescanEvery,     \* DEFAULT_RESCAN_INTERVAL_MS, in ticks
    MaxDaily,        \* intel.max_daily_extractions
    MaxFaults,       \* bound: extractor and store failures, rate limits included
    MaxStops,        \* bound: crashes and shutdowns
    MaxRedeliveries  \* bound: events delivered again under the same event_id

ASSUME IntelAssumption ==
    /\ EventCount \in Nat /\ QueueMax \in Nat \ {0} /\ Threshold \in Nat \ {0}
    /\ Window \in Nat /\ OpenTicks \in Nat /\ Retries \in Nat
    /\ Visibility \in Nat /\ RescanEvery \in Nat /\ MaxDaily \in Nat
    /\ MaxFaults \in Nat /\ MaxStops \in Nat /\ MaxRedeliveries \in Nat

Events == 1..EventCount
NoEvent == 0

VARIABLES
    stored,      \* rows of the events table
    claimed,     \* rows with started_at set
    age,         \* age of started_at, up to Visibility
    processed,   \* rows with processed_at set
    mode,        \* "up", "draining" (shutting down) or "down"
    queue,
    current,     \* the event `processing` stands for
    phase,       \* where processEvent is
    attempt,     \* attempt of extractWithRateLimitRetry
    circuitBreaker, failures, openFor,
    dailyExtractions,
    dayStale,    \* the wall clock has left currentDayKey
    sinceRescan,
    reconciled,  \* history: events whose facts were written
    spentToday,  \* history: extractions begun and done on this wall-clock day
    overnight,   \* history: the current job passed the budget check on an earlier day
    runsToday,   \* history: daemon runs that touched this day
    faults, stops, redeliveries

rowVars == <<stored, claimed, age, processed>>
jobVars == <<queue, current, phase, attempt>>
breakerVars == <<circuitBreaker, failures, openFor>>
budgetVars == <<dailyExtractions, dayStale>>
histVars == <<reconciled, spentToday, overnight, runsToday>>
bounds == <<faults, stops, redeliveries>>
vars == <<rowVars, mode, jobVars, breakerVars, budgetVars, sinceRescan, histVars, bounds>>

AtMost(n, top) == IF n > top THEN top ELSE n

Init ==
    /\ stored = {} /\ claimed = {} /\ processed = {}
    /\ age = [e \in Events |-> 0]
    /\ mode = "up"
    /\ queue = <<>> /\ current = NoEvent /\ phase = "idle" /\ attempt = 0
    /\ circuitBreaker = "closed" /\ failures = <<>> /\ openFor = 0
    /\ dailyExtractions = 0 /\ dayStale = FALSE
    /\ sinceRescan = 0
    /\ reconciled = {}
    /\ spentToday = 0 /\ overnight = FALSE /\ runsToday = 1
    /\ faults = 0 /\ stops = 0 /\ redeliveries = 0

-----------------------------------------------------------------------------
(* The queue *)

\* The last QueueMax entries of q \o s: each push on a full queue shifts first.
Offer(q, s) ==
    LET all == q \o s
        over == Len(all) - QueueMax
    IN  SubSeq(all, IF over > 0 THEN over + 1 ELSE 1, Len(all))

\* enqueue, once for every event of s; pump takes the first when none is processed.
Enqueue(s) ==
    IF s = <<>> THEN UNCHANGED <<queue, current, phase>>
    ELSE IF current = NoEvent
    THEN /\ current' = Head(s)
         /\ phase' = "begin"
         /\ queue' = Offer(queue, Tail(s))
    ELSE /\ queue' = Offer(queue, s)
         /\ UNCHANGED <<current, phase>>

\* Mutant: the end of processEvent does not look at the queue.
PumpNextForgets == current' = NoEvent /\ phase' = "idle" /\ UNCHANGED queue

\* processEvent is over: `processing` is reset and pump takes the next event.
PumpNext ==
    IF queue = <<>>
    THEN current' = NoEvent /\ phase' = "idle" /\ UNCHANGED queue
    ELSE current' = Head(queue) /\ phase' = "begin" /\ queue' = Tail(queue)

\* Mutant: a claim never expires.
EligibleUnclaimed == {e \in stored \ processed : e \notin claimed}

\* getUnprocessedEvents: neither processed nor claimed within the timeout.
Eligible == {e \in stored \ processed : e \notin claimed \/ age[e] >= Visibility}

\* ... the oldest QueueMax of them, oldest first.
OldestFirst(s) ==
    /\ \A i, j \in DOMAIN s : i < j => s[i] < s[j]
    /\ \A e \in Eligible : \/ \E i \in DOMAIN s : s[i] = e
                           \/ Len(s) = QueueMax /\ \A i \in DOMAIN s : s[i] < e

Batches == UNION {[1..k -> Eligible] : k \in 0..QueueMax}

-----------------------------------------------------------------------------
(* Deliveries and the rescan *)

\* An event is stored and event:stored reaches enqueue.  While intel.drain()
\* waits the server still serves, but enqueue returns.
StoreEvent(e) ==
    /\ mode # "down" /\ e \notin stored
    /\ stored' = stored \cup {e}
    /\ IF mode = "up" THEN Enqueue(<<e>>) ELSE UNCHANGED <<queue, current, phase>>
    /\ UNCHANGED <<claimed, age, processed, mode, attempt, breakerVars, budgetVars,
                   sinceRescan, histVars, bounds>>

\* A duplicate delivery finds the row and emits event:stored again.
RedeliverEvent(e) ==
    /\ mode = "up" /\ e \in stored
    /\ redeliveries < MaxRedeliveries
    /\ redeliveries' = redeliveries + 1
    /\ Enqueue(<<e>>)
    /\ UNCHANGED <<rowVars, mode, attempt, breakerVars, budgetVars, sinceRescan,
                   histVars, faults, stops>>

Rescan ==
    /\ mode = "up" /\ sinceRescan >= RescanEvery
    /\ sinceRescan' = 0
    /\ \E s \in Batches : OldestFirst(s) /\ Enqueue(s)
    /\ UNCHANGED <<rowVars, mode, attempt, breakerVars, budgetVars, histVars, bounds>>

-----------------------------------------------------------------------------
(* processEvent *)

ProbeReady == circuitBreaker # "open" \/ openFor = 0
\* Mutant: the probe runs while the breaker still says open.
ProbedStillOpen == circuitBreaker

Probed == IF circuitBreaker = "open" THEN "half-open" ELSE circuitBreaker

\* dailyExtractions after resetDayIfNeeded
UsedToday == IF dayStale THEN 0 ELSE dailyExtractions

\* The breaker is open: the event leaves the queue unprocessed.
SkipWhileOpen ==
    /\ phase = "begin" /\ ~ProbeReady
    /\ PumpNext
    /\ UNCHANGED <<rowVars, mode, attempt, breakerVars, budgetVars, sinceRescan,
                   histVars, bounds>>

SkipOverBudget ==
    /\ phase = "begin" /\ ProbeReady /\ UsedToday >= MaxDaily
    /\ circuitBreaker' = Probed
    /\ dailyExtractions' = UsedToday /\ dayStale' = FALSE
    /\ PumpNext
    /\ UNCHANGED <<rowVars, mode, attempt, failures, openFor, sinceRescan, histVars, bounds>>

\* Mutant: the job starts without its claim.
BeginJobUnclaimed ==
    /\ phase = "begin" /\ ProbeReady /\ UsedToday < MaxDaily
    /\ circuitBreaker' = Probed
    /\ dailyExtractions' = UsedToday /\ dayStale' = FALSE
    /\ phase' = "extract" /\ attempt' = 0
    /\ overnight' = FALSE
    /\ UNCHANGED <<rowVars, mode, queue, current, failures, openFor, sinceRescan,
                   reconciled, spentToday, runsToday, bounds>>

\* Mutant: one extraction too many passes the budget check.
BeginJobOneMore ==
    /\ phase = "begin" /\ ProbeReady /\ UsedToday <= MaxDaily
    /\ circuitBreaker' = Probed
    /\ dailyExtractions' = UsedToday /\ dayStale' = FALSE
    /\ claimed' = claimed \cup {current}
    /\ age' = [age EXCEPT ![current] = 0]
    /\ phase' = "extract" /\ attempt' = 0
    /\ overnight' = FALSE
    /\ UNCHANGED <<stored, processed, mode, queue, current, failures, openFor, sinceRescan,
                   reconciled, spentToday, runsToday, bounds>>

\* markStarted, and the first extractor call.
BeginJob ==
    /\ phase = "begin" /\ ProbeReady /\ UsedToday < MaxDaily
    /\ circuitBreaker' = Probed
    /\ dailyExtractions' = UsedToday /\ dayStale' = FALSE
    /\ claimed' = claimed \cup {current}
    /\ age' = [age EXCEPT ![current] = 0]
    /\ phase' = "extract" /\ attempt' = 0
    /\ overnight' = FALSE
    /\ UNCHANGED <<stored, processed, mode, queue, current, failures, openFor, sinceRescan,
                   reconciled, spentToday, runsToday, bounds>>

\* Mutant: `processing` is reset by then() and not by finally().
ClaimThrowsStuck ==
    /\ phase = "begin" /\ ProbeReady /\ UsedToday < MaxDaily
    /\ faults < MaxFaults /\ faults' = faults + 1
    /\ circuitBreaker' = Probed
    /\ dailyExtractions' = UsedToday /\ dayStale' = FALSE
    /\ mode' = "draining"
    /\ queue' = <<>> /\ phase' = "idle"
    /\ UNCHANGED <<rowVars, current, attempt, failures, openFor, sinceRescan, histVars, stops,
                   redeliveries>>

\* markStarted throws outside the try: the unhandled rejection shuts the
\* daemon down, after pump has taken one more event.
ClaimThrows ==
    /\ phase = "begin" /\ ProbeReady /\ UsedToday < MaxDaily
    /\ faults < MaxFaults /\ faults' = faults + 1
    /\ circuitBreaker' = Probed
    /\ dailyExtractions' = UsedToday /\ dayStale' = FALSE
    /\ mode' = "draining"
    /\ queue' = <<>>
    /\ IF queue = <<>> THEN current' = NoEvent /\ phase' = "idle"
                       ELSE current' = Head(queue) /\ phase' = "begin"
    /\ UNCHANGED <<rowVars, attempt, failures, openFor, sinceRescan, histVars, stops, redeliveries>>

\* In the history a job counts for the day on which it passed the budget check.
ExtractOk ==
    /\ phase = "extract"
    /\ dailyExtractions' = dailyExtractions + 1
    /\ spentToday' = IF overnight THEN spentToday ELSE spentToday + 1
    /\ phase' = "reconcile"
    /\ UNCHANGED <<rowVars, mode, queue, current, attempt, breakerVars, dayStale, sinceRescan,
                   reconciled, overnight, runsToday, bounds>>

\* A rate limit is retried after a backoff ...
RetryAfterRateLimit ==
    /\ phase = "extract" /\ attempt < Retries
    /\ faults < MaxFaults /\ faults' = faults + 1
    /\ attempt' = attempt + 1
    /\ UNCHANGED <<rowVars, mode, queue, current, phase, breakerVars, budgetVars, sinceRescan,
                   histVars, stops, redeliveries>>

\* ... and the last one leaves the breaker as it is, half-open included.
RateLimited ==
    /\ phase = "extract" /\ attempt = Retries
    /\ faults < MaxFaults /\ faults' = faults + 1
    /\ PumpNext
    /\ UNCHANGED <<rowVars, mode, attempt, breakerVars, budgetVars, sinceRescan, histVars,
                   stops, redeliveries>>

\* Mutant: the reconciliation is not awaited.
ReconcileLater ==
    /\ phase = "reconcile"
    /\ phase' = "mark"
    /\ UNCHANGED <<rowVars, mode, queue, current, attempt, breakerVars, budgetVars, sinceRescan,
                   histVars, bounds>>

Reconcile ==
    /\ phase = "reconcile"
    /\ reconciled' = reconciled \cup {current}
    /\ phase' = "mark"
    /\ UNCHANGED <<rowVars, mode, queue, current, attempt, breakerVars, budgetVars, sinceRescan,
                   spentToday, overnight, runsToday, bounds>>

\* Mutant: closeCircuit keeps the failures.
FinishJobKeepFailures ==
    /\ phase = "mark"
    /\ processed' = processed \cup {current}
    /\ claimed' = claimed \ {current}
    /\ age' = [age EXCEPT ![current] = 0]
    /\ circuitBreaker' = "closed" /\ openFor' = 0
    /\ PumpNext
    /\ UNCHANGED <<stored, mode, attempt, failures, budgetVars, sinceRescan, histVars, bounds>>

\* markProcessed clears started_at; then closeCircuit.
FinishJob ==
    /\ phase = "mark"
    /\ processed' = processed \cup {current}
    /\ claimed' = claimed \ {current}
    /\ age' = [age EXCEPT ![current] = 0]
    /\ circuitBreaker' = "closed" /\ failures' = <<>> /\ openFor' = 0
    /\ PumpNext
    /\ UNCHANGED <<stored, mode, attempt, budgetVars, sinceRescan, histVars, bounds>>

\* failures is ordered by time, so the expired ones are its first entries.
Recent(fs) ==
    LET expired == Cardinality({i \in 1..Len(fs) : fs[i] > Window})
    IN  SubSeq(fs, expired + 1, Len(fs))

\* Mutant: the breaker stays open one tick longer.
OpenCircuitLonger == circuitBreaker' = "open" /\ openFor' = OpenTicks + 1

OpenCircuit == circuitBreaker' = "open" /\ openFor' = OpenTicks

RecordFailure ==
    /\ failures' = Append(Recent(failures), 0)
    /\ IF Len(failures') < Threshold THEN UNCHANGED <<circuitBreaker, openFor>>
                                     ELSE OpenCircuit

\* Mutant: a failed job is marked processed as well.
JobThrowsMarked ==
    /\ phase \in {"extract", "reconcile", "mark"}
    /\ faults < MaxFaults /\ faults' = faults + 1
    /\ processed' = processed \cup {current}
    /\ IF circuitBreaker = "half-open" THEN OpenCircuit /\ UNCHANGED failures
                                       ELSE RecordFailure
    /\ PumpNext
    /\ UNCHANGED <<stored, claimed, age, mode, attempt, budgetVars, sinceRescan, reconciled,
                   spentToday, overnight, runsToday, stops, redeliveries>>

\* The extractor (an answer that is no JSON included), the reconciliation or
\* markProcessed throws.
JobThrows ==
    /\ phase \in {"extract", "reconcile", "mark"}
    /\ faults < MaxFaults /\ faults' = faults + 1
    /\ IF circuitBreaker = "half-open" THEN OpenCircuit /\ UNCHANGED failures
                                       ELSE RecordFailure
    /\ PumpNext
    /\ UNCHANGED <<rowVars, mode, attempt, budgetVars, sinceRescan, reconciled, spentToday,
                   overnight, runsToday, stops, redeliveries>>

-----------------------------------------------------------------------------
(* Shutdown, crash, restart and time *)

\* What createIntelService starts with, the queue apart.
FreshService ==
    /\ attempt' = 0
    /\ circuitBreaker' = "closed" /\ failures' = <<>> /\ openFor' = 0
    /\ dailyExtractions' = 0 /\ dayStale' = FALSE
    /\ sinceRescan' = 0

Drain ==
    /\ mode = "up"
    /\ stops < MaxStops /\ stops' = stops + 1
    /\ mode' = "draining"
    /\ queue' = <<>>
    /\ UNCHANGED <<rowVars, current, phase, attempt, breakerVars, budgetVars, sinceRescan,
                   histVars, faults, redeliveries>>

\* drain() returns once nothing is processed; the store is closed.
DrainDone ==
    /\ mode = "draining" /\ current = NoEvent
    /\ mode' = "down"
    /\ UNCHANGED <<rowVars, jobVars, breakerVars, budgetVars, sinceRescan, histVars, bounds>>

Crash ==
    /\ mode # "down"
    /\ stops < MaxStops /\ stops' = stops + 1
    /\ mode' = "down"
    /\ queue' = <<>> /\ current' = NoEvent /\ phase' = "idle"
    /\ FreshService
    /\ UNCHANGED <<rowVars, histVars, faults, redeliveries>>

\* A new process; start() rescans before anything else.
Restart ==
    /\ mode = "down"
    /\ mode' = "up"
    /\ \E s \in Batches :
          /\ OldestFirst(s)
          /\ IF s = <<>> THEN current' = NoEvent /\ phase' = "idle" /\ queue' = <<>>
             ELSE current' = Head(s) /\ phase' = "begin" /\ queue' = Tail(s)
    /\ FreshService
    /\ runsToday' = runsToday + 1
    /\ UNCHANGED <<rowVars, reconciled, spentToday, overnight, bounds>>

Tick ==
    /\ age' = [e \in Events |-> IF e \in claimed THEN AtMost(age[e] + 1, Visibility) ELSE age[e]]
    /\ failures' = [i \in 1..Len(failures) |-> AtMost(failures[i] + 1, Window + 1)]
    /\ openFor' = IF openFor > 0 THEN openFor - 1 ELSE 0
    /\ sinceRescan' = AtMost(sinceRescan + 1, RescanEvery)
    /\ UNCHANGED <<stored, claimed, processed, mode, jobVars, circuitBreaker, budgetVars,
                   histVars, bounds>>

NewDay ==
    /\ dayStale' = TRUE
    /\ overnight' = TRUE
    /\ spentToday' = 0
    /\ runsToday' = IF mode = "down" THEN 0 ELSE 1
    /\ UNCHANGED <<rowVars, mode, jobVars, breakerVars, dailyExtractions, sinceRescan,
                   reconciled, bounds>>

-----------------------------------------------------------------------------
JobStep ==
    \/ SkipWhileOpen \/ SkipOverBudget
    \/ BeginJob \/ ClaimThrows
    \/ ExtractOk \/ RetryAfterRateLimit \/ RateLimited
    \/ Reconcile \/ FinishJob \/ JobThrows

Next ==
    \/ \E e \in Events : StoreEvent(e) \/ RedeliverEvent(e)
    \/ Rescan \/ JobStep
    \/ Drain \/ DrainDone \/ Crash \/ Restart
    \/ Tick \/ NewDay

Spec == Init /\ [][Next]_vars

(* Time passes, the extractor answers in the end, the rescan timer fires, a
   shutdown is not left half done and the daemon is started again.           *)
Fairness ==
    /\ WF_vars(Tick) /\ WF_vars(NewDay)
    /\ WF_vars(Rescan) /\ WF_vars(JobStep)
    /\ WF_vars(DrainDone) /\ WF_vars(Restart)

FairSpec == Spec /\ Fairness

-----------------------------------------------------------------------------
(* Properties *)

TypeOK ==
    /\ stored \subseteq Events /\ claimed \subseteq stored /\ processed \subseteq stored
    /\ age \in [Events -> 0..Visibility]
    /\ mode \in {"up", "draining", "down"}
    /\ queue \in Seq(Events)
    /\ current \in Events \cup {NoEvent}
    /\ phase \in {"idle", "begin", "extract", "reconcile", "mark"}
    /\ attempt \in 0..Retries
    /\ circuitBreaker \in {"closed", "open", "half-open"}
    /\ failures \in Seq(Nat)
    /\ openFor \in 0..OpenTicks
    /\ dailyExtractions \in Nat /\ dayStale \in BOOLEAN
    /\ sinceRescan \in 0..RescanEvery
    /\ reconciled \subseteq Events
    /\ spentToday \in Nat
    /\ overnight \in BOOLEAN /\ runsToday \in Nat
    /\ faults \in Nat /\ stops \in Nat /\ redeliveries \in Nat

\* The serial worker never sleeps on work: when nothing is being processed
\* the queue is empty, and it never holds more than QueueMax events.
NoLostWakeup ==
    /\ current = NoEvent <=> phase = "idle"
    /\ current = NoEvent => queue = <<>>
    /\ Len(queue) <= QueueMax

\* An extractor call is under way only while the breaker is not open.
NoCallWhileOpen == phase \in {"extract", "reconcile", "mark"} => circuitBreaker # "open"

\* The breaker is away from closed exactly while it remembers a full threshold
\* of failures: it cannot stay closed past it, nor open or probe without it.
BreakerMatchesFailures == circuitBreaker = "closed" <=> Len(failures) < Threshold

\* An event is marked processed only after its facts were written, in whatever
\* order crashes, retries and duplicate deliveries come.
ProcessedAfterFacts == processed \subseteq reconciled

\* The job being worked on has a claim in the table, or was processed before
\* by a duplicate: a crash at any point leaves the row to the rescan.
InFlightRecoverable ==
    phase \in {"extract", "reconcile", "mark"} => current \in claimed

\* One run of the daemon does at most MaxDaily extractions in a day.
BudgetPerRun == spentToday <= MaxDaily * runsToday

(* The inductive invariant behind the properties above *)

\* The worker and its queue hold stored events only, a daemon that stops queues
\* none, a stopped one works on none, and a job about to be marked has its facts
\* written.
JobInv ==
    /\ mode = "down" => current = NoEvent
    /\ mode # "up" => queue = <<>>
    /\ phase = "mark" => current \in reconciled
    /\ current # NoEvent => current \in stored
    /\ queue \in Seq(stored)

\* How the counter of this run accounts for the extractions of the day.
BudgetInv ==
    /\ mode # "down" => runsToday >= 1
    /\ mode # "down" /\ dayStale => spentToday <= MaxDaily * (runsToday - 1)
    /\ mode # "down" /\ ~dayStale =>
          /\ dailyExtractions <= MaxDaily
          /\ spentToday <= MaxDaily * (runsToday - 1) + dailyExtractions
    /\ phase = "extract" /\ overnight => dayStale
    /\ phase = "extract" /\ ~overnight => ~dayStale /\ dailyExtractions < MaxDaily

\* What every job, whole or interrupted, can rely on.
WorkerInv == JobInv /\ BudgetInv

\* Once shutdown has begun no new job starts, except the one that pump had
\* already taken.
NoNewJobWhileDraining ==
    [][mode = "draining" /\ mode' = "draining" => current' \in {current, NoEvent}]_vars

\* Every stored event is processed in the end, across drops, failures, an open
\* breaker, a spent budget, crashes and restarts, once the failures stop.
EventuallyProcessed ==
    \A e \in Events : e \in stored ~> e \in processed

\* A shutdown ends.
DrainEnds == mode = "draining" ~> mode = "down"

(* The cold path implements SerialExtraction: a job is worked on from its claim
   to the end of processEvent.                                               *)
Working == IF phase \in {"extract", "reconcile", "mark"} THEN current ELSE NoEvent

Serial == INSTANCE SerialExtraction WITH
    None <- NoEvent, factsWritten <- reconciled, done <- processed, working <- Working

\* Every step of the service is a step of the abstract worker or changes nothing
\* the worker shows.
ImplementsSerial == Serial!Spec

=============================================================================
