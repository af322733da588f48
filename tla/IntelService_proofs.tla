------------------------- MODULE IntelService_proofs -------------------------
(***************************************************************************)
(* TLAPS proofs about IntelService, for any number of events, any limits   *)
(* and timeouts and any number of failures, stops and duplicates.          *)
(***************************************************************************)
EXTENDS IntelService, FiniteSetTheorems, SequenceTheorems, TLAPS

USE IntelAssumption

-----------------------------------------------------------------------------
(* Operators on sequences *)

\* What the queue keeps of an offer: its members, and no more than QueueMax.
LEMMA OfferType ==
    ASSUME NEW T, NEW q \in Seq(T), NEW s \in Seq(T)
    PROVE  Offer(q, s) \in Seq(T) /\ Len(Offer(q, s)) <= QueueMax
<1> DEFINE all == q \o s
           from == IF Len(all) - QueueMax > 0 THEN Len(all) - QueueMax + 1 ELSE 1
<1>1. all \in Seq(T) /\ Len(all) \in Nat
  BY ConcatProperties, LenProperties
<1>2. from \in 1..(Len(all) + 1)
  BY <1>1
<1>3. Offer(q, s) = SubSeq(all, from, Len(all))
  BY DEF Offer
<1> HIDE DEF all
<1>4. /\ SubSeq(all, from, Len(all)) \in Seq(T)
      /\ Len(SubSeq(all, from, Len(all))) =
            IF from <= Len(all) THEN Len(all) - from + 1 ELSE 0
  BY <1>1, <1>2, SubSeqProperties
<1>5. Len(SubSeq(all, from, Len(all))) <= QueueMax
  BY <1>1, <1>2, <1>4
<1>6. QED
  BY <1>3, <1>4, <1>5

\* A rescan hands over at most QueueMax stored events.
LEMMA BatchType ==
    ASSUME stored \subseteq Events, NEW s \in Batches
    PROVE  s \in Seq(Events) /\ s \in Seq(stored) /\ Len(s) <= QueueMax
<1>1. PICK k \in 0..QueueMax : s \in [1..k -> Eligible]
  BY DEF Batches
<1>2. Eligible \subseteq stored
  BY DEF Eligible
<1>3. QED
  BY <1>1, <1>2

\* Forgetting expired failures leaves a list of ages that is no longer.
LEMMA RecentType ==
    ASSUME NEW fs \in Seq(Nat)
    PROVE  Recent(fs) \in Seq(Nat) /\ Len(Recent(fs)) <= Len(fs)
<1> DEFINE old == {i \in 1..Len(fs) : fs[i] > Window}
<1>1. Len(fs) \in Nat
  BY LenProperties
<1>2. IsFiniteSet(1..Len(fs)) /\ Cardinality(1..Len(fs)) = Len(fs)
  <2> DEFINE n == Len(fs)
  <2>1. n \in Nat
    BY <1>1
  <2> HIDE DEF n
  <2>2. IsFiniteSet(1..n) /\ Cardinality(1..n) = IF 1 > n THEN 0 ELSE n - 1 + 1
    BY <2>1, FS_Interval
  <2>3. QED
    BY <2>1, <2>2 DEF n
<1>3. IsFiniteSet(old) /\ Cardinality(old) <= Len(fs)
  BY <1>2, FS_Subset
<1>4. Cardinality(old) \in Nat
  BY <1>3, FS_CardinalityType
<1>5. Recent(fs) = SubSeq(fs, Cardinality(old) + 1, Len(fs))
  BY DEF Recent
<1> HIDE DEF old
<1>6. /\ SubSeq(fs, Cardinality(old) + 1, Len(fs)) \in Seq(Nat)
      /\ Len(SubSeq(fs, Cardinality(old) + 1, Len(fs))) =
            IF Cardinality(old) + 1 <= Len(fs) THEN Len(fs) - (Cardinality(old) + 1) + 1 ELSE 0
  BY <1>1, <1>3, <1>4, SubSeqProperties
<1>7. QED
  BY <1>1, <1>4, <1>5, <1>6

-----------------------------------------------------------------------------
(* Type correctness *)

\* The initial state is well typed.
LEMMA InitType == Init => TypeOK
<1> SUFFICES ASSUME Init PROVE TypeOK
  OBVIOUS
<1>1. queue \in Seq(Events) /\ failures \in Seq(Nat)
  BY DEF Init
<1>2. age \in [Events -> 0..Visibility] /\ openFor \in 0..OpenTicks /\ attempt \in 0..Retries
  BY DEF Init
<1>3. sinceRescan \in 0..RescanEvery
  BY DEF Init
<1>4. QED
  BY <1>1, <1>2, <1>3 DEF Init, TypeOK

\* Taking the next event from the queue keeps the worker's variables typed.
LEMMA PumpType ==
    ASSUME TypeOK, PumpNext
    PROVE  /\ queue' \in Seq(Events) /\ current' \in Events \cup {NoEvent}
           /\ phase' \in {"idle", "begin"} /\ Len(queue') <= Len(queue)
           /\ (current' = NoEvent <=> phase' = "idle")
           /\ (current' = NoEvent => queue' = <<>>)
<1>1. CASE queue = <<>>
  BY <1>1 DEF PumpNext, TypeOK
<1>2. CASE queue # <<>>
  <2> queue \in Seq(Events)
    BY DEF TypeOK
  <2>1. /\ Head(queue) \in Events /\ Tail(queue) \in Seq(Events)
        /\ Len(Tail(queue)) = Len(queue) - 1 /\ Len(queue) \in Nat
    BY <1>2, HeadTailProperties, LenProperties
  <2>2. QED
    BY <1>2, <2>1 DEF PumpNext, Events, NoEvent
<1>3. QED
  BY <1>1, <1>2

\* So does enqueue, which leaves at most QueueMax events waiting.
LEMMA EnqueueType ==
    ASSUME TypeOK, NoLostWakeup, NEW s \in Seq(Events), Enqueue(s)
    PROVE  /\ queue' \in Seq(Events) /\ current' \in Events \cup {NoEvent}
           /\ phase' \in {phase, "begin"} /\ Len(queue') <= QueueMax
           /\ (current' = NoEvent <=> phase' = "idle")
           /\ (current' = NoEvent => queue' = <<>>)
           /\ (current # NoEvent => current' = current /\ phase' = phase)
<1>1. CASE s = <<>>
  BY <1>1 DEF Enqueue, TypeOK, NoLostWakeup
<1>2. CASE s # <<>> /\ current = NoEvent
  <2>1. Head(s) \in Events /\ Tail(s) \in Seq(Events)
    BY <1>2, HeadTailProperties
  <2>2. Offer(queue, Tail(s)) \in Seq(Events) /\ Len(Offer(queue, Tail(s))) <= QueueMax
    BY <2>1, OfferType DEF TypeOK
  <2>3. QED
    BY <1>2, <2>1, <2>2 DEF Enqueue, Events, NoEvent
<1>3. CASE s # <<>> /\ current # NoEvent
  <2>1. Offer(queue, s) \in Seq(Events) /\ Len(Offer(queue, s)) <= QueueMax
    BY OfferType DEF TypeOK
  <2>2. QED
    BY <1>3, <2>1 DEF Enqueue, TypeOK, NoLostWakeup
<1>4. QED
  BY <1>1, <1>2, <1>3

\* Types and the serial worker's discipline, together inductive.
Core == TypeOK /\ NoLostWakeup

\* The steps of processEvent that keep its event.
LEMMA JobCore ==
    ASSUME Core, BeginJob \/ ExtractOk \/ RetryAfterRateLimit \/ Reconcile, JobInv
    PROVE  Core'
<1> USE DEF Core, TypeOK, NoLostWakeup, rowVars, breakerVars, budgetVars, histVars, bounds
<1>1. CASE BeginJob
  <2>1. /\ claimed' \subseteq stored' /\ age' \in [Events -> 0..Visibility]
        /\ attempt' \in 0..Retries
    BY <1>1 DEF BeginJob, JobInv, NoEvent
  <2>2. dailyExtractions' \in Nat /\ circuitBreaker' \in {"closed", "open", "half-open"}
    BY <1>1 DEF BeginJob, UsedToday, Probed
  <2>3. QED
    BY <1>1, <2>1, <2>2 DEF BeginJob
<1>2. CASE ExtractOk
  BY <1>2 DEF ExtractOk
<1>3. CASE RetryAfterRateLimit
  BY <1>3 DEF RetryAfterRateLimit
<1>4. CASE Reconcile
  BY <1>4 DEF Reconcile, NoEvent
<1>5. QED
  BY <1>1, <1>2, <1>3, <1>4

\* The steps that end processEvent.
LEMMA PumpCore ==
    ASSUME Core, JobInv,
           SkipWhileOpen \/ SkipOverBudget \/ RateLimited \/ FinishJob \/ JobThrows
    PROVE  Core'
<1> USE DEF Core, TypeOK, rowVars, breakerVars, budgetVars, histVars, bounds
<1>1. PumpNext
  BY DEF SkipWhileOpen, SkipOverBudget, RateLimited, FinishJob, JobThrows
<1>2. NoLostWakeup' /\ queue' \in Seq(Events) /\ current' \in Events \cup {NoEvent}
      /\ phase' \in {"idle", "begin"}
  <2>1. Len(queue) \in Nat /\ QueueMax \in Nat
    BY LenProperties
  <2>2. Len(queue') \in Nat
    BY <1>1, PumpType, LenProperties
  <2>3. QED
    BY <1>1, <2>1, <2>2, PumpType DEF NoLostWakeup
<1>3. CASE SkipWhileOpen
  BY <1>2, <1>3 DEF SkipWhileOpen
<1>4. CASE SkipOverBudget
  BY <1>2, <1>4 DEF SkipOverBudget, UsedToday, Probed
<1>5. CASE RateLimited
  BY <1>2, <1>5 DEF RateLimited
<1>6. CASE FinishJob
  <2>1. processed' \subseteq stored' /\ age' \in [Events -> 0..Visibility]
    BY <1>6 DEF FinishJob, JobInv, NoLostWakeup
  <2>2. failures' \in Seq(Nat) /\ openFor' \in 0..OpenTicks
    BY <1>6 DEF FinishJob
  <2>3. QED
    BY <1>2, <1>6, <2>1, <2>2 DEF FinishJob
<1>7. CASE JobThrows
  <2>1. failures' \in Seq(Nat)
    <3>1. Recent(failures) \in Seq(Nat)
      BY RecentType
    <3>2. Append(Recent(failures), 0) \in Seq(Nat)
      BY <3>1, AppendProperties
    <3>3. QED
      BY <1>7, <3>2 DEF JobThrows, RecordFailure
  <2>2. circuitBreaker' \in {"closed", "open", "half-open"} /\ openFor' \in 0..OpenTicks
    BY <1>7 DEF JobThrows, RecordFailure, OpenCircuit
  <2>3. QED
    BY <1>2, <1>7, <2>1, <2>2 DEF JobThrows
<1>8. QED
  BY <1>3, <1>4, <1>5, <1>6, <1>7

\* A fresh process: the claims and the history are all that is left.
LEMMA FreshCore ==
    ASSUME Core, FreshService
    PROVE  /\ attempt' \in 0..Retries /\ failures' \in Seq(Nat) /\ openFor' \in 0..OpenTicks
           /\ circuitBreaker' \in {"closed", "open", "half-open"}
           /\ dailyExtractions' \in Nat /\ dayStale' \in BOOLEAN
           /\ sinceRescan' \in 0..RescanEvery
<1>1. failures' \in Seq(Nat)
  BY EmptySeq DEF FreshService
<1>2. attempt' \in 0..Retries /\ openFor' \in 0..OpenTicks /\ sinceRescan' \in 0..RescanEvery
  BY DEF FreshService
<1>3. QED
  BY <1>1, <1>2 DEF FreshService

\* Deliveries and the rescan.
LEMMA DeliveryCore ==
    ASSUME Core, (\E e \in Events : StoreEvent(e) \/ RedeliverEvent(e)) \/ Rescan
    PROVE  Core'
<1> USE DEF Core, TypeOK, rowVars, breakerVars, budgetVars, histVars, bounds
<1>1. ASSUME NEW e \in Events, StoreEvent(e) PROVE Core'
  <2>1. <<e>> \in Seq(Events)
    OBVIOUS
  <2>2. CASE mode = "up"
    BY <1>1, <2>1, <2>2, EnqueueType DEF StoreEvent, NoLostWakeup
  <2>3. CASE mode # "up"
    BY <1>1, <2>3 DEF StoreEvent, NoLostWakeup
  <2>4. QED
    BY <2>2, <2>3
<1>2. ASSUME NEW e \in Events, RedeliverEvent(e) PROVE Core'
  <2>1. <<e>> \in Seq(Events)
    OBVIOUS
  <2>2. /\ queue' \in Seq(Events) /\ current' \in Events \cup {NoEvent}
        /\ phase' \in {phase, "begin"} /\ NoLostWakeup'
    BY <1>2, <2>1, EnqueueType DEF RedeliverEvent, NoLostWakeup
  <2>3. QED
    BY <1>2, <2>2 DEF RedeliverEvent
<1>3. CASE Rescan
  <2>1. PICK s \in Batches : Enqueue(s)
    BY <1>3 DEF Rescan
  <2>2. s \in Seq(Events)
    BY BatchType
  <2>3. /\ queue' \in Seq(Events) /\ current' \in Events \cup {NoEvent}
        /\ phase' \in {phase, "begin"} /\ NoLostWakeup'
    BY <2>1, <2>2, EnqueueType DEF NoLostWakeup
  <2>4. QED
    BY <1>3, <2>3 DEF Rescan
<1>4. QED
  BY <1>1, <1>2, <1>3

\* Shutdown, crash, restart and time.
LEMMA ControlCore ==
    ASSUME Core, JobInv,
           ClaimThrows \/ Drain \/ DrainDone \/ Crash \/ Restart \/ Tick \/ NewDay
    PROVE  Core'
<1> USE DEF Core, TypeOK, rowVars, jobVars, breakerVars, budgetVars, histVars, bounds
<1>1. CASE ClaimThrows
  <2>1. queue # <<>> => Head(queue) \in Events
    BY HeadTailProperties
  <2>2. /\ queue' = <<>> /\ queue' \in Seq(Events) /\ Len(queue') = 0
        /\ current' \in Events \cup {NoEvent} /\ phase' \in {"idle", "begin"}
        /\ current' = NoEvent <=> phase' = "idle"
    BY <1>1, <2>1, EmptySeq DEF ClaimThrows, Events, NoEvent
  <2>3. dailyExtractions' \in Nat /\ circuitBreaker' \in {"closed", "open", "half-open"}
    BY <1>1 DEF ClaimThrows, UsedToday, Probed
  <2>4. NoLostWakeup'
    BY <2>2 DEF NoLostWakeup
  <2>5. TypeOK'
    <3>1. UNCHANGED <<rowVars, attempt, failures, openFor, sinceRescan, histVars>>
      BY <1>1 DEF ClaimThrows
    <3>2. mode' = "draining" /\ dayStale' = FALSE /\ UNCHANGED <<stops, redeliveries>>
          /\ faults' = faults + 1
      BY <1>1 DEF ClaimThrows
    <3>3. queue' \in Seq(Events) /\ current' \in Events \cup {NoEvent} /\ phase' \in {"idle", "begin"}
      BY <2>2
    <3>4. stored' \subseteq Events /\ claimed' \subseteq stored' /\ processed' \subseteq stored'
          /\ age' \in [Events -> 0..Visibility] /\ attempt' \in 0..Retries
      BY <3>1
    <3>5. failures' \in Seq(Nat) /\ openFor' \in 0..OpenTicks /\ sinceRescan' \in 0..RescanEvery
      BY <3>1
    <3>6. reconciled' \subseteq Events /\ spentToday' \in Nat
          /\ overnight' \in BOOLEAN /\ runsToday' \in Nat
      BY <3>1
    <3>7. dayStale' \in BOOLEAN /\ mode' \in {"up", "draining", "down"}
      BY <3>2
    <3>8. faults' \in Nat /\ stops' \in Nat /\ redeliveries' \in Nat
      BY <3>2
    <3>9. QED
      BY <2>3, <3>3, <3>4, <3>5, <3>6, <3>7, <3>8
  <2>6. QED
    BY <2>4, <2>5
<1>2. CASE Drain
  BY <1>2, EmptySeq DEF Drain, NoLostWakeup
<1>3. CASE DrainDone
  BY <1>3 DEF DrainDone, NoLostWakeup
<1>4. CASE Crash
  <2>1. queue' \in Seq(Events) /\ Len(queue') = 0
    BY <1>4, EmptySeq DEF Crash
  <2>2. QED
    BY <1>4, <2>1, FreshCore DEF Crash, NoLostWakeup
<1>5. CASE Restart
  <2>1. PICK s \in Batches :
           IF s = <<>> THEN current' = NoEvent /\ phase' = "idle" /\ queue' = <<>>
           ELSE current' = Head(s) /\ phase' = "begin" /\ queue' = Tail(s)
    BY <1>5 DEF Restart
  <2>2. s \in Seq(Events) /\ Len(s) <= QueueMax /\ Len(s) \in Nat
    BY BatchType, LenProperties
  <2>3. s # <<>> => /\ Head(s) \in Events /\ Tail(s) \in Seq(Events)
                    /\ Len(Tail(s)) = Len(s) - 1
    BY <2>2, HeadTailProperties
  <2>9. s # <<>> => Len(Tail(s)) <= QueueMax
    BY <2>2, <2>3
  <2> DEFINE Fresh ==
         /\ attempt' \in 0..Retries /\ failures' \in Seq(Nat) /\ openFor' \in 0..OpenTicks
         /\ circuitBreaker' \in {"closed", "open", "half-open"}
         /\ dailyExtractions' \in Nat /\ dayStale' \in BOOLEAN
         /\ sinceRescan' \in 0..RescanEvery
  <2>7. Fresh
    BY <1>5, FreshCore DEF Restart
  <2>8. /\ UNCHANGED <<rowVars, reconciled, spentToday, overnight, bounds>>
        /\ mode' = "up" /\ runsToday' = runsToday + 1
    BY <1>5 DEF Restart
  <2>4. CASE s = <<>>
    <3>1. queue' \in Seq(Events) /\ Len(queue') = 0 /\ current' = NoEvent /\ phase' = "idle"
      BY <2>1, <2>4, EmptySeq
    <3>2. NoLostWakeup'
      BY <3>1, EmptySeq, <2>1, <2>4 DEF NoLostWakeup
    <3>3. TypeOK'
      BY <3>1, <2>7, <2>8
    <3>4. QED
      BY <3>2, <3>3
  <2>5. CASE s # <<>>
    <3>1. /\ queue' \in Seq(Events) /\ Len(queue') <= QueueMax
          /\ current' \in Events /\ phase' = "begin"
      BY <2>1, <2>3, <2>9, <2>5
    <3>2. current' # NoEvent
      BY <3>1 DEF Events, NoEvent
    <3>3. NoLostWakeup'
      BY <3>1, <3>2 DEF NoLostWakeup
    <3>4. TypeOK'
      BY <3>1, <2>7, <2>8
    <3>5. QED
      BY <3>3, <3>4
  <2>6. QED
    BY <2>4, <2>5
<1>6. CASE Tick
  <2>1. failures' \in Seq(Nat)
    BY <1>6 DEF Tick, AtMost
  <2>2. /\ age' \in [Events -> 0..Visibility] /\ sinceRescan' \in 0..RescanEvery
        /\ openFor' \in 0..OpenTicks
    BY <1>6 DEF Tick, AtMost
  <2>3. QED
    BY <1>6, <2>1, <2>2 DEF Tick, NoLostWakeup
<1>7. CASE NewDay
  BY <1>7 DEF NewDay, NoLostWakeup
<1>8. QED
  BY <1>1, <1>2, <1>3, <1>4, <1>5, <1>6, <1>7

-----------------------------------------------------------------------------
(* The queue and the job hold stored events *)

\* A sequence over a set is one over any larger set.
LEMMA SeqGrows == ASSUME NEW S, NEW T, S \subseteq T, NEW s \in Seq(S) PROVE s \in Seq(T)
OBVIOUS

\* enqueue takes stored events to the queue or to the worker.
LEMMA EnqueueStored ==
    ASSUME NEW T, queue \in Seq(T), NEW s \in Seq(T), Enqueue(s)
    PROVE  /\ queue' \in Seq(T)
           /\ current' = current \/ current' \in T
           /\ phase' = phase \/ (phase' = "begin" /\ current = NoEvent)
           /\ current # NoEvent => current' = current /\ phase' = phase
<1>1. CASE s = <<>>
  BY <1>1 DEF Enqueue
<1>2. CASE s # <<>>
  <2>1. Head(s) \in T /\ Tail(s) \in Seq(T)
    BY <1>2, HeadTailProperties
  <2>2. Offer(queue, Tail(s)) \in Seq(T) /\ Offer(queue, s) \in Seq(T)
    BY <2>1, OfferType
  <2>3. QED
    BY <1>2, <2>1, <2>2 DEF Enqueue
<1>3. QED
  BY <1>1, <1>2

\* So does the pump.
LEMMA PumpStored ==
    ASSUME NEW T, queue \in Seq(T), PumpNext
    PROVE  /\ queue' \in Seq(T) /\ current' \in T \cup {NoEvent}
           /\ phase' \in {"idle", "begin"}
<1>1. CASE queue = <<>>
  BY <1>1 DEF PumpNext
<1>2. CASE queue # <<>>
  BY <1>2, HeadTailProperties DEF PumpNext
<1>3. QED
  BY <1>1, <1>2

\* JobInv is inductive on top of Core.
LEMMA JobInvStep ==
    ASSUME Core, JobInv, Next
    PROVE  JobInv'
<1> USE DEF JobInv, rowVars, jobVars, breakerVars, budgetVars, histVars, bounds
<1>0. (phase # "idle" => mode # "down") /\ (phase = "mark" => current # NoEvent)
  BY DEF Core, NoLostWakeup
<1>1. ASSUME NEW e \in Events, StoreEvent(e) PROVE JobInv'
  <2>1. stored \subseteq stored' /\ e \in stored' /\ stored' = stored \cup {e}
    BY <1>1 DEF StoreEvent
  <2>2. queue \in Seq(stored') /\ <<e>> \in Seq(stored')
    BY <2>1, SeqGrows
  <2>3. CASE mode = "up"
    <3>1. Enqueue(<<e>>) /\ mode' = mode /\ reconciled' = reconciled
      BY <1>1, <2>3 DEF StoreEvent
    <3>2. QED
      BY <1>0, <2>1, <2>2, <2>3, <3>1, EnqueueStored
  <2>4. CASE mode # "up"
    BY <1>1, <2>1, <2>2, <2>4 DEF StoreEvent
  <2>5. QED
    BY <2>3, <2>4
<1>2. ASSUME NEW e \in Events, RedeliverEvent(e) PROVE JobInv'
  <2>1. <<e>> \in Seq(stored)
    BY <1>2 DEF RedeliverEvent
  <2>2. Enqueue(<<e>>) /\ mode' = "up" /\ reconciled' = reconciled /\ stored' = stored
    BY <1>2 DEF RedeliverEvent
  <2>3. QED
    BY <1>0, <2>1, <2>2, EnqueueStored
<1>3. CASE Rescan
  <2>1. PICK s \in Batches : Enqueue(s)
    BY <1>3 DEF Rescan
  <2>2. s \in Seq(stored)
    BY BatchType DEF Core, TypeOK
  <2>3. mode' = "up" /\ reconciled' = reconciled /\ stored' = stored
    BY <1>3 DEF Rescan
  <2>4. QED
    BY <1>0, <2>1, <2>2, <2>3, EnqueueStored
<1>4. CASE BeginJob
  BY <1>0, <1>4 DEF BeginJob
<1>5. CASE ExtractOk
  BY <1>5 DEF ExtractOk
<1>6. CASE RetryAfterRateLimit
  BY <1>6 DEF RetryAfterRateLimit
<1>7. CASE Reconcile
  BY <1>7 DEF Reconcile
<1>8. ASSUME SkipWhileOpen \/ SkipOverBudget \/ RateLimited \/ FinishJob \/ JobThrows PROVE JobInv'
  <2>1. PumpNext /\ UNCHANGED <<mode, stored, reconciled>> /\ phase # "idle"
    BY <1>8 DEF SkipWhileOpen, SkipOverBudget, RateLimited, FinishJob, JobThrows
  <2>2. mode # "down"
    BY <1>0, <2>1
  <2>3. queue = <<>> => queue' = <<>>
    BY <2>1 DEF PumpNext
  <2>4. queue' \in Seq(stored) /\ current' \in stored \cup {NoEvent} /\ phase' \in {"idle", "begin"}
    BY <2>1, PumpStored
  <2>5. QED
    BY <2>1, <2>2, <2>3, <2>4
<1>9. CASE ClaimThrows
  <2>1. queue' = <<>> /\ queue' \in Seq(stored') /\ stored' = stored /\ reconciled' = reconciled
        /\ mode' = "draining" /\ phase' # "mark"
    BY <1>9, EmptySeq DEF ClaimThrows
  <2>2. current' \in stored \cup {NoEvent}
    BY <1>9, HeadTailProperties DEF ClaimThrows
  <2>3. QED
    BY <2>1, <2>2
<1>10. CASE Drain
  BY <1>10, EmptySeq DEF Drain
<1>11. CASE DrainDone
  BY <1>11 DEF DrainDone
<1>12. CASE Crash
  BY <1>12, EmptySeq DEF Crash
<1>13. CASE Restart
  <2>1. PICK s \in Batches :
           IF s = <<>> THEN current' = NoEvent /\ phase' = "idle" /\ queue' = <<>>
           ELSE current' = Head(s) /\ phase' = "begin" /\ queue' = Tail(s)
    BY <1>13 DEF Restart
  <2>2. s \in Seq(stored)
    BY BatchType DEF Core, TypeOK
  <2>3. queue' \in Seq(stored) /\ current' \in stored \cup {NoEvent} /\ phase' # "mark"
    BY <2>1, <2>2, HeadTailProperties, EmptySeq
  <2>4. stored' = stored /\ mode' = "up"
    BY <1>13 DEF Restart
  <2>5. QED
    BY <2>3, <2>4
<1>14. CASE Tick
  BY <1>14 DEF Tick
<1>15. CASE NewDay
  BY <1>15 DEF NewDay
<1>16. QED
  BY <1>1, <1>2, <1>3, <1>4, <1>5, <1>6, <1>7, <1>8, <1>9, <1>10, <1>11, <1>12, <1>13,
     <1>14, <1>15 DEF Next, JobStep

-----------------------------------------------------------------------------
(* Breaker, claims, facts and budget *)

InFlight == phase \in {"extract", "reconcile", "mark"}

\* What a delivery, a rescan and the passing of time leave alone.
LEMMA QuietSteps ==
    ASSUME Core,
           (\E e \in Events : StoreEvent(e) \/ RedeliverEvent(e)) \/ Rescan \/ Drain
              \/ DrainDone \/ Tick
    PROVE  /\ UNCHANGED <<claimed, processed, reconciled, circuitBreaker, budgetVars,
                          spentToday, overnight, runsToday>>
           /\ InFlight' => InFlight /\ current' = current /\ phase' = phase
           /\ Len(failures') = Len(failures)
           /\ mode' # "down" => mode # "down"
<1> USE DEF rowVars, jobVars, breakerVars, budgetVars, histVars, bounds, InFlight
<1>1. CASE (\E e \in Events : StoreEvent(e) \/ RedeliverEvent(e)) \/ Rescan
  <2>1. /\ UNCHANGED <<claimed, processed, reconciled, circuitBreaker, budgetVars, failures,
                       spentToday, overnight, runsToday, mode>>
    BY <1>1 DEF StoreEvent, RedeliverEvent, Rescan
  <2>2. UNCHANGED <<current, phase>> \/ phase' = "begin"
    BY <1>1 DEF StoreEvent, RedeliverEvent, Rescan, Enqueue
  <2>3. QED
    BY <2>1, <2>2
<1>2. CASE Drain \/ DrainDone
  BY <1>2 DEF Drain, DrainDone
<1>3. CASE Tick
  <2>1. Len(failures) \in Nat
    BY LenProperties DEF Core, TypeOK
  <2>2. Len(failures') = Len(failures)
    BY <1>3, <2>1 DEF Tick
  <2>3. QED
    BY <1>3, <2>2 DEF Tick
<1>4. QED
  BY <1>1, <1>2, <1>3

\* The four invariants of a job, inductive together on top of Core and JobInv.
JobSafety ==
    NoCallWhileOpen /\ BreakerMatchesFailures /\ ProcessedAfterFacts /\ InFlightRecoverable

\* Each step keeps the breaker honest, the claim of a job in the table and the
\* facts of a processed event written.
LEMMA JobSafetyStep ==
    ASSUME Core, JobInv, JobSafety, Next
    PROVE  JobSafety'
<1> USE DEF JobSafety, NoCallWhileOpen, BreakerMatchesFailures, ProcessedAfterFacts,
        InFlightRecoverable, rowVars, jobVars, breakerVars, budgetVars, histVars, bounds
<1>0. Len(failures) \in Nat
  BY LenProperties DEF Core, TypeOK
<1>1. CASE (\E e \in Events : StoreEvent(e) \/ RedeliverEvent(e)) \/ Rescan \/ Drain
              \/ DrainDone \/ Tick
  BY <1>1, QuietSteps DEF InFlight
<1>2. CASE BeginJob
  BY <1>2 DEF BeginJob, Probed
<1>3. CASE ExtractOk \/ RetryAfterRateLimit
  BY <1>3 DEF ExtractOk, RetryAfterRateLimit
<1>4. CASE Reconcile
  BY <1>4 DEF Reconcile
<1>5. CASE SkipWhileOpen \/ SkipOverBudget \/ RateLimited
  <2>1. PumpNext /\ UNCHANGED <<claimed, processed, reconciled, failures>>
        /\ (circuitBreaker' = "closed" <=> circuitBreaker = "closed")
    BY <1>5 DEF SkipWhileOpen, SkipOverBudget, RateLimited, Probed
  <2>2. phase' \in {"idle", "begin"}
    BY <2>1 DEF PumpNext
  <2>3. QED
    BY <2>1, <2>2
<1>6. CASE FinishJob
  <2>1. phase' \in {"idle", "begin"}
    BY <1>6 DEF FinishJob, PumpNext
  <2>2. Len(failures') = 0 /\ circuitBreaker' = "closed"
    BY <1>6 DEF FinishJob
  <2>3. processed' \subseteq reconciled'
    BY <1>6 DEF FinishJob, JobInv
  <2>4. QED
    BY <2>1, <2>2, <2>3
<1>7. CASE JobThrows
  <2>1. phase' \in {"idle", "begin"} /\ UNCHANGED <<processed, reconciled>>
    BY <1>7 DEF JobThrows, PumpNext
  <2>2. circuitBreaker # "open"
    BY <1>7 DEF JobThrows
  <2>3. CASE circuitBreaker = "half-open"
    BY <1>7, <2>1, <2>3 DEF JobThrows, OpenCircuit
  <2>4. CASE circuitBreaker = "closed"
    <3>1. RecordFailure
      BY <1>7, <2>4 DEF JobThrows
    <3>2. BreakerMatchesFailures'
      BY <2>4, <3>1 DEF RecordFailure, OpenCircuit
    <3>3. QED
      BY <2>1, <3>2
  <2>5. QED
    BY <2>2, <2>3, <2>4 DEF Core, TypeOK
<1>8. CASE ClaimThrows
  BY <1>8 DEF ClaimThrows, Probed
<1>9. CASE Crash
  BY <1>9 DEF Crash, FreshService
<1>10. CASE Restart
  <2>1. phase' \in {"idle", "begin"} /\ FreshService /\ UNCHANGED <<processed, reconciled>>
    BY <1>10 DEF Restart
  <2>2. Len(failures') = 0 /\ circuitBreaker' = "closed"
    BY <2>1 DEF FreshService
  <2>3. QED
    BY <2>1, <2>2
<1>11. CASE NewDay
  BY <1>11 DEF NewDay
<1>12. QED
  BY <1>1, <1>2, <1>3, <1>4, <1>5, <1>6, <1>7, <1>8, <1>9, <1>10, <1>11 DEF Next, JobStep

\* A multiple of the daily limit is a natural number and grows by the limit.
LEMMA Multiples ==
    ASSUME NEW r \in Nat
    PROVE  /\ MaxDaily * r \in Nat
           /\ MaxDaily * (r + 1) = MaxDaily * r + MaxDaily
           /\ r >= 1 => MaxDaily * (r - 1) \in Nat /\ MaxDaily * r = MaxDaily * (r - 1) + MaxDaily
           /\ MaxDaily * 0 = 0
BY Z3

\* The counter of a run accounts for what the day has spent.
LEMMA BudgetStep ==
    ASSUME Core, JobInv, BudgetInv, BudgetPerRun, Next
    PROVE  BudgetInv' /\ BudgetPerRun'
<1> USE DEF BudgetInv, BudgetPerRun, rowVars, jobVars, breakerVars, budgetVars, histVars, bounds
<1>0. /\ runsToday \in Nat /\ spentToday \in Nat /\ dailyExtractions \in Nat
      /\ dayStale \in BOOLEAN /\ overnight \in BOOLEAN /\ MaxDaily \in Nat
      /\ phase # "idle" => mode # "down"
  BY DEF Core, TypeOK, NoLostWakeup, JobInv
<1>1. CASE (\E e \in Events : StoreEvent(e) \/ RedeliverEvent(e)) \/ Rescan \/ Drain
              \/ DrainDone \/ Tick
  <2>1. phase' = "extract" => phase = "extract"
    BY <1>1, QuietSteps DEF InFlight
  <2>2. QED
    BY <1>1, <2>1, QuietSteps
<1>2. CASE SkipWhileOpen \/ RateLimited
  <2>1. phase' # "extract" /\ UNCHANGED <<mode, budgetVars, spentToday, runsToday>>
    BY <1>2 DEF SkipWhileOpen, RateLimited, PumpNext
  <2>2. QED
    BY <2>1
<1>3. CASE SkipOverBudget \/ ClaimThrows
  <2>1. /\ phase' # "extract" /\ ~dayStale' /\ dailyExtractions' = UsedToday
        /\ UNCHANGED <<spentToday, runsToday>> /\ mode # "down"
    BY <1>0, <1>3 DEF SkipOverBudget, ClaimThrows, PumpNext
  <2>2. QED
    BY <1>0, <2>1 DEF UsedToday
<1>4. CASE BeginJob
  <2>1. /\ ~dayStale' /\ ~overnight' /\ dailyExtractions' = UsedToday /\ UsedToday < MaxDaily
        /\ UNCHANGED <<spentToday, runsToday>> /\ mode # "down" /\ phase' = "extract"
    BY <1>0, <1>4 DEF BeginJob
  <2>2. QED
    BY <1>0, <2>1 DEF UsedToday
<1>5. CASE ExtractOk
  <2>1. /\ phase' = "reconcile" /\ mode # "down" /\ mode' = mode
        /\ dailyExtractions' = dailyExtractions + 1
        /\ spentToday' = IF overnight THEN spentToday ELSE spentToday + 1
        /\ UNCHANGED <<dayStale, runsToday>> /\ phase = "extract"
    BY <1>0, <1>5 DEF ExtractOk
  <2>2. MaxDaily * (runsToday - 1) \in Nat /\ MaxDaily * runsToday = MaxDaily * (runsToday - 1) + MaxDaily
    BY <1>0, <2>1, Multiples
  <2>3. CASE overnight
    BY <1>0, <2>1, <2>2, <2>3
  <2>4. CASE ~overnight
    BY <1>0, <2>1, <2>2, <2>4
  <2>5. QED
    BY <2>3, <2>4
<1>6. CASE RetryAfterRateLimit
  BY <1>6 DEF RetryAfterRateLimit
<1>7. CASE Reconcile
  BY <1>7 DEF Reconcile
<1>8. CASE FinishJob \/ JobThrows
  <2>1. phase' # "extract" /\ UNCHANGED <<mode, budgetVars, spentToday, runsToday>>
    BY <1>8 DEF FinishJob, JobThrows, PumpNext
  <2>2. QED
    BY <2>1
<1>9. CASE Crash
  <2>1. mode' = "down" /\ phase' = "idle" /\ UNCHANGED <<spentToday, runsToday>>
    BY <1>9 DEF Crash
  <2>2. QED
    BY <2>1
<1>10. CASE Restart
  <2>1. /\ ~dayStale' /\ dailyExtractions' = 0 /\ phase' # "extract" /\ runsToday' = runsToday + 1
        /\ spentToday' = spentToday
    BY <1>10 DEF Restart, FreshService
  <2>2. MaxDaily * (runsToday + 1) = MaxDaily * runsToday + MaxDaily /\ MaxDaily * runsToday \in Nat
    BY <1>0, Multiples
  <2>3. runsToday' - 1 = runsToday
    BY <1>0, <2>1
  <2>4. QED
    BY <1>0, <2>1, <2>2, <2>3
<1>11. CASE NewDay
  <2>1. /\ dayStale' /\ overnight' /\ spentToday' = 0 /\ UNCHANGED <<mode, phase>>
        /\ runsToday' = IF mode = "down" THEN 0 ELSE 1
    BY <1>11 DEF NewDay
  <2>2. MaxDaily * runsToday' \in Nat /\ MaxDaily * (1 - 1) = 0
    BY <2>1, Multiples
  <2>3. QED
    BY <1>0, <2>1, <2>2
<1>12. QED
  BY <1>1, <1>2, <1>3, <1>4, <1>5, <1>6, <1>7, <1>8, <1>9, <1>10, <1>11 DEF Next, JobStep

-----------------------------------------------------------------------------
(* The theorems *)

\* The inductive invariant of the service.
IInv == Core /\ JobInv /\ JobSafety /\ BudgetInv /\ BudgetPerRun

\* It holds at first ...
LEMMA InitIInv == Init => IInv
<1> SUFFICES ASSUME Init PROVE IInv
  OBVIOUS
<1>1. TypeOK
  BY InitType
<1>2. NoLostWakeup /\ Len(failures) = 0 /\ Len(queue) = 0
  BY DEF Init, NoLostWakeup
<1>3. JobInv
  BY EmptySeq DEF Init, JobInv
<1>4. JobSafety
  BY <1>2 DEF Init, JobSafety, NoCallWhileOpen, BreakerMatchesFailures, ProcessedAfterFacts,
              InFlightRecoverable
<1>5. BudgetInv /\ BudgetPerRun
  <2>1. MaxDaily * 1 \in Nat /\ MaxDaily * (1 - 1) = 0
    BY Multiples
  <2>2. QED
    BY <2>1 DEF Init, BudgetInv, BudgetPerRun
<1>6. QED
  BY <1>1, <1>2, <1>3, <1>4, <1>5 DEF IInv, Core

\* ... and every step keeps it.
LEMMA StepIInv == IInv /\ [Next]_vars => IInv'
<1> SUFFICES ASSUME IInv, [Next]_vars PROVE IInv'
  OBVIOUS
<1> USE DEF IInv
<1>1. CASE Next
  <2>1. Core'
    <3>1. CASE \E e \in Events : StoreEvent(e) \/ RedeliverEvent(e)
      BY <3>1, DeliveryCore
    <3>2. CASE Rescan
      BY <3>2, DeliveryCore
    <3>3. CASE JobStep /\ ~ClaimThrows
      BY <3>3, JobCore, PumpCore DEF JobStep
    <3>4. CASE ClaimThrows \/ Drain \/ DrainDone \/ Crash \/ Restart \/ Tick \/ NewDay
      BY <3>4, ControlCore
    <3>5. QED
      BY <1>1, <3>1, <3>2, <3>3, <3>4 DEF Next
  <2>2. JobInv'
    BY <1>1, JobInvStep
  <2>3. JobSafety'
    BY <1>1, JobSafetyStep
  <2>4. BudgetInv' /\ BudgetPerRun'
    BY <1>1, BudgetStep
  <2>5. QED
    BY <2>1, <2>2, <2>3, <2>4
<1>2. CASE UNCHANGED vars
  <2> USE <1>2 DEF vars, rowVars, jobVars, breakerVars, budgetVars, histVars, bounds
  <2>1. Core'
    BY DEF Core, TypeOK, NoLostWakeup
  <2>2. JobInv' /\ BudgetInv' /\ BudgetPerRun'
    BY DEF JobInv, BudgetInv, BudgetPerRun
  <2>3. JobSafety'
    BY DEF JobSafety, NoCallWhileOpen, BreakerMatchesFailures, ProcessedAfterFacts,
           InFlightRecoverable
  <2>4. QED
    BY <2>1, <2>2, <2>3
<1>3. QED
  BY <1>1, <1>2

\* So it holds in every reachable state.
LEMMA Invariance == Spec => []IInv
<1>1. Init => IInv
  BY InitIInv
<1>2. IInv /\ [Next]_vars => IInv'
  BY StepIInv
<1>3. QED
  BY <1>1, <1>2, PTL DEF Spec

\* Every variable of the service keeps its type.
THEOREM TypeCorrect == Spec => []TypeOK
<1>1. IInv => TypeOK
  BY DEF IInv, Core
<1>2. QED
  BY <1>1, Invariance, PTL

\* The worker never sleeps beside a queued event, nor does the queue overgrow.
THEOREM WakeupsKept == Spec => []NoLostWakeup
<1>1. IInv => NoLostWakeup
  BY DEF IInv, Core
<1>2. QED
  BY <1>1, Invariance, PTL

\* The accounts of jobs and budget hold throughout.
THEOREM WorkerAccounts == Spec => []WorkerInv
<1>1. IInv => WorkerInv
  BY DEF IInv, WorkerInv
<1>2. QED
  BY <1>1, Invariance, PTL

\* The breaker admits no call while open: a probe leaves open before it calls.
THEOREM NoCallsWhileOpen == Spec => []NoCallWhileOpen
<1>1. IInv => NoCallWhileOpen
  BY DEF IInv, JobSafety
<1>2. QED
  BY <1>1, Invariance, PTL

\* The breaker is away from closed exactly while it remembers a full threshold
\* of failures.
THEOREM BreakerSound == Spec => []BreakerMatchesFailures
<1>1. IInv => BreakerMatchesFailures
  BY DEF IInv, JobSafety
<1>2. QED
  BY <1>1, Invariance, PTL

\* An event is marked processed only after its facts were written.
THEOREM FactsBeforeMark == Spec => []ProcessedAfterFacts
<1>1. IInv => ProcessedAfterFacts
  BY DEF IInv, JobSafety
<1>2. QED
  BY <1>1, Invariance, PTL

\* A job under way is claimed in the table, so that a crash leaves it to the rescan.
THEOREM ClaimedInFlight == Spec => []InFlightRecoverable
<1>1. IInv => InFlightRecoverable
  BY DEF IInv, JobSafety
<1>2. QED
  BY <1>1, Invariance, PTL

\* A run of the daemon adds at most MaxDaily extractions to a day.
THEOREM BudgetKept == Spec => []BudgetPerRun
<1>1. IInv => BudgetPerRun
  BY DEF IInv
<1>2. QED
  BY <1>1, Invariance, PTL

\* While the daemon shuts down the worker finishes what it holds and takes no more.
THEOREM DrainTakesNoMore == Spec => NoNewJobWhileDraining
<1>1. IInv /\ [Next]_vars =>
        [mode = "draining" /\ mode' = "draining" => current' \in {current, NoEvent}]_vars
  <2> SUFFICES ASSUME IInv, Next, mode = "draining", mode' = "draining"
               PROVE  current' \in {current, NoEvent}
    BY DEF vars
  <2>1. queue = <<>>
    BY DEF IInv, JobInv
  <2>2. PumpNext => current' = NoEvent
    BY <2>1 DEF PumpNext
  <2>3. JobStep => current' \in {current, NoEvent}
    BY <2>1, <2>2 DEF JobStep, SkipWhileOpen, SkipOverBudget, BeginJob, ClaimThrows, ExtractOk,
        RetryAfterRateLimit, RateLimited, Reconcile, FinishJob, JobThrows
  <2>4. ~JobStep => current' = current
    BY DEF Next, StoreEvent, RedeliverEvent, Rescan, Drain, DrainDone, Crash, Restart, Tick,
           NewDay, jobVars
  <2>5. QED
    BY <2>3, <2>4
<1>2. QED
  BY <1>1, Invariance, PTL DEF Spec, NoNewJobWhileDraining

\* A step of the service maps to a step of the abstract worker or to a stutter.
LEMMA StepRefines == IInv /\ [Next]_vars => [Serial!Next]_(Serial!vars)
<1> SUFFICES ASSUME IInv, [Next]_vars PROVE Serial!Next \/ UNCHANGED Serial!vars
  OBVIOUS
<1> USE DEF Serial!Next, Serial!vars, Working, rowVars, jobVars, breakerVars, budgetVars,
            histVars, bounds
<1>0. /\ current = NoEvent <=> phase = "idle"
      /\ NoEvent \notin Events /\ current \in Events \cup {NoEvent} /\ stored \subseteq Events
      /\ current # NoEvent => current \in stored
      /\ mode = "down" => current = NoEvent
      /\ phase = "mark" => current \in reconciled
  BY DEF IInv, Core, TypeOK, NoLostWakeup, JobInv, Events, NoEvent
<1>1. PumpNext => Working' = NoEvent
  BY DEF PumpNext
<1>2. ASSUME NEW s, Enqueue(s) PROVE Working' = Working
  BY <1>0, <1>2 DEF Enqueue
<1>3. ASSUME NEW e \in Events, StoreEvent(e) PROVE Serial!Next
  <2>1. Working' = Working
    BY <1>2, <1>3 DEF StoreEvent
  <2>2. Serial!Arrive(e)
    BY <1>3, <2>1 DEF StoreEvent, Serial!Arrive
  <2>3. QED
    BY <2>2
<1>4. ASSUME NEW e \in Events, RedeliverEvent(e) PROVE UNCHANGED Serial!vars
  BY <1>2, <1>4 DEF RedeliverEvent
<1>5. CASE Rescan
  BY <1>2, <1>5 DEF Rescan
<1>6. CASE SkipWhileOpen \/ SkipOverBudget
  BY <1>1, <1>6 DEF SkipWhileOpen, SkipOverBudget
<1>7. CASE BeginJob
  <2>1. Serial!Begin(current) /\ current \in Events
    BY <1>0, <1>7 DEF BeginJob, Serial!Begin
  <2>2. QED
    BY <2>1
<1>8. CASE ClaimThrows
  BY <1>8 DEF ClaimThrows
<1>9. CASE ExtractOk \/ RetryAfterRateLimit
  BY <1>9 DEF ExtractOk, RetryAfterRateLimit
<1>10. CASE RateLimited \/ JobThrows
  <2>1. Serial!GiveUp
    BY <1>0, <1>1, <1>10 DEF RateLimited, JobThrows, Serial!GiveUp
  <2>2. QED
    BY <2>1
<1>11. CASE Reconcile
  <2>1. Serial!WriteFacts
    BY <1>0, <1>11 DEF Reconcile, Serial!WriteFacts
  <2>2. QED
    BY <2>1
<1>12. CASE FinishJob
  <2>1. Serial!Finish
    BY <1>0, <1>1, <1>12 DEF FinishJob, Serial!Finish
  <2>2. QED
    BY <2>1
<1>13. CASE Drain \/ DrainDone \/ Tick \/ NewDay \/ UNCHANGED vars
  BY <1>13 DEF Drain, DrainDone, Tick, NewDay, vars
<1>14. CASE Crash
  <2>1. Working' = NoEvent /\ UNCHANGED <<stored, reconciled, processed>>
    BY <1>14 DEF Crash
  <2>2. Working = NoEvent \/ Serial!GiveUp
    BY <2>1 DEF Serial!GiveUp
  <2>3. QED
    BY <2>1, <2>2
<1>15. CASE Restart
  <2>1. Working = NoEvent /\ Working' = NoEvent /\ UNCHANGED <<stored, reconciled, processed>>
    BY <1>0, <1>15 DEF Restart
  <2>2. QED
    BY <2>1
<1>16. QED
  BY <1>3, <1>4, <1>5, <1>6, <1>7, <1>8, <1>9, <1>10, <1>11, <1>12, <1>13, <1>14, <1>15
     DEF Next, JobStep

\* The cold path implements the serial worker.
THEOREM Refinement == Spec => ImplementsSerial
<1>1. Init => Serial!Init
  BY DEF Init, Serial!Init, Working
<1>2. IInv /\ [Next]_vars => [Serial!Next]_(Serial!vars)
  BY StepRefines
<1>3. QED
  BY <1>1, <1>2, Invariance, PTL DEF Spec, ImplementsSerial, Serial!Spec
=============================================================================
