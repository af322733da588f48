------------------------------ MODULE EventBus ------------------------------
(***************************************************************************)
(* The event bus (bus.ts) and its stream clients (api/routes/stream.ts,    *)
(* api/routes/sse.ts).  emit() runs no handler: for every listener of the  *)
(* exact type and then for every wildcard listener it queues a microtask.  *)
(* Microtasks run in the order they were queued, before the next macrotask *)
(* (a connection, an abort, a timer).  Services subscribe to exact types,  *)
(* stream clients to "*".  An event is its position in emitted, and 0 a    *)
(* heartbeat.                                                              *)
(***************************************************************************)
EXTENDS Naturals, Sequences, SequencesExt

CONSTANTS
    Clients,        \* connections to GET /stream
    Services,       \* listeners of the daemon itself
    CaptureTypes,   \* captureEventTypes
    TypesOf(_),     \* the types a service passes to on()
    MaxEmitted      \* bound: events emitted

ASSUME BusAssumption == Clients \cap Services = {} /\ MaxEmitted \in Nat

Heartbeat == 0
EventTypes == CaptureTypes \cup {"event:stored", "fact:extracted"}

VARIABLES
    exact,        \* exactListeners: type -> listeners in insertion order
    wildcard,     \* wildcardListeners, in insertion order
    microtasks,   \* dispatched handlers: <<listener, event>>
    stream,       \* per client: "none", "open", "cancelled" (by the client) or "aborted"
    writerClosed, \* per client: the writer's closed flag
    written,      \* per client: what its controller took
    emitted,      \* history: the type of every event emitted
    handled,      \* history: per service, the events its handler was given
    since, until  \* history: Len(emitted) at subscription and at unsubscription

busVars == <<exact, wildcard, microtasks, stream, writerClosed, written,
             emitted, handled, since, until>>

Listeners == Clients \cup Services
Positions == 1..MaxEmitted
Forever == MaxEmitted + 1   \* until, of a listener that is subscribed
Subscribed(l) == until[l] = Forever

BusInit ==
    /\ exact = [t \in EventTypes |-> <<>>]
    /\ wildcard = <<>> /\ microtasks = <<>> /\ emitted = <<>>
    /\ stream = [c \in Clients |-> "none"]
    /\ writerClosed = [c \in Clients |-> FALSE]
    /\ written = [c \in Clients |-> <<>>]
    /\ handled = [s \in Services |-> <<>>]
    /\ since = [l \in Listeners |-> 0] /\ until = [l \in Listeners |-> 0]

\* emit() of the n-th event: the exact listeners first, then the wildcard listeners.
Dispatch(type, n) == [i \in 1..Len(exact[type] \o wildcard) |->
                        <<(exact[type] \o wildcard)[i], n>>]

\* A stored event is emitted under its own type and as event:stored (without
\* an await between them), a stored fact as fact:extracted.
EmitStored(type) ==
    /\ Len(emitted) + 2 <= MaxEmitted
    /\ emitted' = emitted \o <<type, "event:stored">>
    /\ microtasks' = microtasks \o Dispatch(type, Len(emitted) + 1)
                               \o Dispatch("event:stored", Len(emitted) + 2)
    /\ UNCHANGED <<exact, wildcard, stream, writerClosed, written, handled, since, until>>

EmitFact ==
    /\ Len(emitted) + 1 <= MaxEmitted
    /\ emitted' = Append(emitted, "fact:extracted")
    /\ microtasks' = microtasks \o Dispatch("fact:extracted", Len(emitted) + 1)
    /\ UNCHANGED <<exact, wildcard, stream, writerClosed, written, handled, since, until>>

\* writer.enqueue: nothing after close; a controller that throws closes the writer.
Enqueue(c, item) ==
    IF writerClosed[c] THEN UNCHANGED <<written, writerClosed>>
    ELSE IF stream[c] = "open"
    THEN written' = [written EXCEPT ![c] = Append(@, item)] /\ UNCHANGED writerClosed
    ELSE writerClosed' = [writerClosed EXCEPT ![c] = TRUE] /\ UNCHANGED written

\* A handler that throws is caught and logged: no other handler notices.
RunMicrotask ==
    /\ microtasks # <<>>
    /\ microtasks' = Tail(microtasks)
    /\ LET l == Head(microtasks)[1]  e == Head(microtasks)[2] IN
         IF l \in Clients
         THEN Enqueue(l, e) /\ UNCHANGED handled
         ELSE handled' = [handled EXCEPT ![l] = Append(@, e)] /\ UNCHANGED <<written, writerClosed>>
    /\ UNCHANGED <<exact, wildcard, stream, emitted, since, until>>

Macrotask == microtasks = <<>>

\* Set.delete: the others keep their order.
Without(listeners, l) ==
    IF \E i \in 1..Len(listeners) : listeners[i] = l
    THEN RemoveAt(listeners, CHOOSE i \in 1..Len(listeners) : listeners[i] = l)
    ELSE listeners

Connect(c) ==
    /\ Macrotask /\ stream[c] = "none"
    /\ stream' = [stream EXCEPT ![c] = "open"]
    /\ wildcard' = Append(wildcard, c)
    /\ since' = [since EXCEPT ![c] = Len(emitted)]
    /\ until' = [until EXCEPT ![c] = Forever]
    /\ UNCHANGED <<exact, microtasks, writerClosed, written, emitted, handled>>

\* The interval is cleared by the abort only, so it ticks for a reader that has
\* cancelled too.  A beat on an open stream is a comment line every client
\* skips: it is not kept in written, and only the other beats are steps.
StreamBeat(c) ==
    /\ Macrotask /\ stream[c] = "cancelled" /\ ~writerClosed[c]
    /\ Enqueue(c, Heartbeat)
    /\ UNCHANGED <<exact, wildcard, microtasks, stream, emitted, handled, since, until>>

\* The client goes away: its controller throws from now on; the request's
\* abort event comes later.
CancelReader(c) ==
    /\ Macrotask /\ stream[c] = "open"
    /\ stream' = [stream EXCEPT ![c] = "cancelled"]
    /\ UNCHANGED <<exact, wildcard, microtasks, writerClosed, written, emitted, handled, since, until>>

\* cleanup(): the interval, the subscription, the writer.
Cleanup(c) ==
    /\ Macrotask /\ stream[c] \in {"open", "cancelled"}
    /\ stream' = [stream EXCEPT ![c] = "aborted"]
    /\ wildcard' = Without(wildcard, c)
    /\ until' = [until EXCEPT ![c] = Len(emitted)]
    /\ writerClosed' = [writerClosed EXCEPT ![c] = TRUE]
    /\ UNCHANGED <<exact, microtasks, written, emitted, handled, since>>

\* on(types) adds one listener per type; a service subscribes when it starts
\* and unsubscribes when it stops, with handlers possibly still queued.
\* Mutant: a service's listener lands among the wildcard listeners.
SubscribeAll(s) ==
    /\ ~Subscribed(s) /\ handled[s] = <<>> /\ until[s] = 0
    /\ wildcard' = Append(wildcard, s)
    /\ since' = [since EXCEPT ![s] = Len(emitted)]
    /\ until' = [until EXCEPT ![s] = Forever]
    /\ UNCHANGED <<exact, microtasks, stream, writerClosed, written, emitted, handled>>

Subscribe(s) ==
    /\ ~Subscribed(s) /\ handled[s] = <<>> /\ until[s] = 0
    /\ exact' = [t \in EventTypes |-> IF t \in TypesOf(s) THEN Append(exact[t], s) ELSE exact[t]]
    /\ since' = [since EXCEPT ![s] = Len(emitted)]
    /\ until' = [until EXCEPT ![s] = Forever]
    /\ UNCHANGED <<wildcard, microtasks, stream, writerClosed, written, emitted, handled>>

\* Mutant: the handlers still queued are dropped with the subscription.
UnsubscribeNow(s) ==
    /\ Subscribed(s)
    /\ exact' = [t \in EventTypes |-> Without(exact[t], s)]
    /\ until' = [until EXCEPT ![s] = Len(emitted)]
    /\ microtasks' = SelectSeq(microtasks, LAMBDA m : m[1] # s)
    /\ UNCHANGED <<wildcard, stream, writerClosed, written, emitted, handled, since>>

Unsubscribe(s) ==
    /\ Subscribed(s)
    /\ exact' = [t \in EventTypes |-> Without(exact[t], s)]
    /\ until' = [until EXCEPT ![s] = Len(emitted)]
    /\ UNCHANGED <<wildcard, microtasks, stream, writerClosed, written, emitted, handled, since>>

BusNext ==
    \/ \E t \in CaptureTypes : EmitStored(t)
    \/ EmitFact
    \/ RunMicrotask
    \/ \E c \in Clients : Connect(c) \/ StreamBeat(c) \/ CancelReader(c) \/ Cleanup(c)
    \/ \E s \in Services : Subscribe(s) \/ Unsubscribe(s)

BusSpec == BusInit /\ [][BusNext]_busVars

-----------------------------------------------------------------------------
\* Type invariant.
BusTypeOK ==
    /\ exact \in [EventTypes -> Seq(Services)]
    /\ wildcard \in Seq(Clients)
    /\ microtasks \in Seq(Listeners \X Positions) /\ emitted \in Seq(EventTypes)
    /\ stream \in [Clients -> {"none", "open", "cancelled", "aborted"}]
    /\ writerClosed \in [Clients -> BOOLEAN]
    /\ written \in [Clients -> Seq(Positions)]
    /\ handled \in [Services -> Seq(Positions)]
    /\ since \in [Listeners -> 0..MaxEmitted] /\ until \in [Listeners -> 0..Forever]

\* What a listener has to see: the events of its types that were emitted
\* between its subscription and its unsubscription; and what it has still to run.
Due(l) == {n \in DOMAIN emitted : /\ since[l] < n /\ n <= until[l]
                                  /\ l \in Clients \/ emitted[n] \in TypesOf(l)}
QueuedAt(l) == {i \in DOMAIN microtasks : microtasks[i][1] = l}
Queued(l) == {microtasks[i][2] : i \in QueuedAt(l)}

\* What l was given came in the order of emission, each event once, and
\* before what is still queued, which is in that order too.
InOrder(l, given) ==
    /\ \A i, j \in DOMAIN given : i < j => given[i] < given[j]
    /\ \A i, j \in QueuedAt(l) : i < j => microtasks[i][2] < microtasks[j][2]
    /\ \A i \in DOMAIN given, n \in Queued(l) : given[i] < n

\* Whatever subscribes, unsubscribes, emits and disconnects in between, and
\* however many handlers wait in the microtask queue, a service is given every
\* event of its types that was emitted while it listened, once and in the
\* order of emission, and so is an open stream (bus.ts:119, stream.ts:25); a
\* stream whose client is gone has written the part up to there.
EachListenerInOrder ==
    /\ \A s \in Services : InOrder(s, handled[s]) /\ Range(handled[s]) \cup Queued(s) = Due(s)
    /\ \A c \in Clients :
         /\ InOrder(c, written[c])
         /\ stream[c] = "open" => Range(written[c]) \cup Queued(c) = Due(c)
         /\ Range(written[c]) \subseteq Due(c)
         /\ \A n \in Due(c), m \in Range(written[c]) : n < m => n \in Range(written[c])
=============================================================================
