-------------------------- MODULE SerialExtraction --------------------------
(***************************************************************************)
(* What the cold path promises, whatever its queue, its breaker, its       *)
(* budget and its timers do: one extraction at a time, an event is done    *)
(* only after its facts were written while it was the one worked on, and a *)
(* job given up at any point leaves the event to be taken again.           *)
(***************************************************************************)
CONSTANTS Events, None

VARIABLES
    stored,        \* events that have arrived
    factsWritten,  \* events whose facts were written at least once
    done,          \* events marked processed
    working        \* the event being extracted, or None

vars == <<stored, factsWritten, done, working>>

Init == stored = {} /\ factsWritten = {} /\ done = {} /\ working = None

Arrive(e) ==
    /\ stored' = stored \cup {e}
    /\ UNCHANGED <<factsWritten, done, working>>

Begin(e) ==
    /\ working = None /\ e \in stored
    /\ working' = e
    /\ UNCHANGED <<stored, factsWritten, done>>

WriteFacts ==
    /\ working # None
    /\ factsWritten' = factsWritten \cup {working}
    /\ UNCHANGED <<stored, done, working>>

Finish ==
    /\ working # None /\ working \in factsWritten
    /\ done' = done \cup {working}
    /\ working' = None
    /\ UNCHANGED <<stored, factsWritten>>

\* A failure, a rate limit or a crash.
GiveUp ==
    /\ working # None
    /\ working' = None
    /\ UNCHANGED <<stored, factsWritten, done>>

Next ==
    \/ \E e \in Events : Arrive(e) \/ Begin(e)
    \/ WriteFacts \/ Finish \/ GiveUp

Spec == Init /\ [][Next]_vars
=============================================================================
