------------------------------ MODULE SseWire ------------------------------
(***************************************************************************)
(* One streamed answer, from the pump of /agent (api/routes/agent.ts) or   *)
(* the UI message stream of /chat (AI SDK) through the SSE writer and the  *)
(* connection to requestSse (cli/http.ts) and its callback.  The wire      *)
(* carries tokens, a payload line, ":" or a newline, and hands the client  *)
(* any number of them at a time: a frame may be cut anywhere.  A "data"    *)
(* callback of the client runs to its end before another event: parsing is *)
(* TRUE inside it.                                                         *)
(***************************************************************************)
EXTENDS Naturals, Sequences, SequencesExt, FiniteSetsExt

CONSTANTS
    MaxDeltas, \* bound: text deltas of an answer
    MaxBeats   \* bound: heartbeats of the server

ASSUME WireAssumption == MaxDeltas \in Nat /\ MaxBeats \in Nat

NL == <<"nl">>
Colon == <<":">>
Payload(type, i) == <<"data", type, i>>
DONE == Payload("[DONE]", 0)
Finish == Payload("finish", 0)
Error == Payload("error", 0)
Deltas(n) == [i \in 1..n |-> Payload("text-delta", i)]

\* Who calls requestSse, and whether its onEvent throws on an error payload.
Callers == {"recall", "plain", "tui"}
Throws(caller) == caller \in {"recall", "plain"}

\* What the server writes after its text: /agent a finish or an error, the
\* UI stream a finish, an error, or an error and a finish, and always [DONE].
Endings(caller) ==
    IF caller = "recall" THEN {<<Finish>>, <<Error>>}
    ELSE {<<Finish, DONE>>, <<Error, DONE>>, <<Error, Finish, DONE>>}

VARIABLES
    who,        \* the caller
    script,     \* what the server has to write
    next,       \* how much of it the pump is through
    beats,      \* heartbeats written
    writer,     \* "none" before the answer starts, "open" or "closed"
    wire,       \* tokens under way
    conn,       \* "request", "refused" (status other than 200), "stream", "cut",
                \*   "destroyed" (by the caller's signal) or "down"
    buffer, parsing, sawFinish, outcome, \* the locals of requestSse
    delivered   \* history: the payloads given to onEvent

wireVars == <<who, script, next, beats, writer, wire, conn, buffer, parsing,
              sawFinish, outcome, delivered>>
serverVars == <<who, script, next, beats, writer>>
clientVars == <<buffer, parsing, sawFinish, outcome, delivered>>

WireInit ==
    /\ who \in Callers
    /\ script \in {Deltas(n) \o e : n \in 0..MaxDeltas, e \in Endings(who)}
    /\ next = 0 /\ beats = 0 /\ writer = "none" /\ wire = <<>> /\ conn = "request"
    /\ buffer = <<>> /\ parsing = FALSE /\ sawFinish = FALSE /\ outcome = "pending"
    /\ delivered = <<>>

\* finishResolve and finishReject: the first one counts.
Settle(o) == outcome' = IF outcome = "pending" THEN o ELSE outcome

\* writer.enqueue: dropped once the writer is closed.
Write(line) == wire' = IF writer = "open" THEN wire \o <<line, NL, NL>> ELSE wire

-----------------------------------------------------------------------------
\* The request gets a stream, another status, or nobody listens.
Accepted ==
    /\ conn = "request"
    /\ conn' = "stream" /\ writer' = "open"
    /\ wire' = IF who = "recall" THEN <<Colon, NL, NL>> ELSE <<>>
    /\ UNCHANGED <<who, script, next, beats, clientVars>>

Refused ==
    /\ conn = "request"
    /\ conn' = "refused"
    /\ UNCHANGED <<serverVars, wire, clientVars>>

NotReached ==
    /\ conn = "request"
    /\ conn' = "down" /\ Settle("rejected")
    /\ UNCHANGED <<serverVars, wire, buffer, parsing, sawFinish, delivered>>

\* The pump, and its finally block after the last payload.  It goes on when
\* its client is gone, and the writer drops what it enqueues.
Pump ==
    /\ writer # "none" /\ next < Len(script)
    /\ next' = next + 1
    /\ Write(script[next + 1])
    /\ UNCHANGED <<who, script, beats, writer, conn, clientVars>>

PumpEnds ==
    /\ writer = "open" /\ next = Len(script)
    /\ writer' = "closed"
    /\ UNCHANGED <<who, script, next, beats, wire, conn, clientVars>>

\* Only the pump of /agent has an interval; the finally block clears it.
Beat ==
    /\ who = "recall" /\ writer = "open" /\ beats < MaxBeats
    /\ beats' = beats + 1
    /\ Write(Colon)
    /\ UNCHANGED <<who, script, next, writer, conn, clientVars>>

\* The request's abort event closes the writer.
AbortSeen ==
    /\ conn = "destroyed" /\ writer = "open"
    /\ writer' = "closed"
    /\ UNCHANGED <<who, script, next, beats, wire, conn, clientVars>>

\* The daemon stops or dies: what is under way is lost.
Cut ==
    /\ conn \in {"stream", "refused"} /\ ~parsing
    /\ conn' = IF conn = "refused" THEN "refused, cut" ELSE "cut"
    /\ wire' = <<>> /\ writer' = "closed" /\ next' = Len(script)
    /\ UNCHANGED <<who, script, beats, clientVars>>

-----------------------------------------------------------------------------
\* response.on("data"): one or more tokens, then the loop over the frames.
Receive ==
    /\ conn = "stream" /\ ~parsing
    /\ \E n \in 1..Len(wire) :
         /\ buffer' = buffer \o SubSeq(wire, 1, n)
         /\ wire' = SubSeq(wire, n + 1, Len(wire))
    /\ parsing' = TRUE
    /\ UNCHANGED <<serverVars, conn, sawFinish, outcome, delivered>>

\* Where "\n\n" is found in the buffer.
Boundaries == {i \in 1..(Len(buffer) - 1) : buffer[i] = NL /\ buffer[i + 1] = NL}

\* Mutant: the callback starts the next chunk with an empty buffer.
ParseFrameAndForget ==
    /\ parsing /\ Boundaries # {}
    /\ buffer' = <<>>
    /\ sawFinish' = (sawFinish \/ buffer[1] \in {Finish, DONE})
    /\ delivered' = IF buffer[1] \in {Colon, DONE} THEN delivered ELSE Append(delivered, buffer[1])
    /\ UNCHANGED <<serverVars, wire, conn, outcome, parsing>>

\* Mutant: [DONE] is skipped like a comment.
ParseFrameNoDone ==
    /\ parsing /\ Boundaries # {}
    /\ LET i == Min(Boundaries)  line == buffer[1] IN
         /\ buffer' = SubSeq(buffer, i + 2, Len(buffer))
         /\ sawFinish' = (sawFinish \/ line = Finish)
         /\ delivered' = IF line \in {Colon, DONE} THEN delivered ELSE Append(delivered, line)
         /\ IF line = Error /\ Throws(who)
            THEN Settle("rejected") /\ parsing' = FALSE
            ELSE UNCHANGED <<outcome, parsing>>
    /\ UNCHANGED <<serverVars, wire, conn>>

\* The next frame, which has one line: a comment is no event, [DONE] only
\* marks the end, a throw of the callback rejects and leaves the loop with the
\* rest in the buffer.
ParseFrame ==
    /\ parsing /\ Boundaries # {}
    /\ LET i == Min(Boundaries)  line == buffer[1] IN
         /\ buffer' = SubSeq(buffer, i + 2, Len(buffer))
         /\ sawFinish' = (sawFinish \/ line \in {Finish, DONE})
         /\ delivered' = IF line \in {Colon, DONE} THEN delivered ELSE Append(delivered, line)
         /\ IF line = Error /\ Throws(who)
            THEN Settle("rejected") /\ parsing' = FALSE
            ELSE UNCHANGED <<outcome, parsing>>
    /\ UNCHANGED <<serverVars, wire, conn>>

NoFrameLeft ==
    /\ parsing /\ Boundaries = {}
    /\ parsing' = FALSE
    /\ UNCHANGED <<serverVars, wire, conn, buffer, sawFinish, outcome, delivered>>

\* response.on("end").
End ==
    /\ conn = "stream" /\ writer = "closed" /\ wire = <<>> /\ ~parsing
    /\ conn' = "down"
    /\ Settle(IF sawFinish THEN "resolved" ELSE "rejected")
    /\ UNCHANGED <<serverVars, wire, buffer, parsing, sawFinish, delivered>>

\* Mutant: no listener for "aborted".
InterruptedUnheard ==
    /\ conn \in {"cut", "refused"}
    /\ conn' = "down" /\ outcome' = IF conn = "cut" THEN outcome ELSE "rejected"
    /\ UNCHANGED <<serverVars, wire, buffer, parsing, sawFinish, delivered>>

\* response.on("aborted") and on("error"); the "end" of an error body.  A cut
\* error body has neither listener.
Interrupted ==
    /\ conn \in {"cut", "refused"}
    /\ conn' = "down" /\ Settle("rejected")
    /\ UNCHANGED <<serverVars, wire, buffer, parsing, sawFinish, delivered>>

\* The caller's signal (the chat callers have one): request.destroy.
UserAborts ==
    /\ who # "recall" /\ conn \in {"request", "refused", "stream"} /\ ~parsing
    /\ conn' = "destroyed" /\ wire' = <<>>
    /\ Settle("rejected")
    /\ UNCHANGED <<serverVars, buffer, parsing, sawFinish, delivered>>

ClientSteps == Receive \/ ParseFrame \/ NoFrameLeft \/ End \/ Interrupted
ServerSteps == Pump \/ PumpEnds \/ AbortSeen
Answered == Accepted \/ Refused \/ NotReached

WireNext == Answered \/ ServerSteps \/ Beat \/ Cut \/ ClientSteps \/ UserAborts

\* The event loops run, a model answers in the end and a request is answered.
WireFairness == WF_wireVars(Answered) /\ WF_wireVars(ServerSteps) /\ WF_wireVars(ClientSteps)
WireSpec == WireInit /\ [][WireNext]_wireVars /\ WireFairness

-----------------------------------------------------------------------------
\* Type invariant.
WireTypeOK ==
    /\ who \in Callers /\ next \in 0..Len(script) /\ beats \in 0..MaxBeats
    /\ writer \in {"none", "open", "closed"}
    /\ conn \in {"request", "refused", "refused, cut", "stream", "cut", "destroyed", "down"}
    /\ parsing \in BOOLEAN /\ sawFinish \in BOOLEAN
    /\ outcome \in {"pending", "resolved", "rejected"}
    /\ Range(wire) \cup Range(buffer) \subseteq Range(script) \cup {NL, Colon}
    /\ Range(delivered) \subseteq Range(script)

\* [DONE] is no payload: it ends the stream.
Meaningful == IF Last(script) = DONE THEN Front(script) ELSE script

\* However the stream is cut into chunks and mixed with heartbeats, the caller
\* is given the payloads the server wrote, in order and without a gap; a
\* resolved promise means it was given all of them, up to the finish or the
\* error (cli/http.ts:207).
DeliveredFaithfully ==
    /\ IsPrefix(delivered, Meaningful)
    /\ outcome = "resolved" => delivered = Meaningful

\* A rejected promise has a cause: the stream was cut, refused, never reached
\* or aborted, or the callback threw on an error payload.  The client never
\* takes a complete answer for a broken one (cli/http.ts:242).
RejectedForCause ==
    [][outcome = "pending" /\ outcome' = "rejected" =>
         conn' = "destroyed" \/ conn \in {"request", "refused", "cut"}
         \/ (Throws(who) /\ Error \in Range(delivered'))]_wireVars

\* Every request settles, whoever dies in the middle of the stream; only the
\* cut body of a refusal has no listener that would notice (cli/http.ts:188).
EventuallySettled == <>(outcome # "pending" \/ conn = "refused, cut")
=============================================================================
