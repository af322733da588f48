----------------------------- MODULE TuiSession -----------------------------
(***************************************************************************)
(* The full-screen client (tui/app.tsx, input-handler.ts, state.ts,        *)
(* transcript-builders.ts) on top of the daemon's chat turns.  Its reducer *)
(* is fed by the chunks of a running turn and by loads of a session, which *)
(* overlap.  React has rendered before the next key is handled.  Overlays   *)
(* are left out: what they offer may be chosen at any time.                *)
(***************************************************************************)
EXTENDS ChatTurns, FiniteSetsExt

CONSTANTS
    TuiTurns,   \* the turns this client sends; the others come from elsewhere
    MaxLoads    \* bound: loads of a session

ASSUME TuiAssumption == TuiTurns \subseteq Turns /\ None \notin TuiTurns /\ MaxLoads \in Nat

VARIABLES
    alive,       \* the renderer is not destroyed
    session, transcript, isStreaming, status, \* the reducer's state
    abortRef,    \* the turn whose AbortController it holds
    stage,       \* per turn, sendMessage: "none", "stream", "refresh", "over"
    loads,       \* loads under way: n, why, for which turn, of which session, what was read
    loaded,      \* loads so far
    calm,        \* history: nothing failed, nobody else wrote, the user waited
    heard        \* history: the events of the turn on screen

tuiVars == <<alive, session, transcript, isStreaming, status, abortRef,
             stage, loads, loaded, calm, heard>>
allVars == <<chatVars, tuiVars>>

TuiInit ==
    /\ ChatInit
    /\ alive = TRUE /\ session = None /\ transcript = <<>> /\ isStreaming = FALSE
    /\ status = "initializing" /\ abortRef = None
    /\ stage = [t \in TuiTurns |-> "none"]
    /\ loads = {} /\ loaded = 0 /\ calm = TRUE /\ heard = <<>>

-----------------------------------------------------------------------------
\* Entries of the transcript.  "live" entries carry the ids of chunks, which
\* a provider may use again in every step and turn (a text block is "0"); the
\* others carry the ids of conversationToTranscript.
Entry(role, st, live, t, parts) ==
    [role |-> role, status |-> st, live |-> live, turn |-> t, parts |-> parts]
FromHistory(rs) ==
    [i \in 1..Len(rs) |-> Entry(rs[i].role, rs[i].status, FALSE, rs[i].turn, <<rs[i].part>>)]

\* Mutant: text goes to the last assistant entry, whatever follows it.
AppendDeltaInPlace(es, t, e) ==
    LET mine == {i \in 1..Len(es) : es[i].role = "assistant" /\ es[i].live} IN
    IF mine = {}
    THEN Append(es, Entry("assistant", "streaming", TRUE, t, <<e>>))
    ELSE [es EXCEPT ![Max(mine)].parts = Append(@, e), ![Max(mine)].status = "streaming"]

\* appendTextDelta: to the last entry of the text block, or to a new one when
\* a tool entry came after it.
AppendDelta(es, t, e) ==
    LET mine == {i \in 1..Len(es) : es[i].role = "assistant" /\ es[i].live}
        toolsAfter == \E j \in (Max(mine) + 1)..Len(es) : es[j].role = "tool"
    IN  IF mine = {} \/ toolsAfter
        THEN Append(es, Entry("assistant", "streaming", TRUE, t, <<e>>))
        ELSE [es EXCEPT ![Max(mine)].parts = Append(@, e), ![Max(mine)].status = "streaming"]

\* appendToolEntry: the entry of the call is updated where it stands.
AppendTool(es, t, e) ==
    LET mine == {i \in 1..Len(es) : es[i].role = "tool" /\ es[i].live /\ es[i].turn = t}
        st == IF e = "result" THEN "complete" ELSE "streaming"
    IN  IF mine = {}
        THEN Append(es, Entry("tool", st, TRUE, t, <<e>>))
        ELSE [es EXCEPT ![Max(mine)].status = st, ![Max(mine)].parts = Append(@, e)]

FinishEntries(es) ==
    [i \in 1..Len(es) |-> IF es[i].role = "assistant" /\ es[i].status = "streaming"
                          THEN [es[i] EXCEPT !.status = "complete"] ELSE es[i]]

\* The reducer's "stream-chunk".
Reduce(t, e) ==
    CASE e = "text" -> /\ transcript' = AppendDelta(transcript, t, e)
                       /\ UNCHANGED <<isStreaming, status>>
      [] e \in {"call", "result"} -> /\ transcript' = AppendTool(transcript, t, e)
                                     /\ UNCHANGED <<isStreaming, status>>
      [] e = "finish" -> /\ transcript' = FinishEntries(transcript)
                         /\ isStreaming' = FALSE /\ status' = "ready"
      [] e = "error" -> /\ isStreaming' = FALSE /\ status' = "error"
                        /\ UNCHANGED transcript

-----------------------------------------------------------------------------
Waiting == loads # {} \/ \E t \in TuiTurns : stage[t] \in {"stream", "refresh"}

\* bootstrapSession, refreshCurrentSession and switchToSession load a session
\* and its messages; what they read is old when it arrives.
StartLoad(why, t, s) ==
    /\ loaded < MaxLoads
    /\ loaded' = loaded + 1
    /\ loads' = loads \cup {[n |-> loaded, why |-> why, turn |-> t, session |-> s,
                             got |-> FALSE, rows |-> <<>>]}

\* A new session (POST /chat/sessions) or the one of --resume.
Bootstrap(s) ==
    /\ alive /\ loaded = 0
    /\ StartLoad("boot", None, s)
    /\ exists' \in {exists, exists \cup {s}}
    /\ UNCHANGED <<rows, phase, sess, answer, at, saved, out, listening, crashes, disturbed>>
    /\ UNCHANGED <<alive, session, transcript, isStreaming, status, abortRef, stage, calm, heard>>

LoadRead(l) ==
    /\ ~l.got /\ l.session \in exists
    /\ loads' = (loads \ {l}) \cup {[l EXCEPT !.got = TRUE, !.rows = rows[l.session]]}
    /\ UNCHANGED <<chatVars, alive, session, transcript, isStreaming, status,
                   abortRef, stage, loaded, calm, heard>>

\* The end of sendMessage, after the awaited refresh or an error: its finally
\* clears the reference, whoever's it is by then.
SendEnds(t) ==
    /\ abortRef' = IF t = None THEN abortRef ELSE None
    /\ stage' = IF t = None THEN stage ELSE [stage EXCEPT ![t] = "over"]

\* "hydrate-session".
LoadDone(l) ==
    /\ alive /\ l.got
    /\ loads' = loads \ {l}
    /\ session' = l.session /\ transcript' = FromHistory(l.rows)
    /\ isStreaming' = FALSE /\ status' = "ready" /\ heard' = <<>>
    /\ SendEnds(l.turn)
    /\ UNCHANGED <<chatVars, alive, loaded, calm>>

\* A 404, another status or no daemon: "set-error".
LoadFails(l) ==
    /\ alive
    /\ loads' = loads \ {l}
    /\ status' = "error" /\ calm' = FALSE
    /\ SendEnds(l.turn)
    /\ UNCHANGED <<chatVars, alive, session, transcript, isStreaming, loaded, heard>>

\* sendMessage: the message is shown before the daemon has it.
SendMessage(t) ==
    /\ alive /\ stage[t] = "none" /\ ~isStreaming /\ session # None
    /\ Begin(t, session)
    /\ transcript' = Append(transcript, Entry("user", "complete", TRUE, t, <<"message">>))
    /\ isStreaming' = TRUE /\ status' = "streaming" /\ heard' = <<>>
    /\ abortRef' = t /\ stage' = [stage EXCEPT ![t] = "stream"]
    /\ calm' = (calm /\ ~Waiting)
    /\ UNCHANGED <<alive, session, loads, loaded>>

ChunkArrives(t) ==
    /\ alive /\ stage[t] = "stream" /\ out[t] # <<>> /\ Head(out[t]) \notin {"end", "cut"}
    /\ Reduce(t, Head(out[t]))
    /\ out' = [out EXCEPT ![t] = Tail(@)]
    /\ heard' = Append(heard, Head(out[t]))
    /\ UNCHANGED <<exists, rows, phase, sess, answer, at, saved, listening, crashes, disturbed>>
    /\ UNCHANGED <<alive, session, abortRef, stage, loads, loaded, calm>>

\* streamChatTurn resolves: refreshCurrentSession of the session it was sent to.
StreamResolves(t) ==
    /\ alive /\ stage[t] = "stream" /\ out[t] = <<"end">>
    /\ HangUp({t})
    /\ stage' = [stage EXCEPT ![t] = "refresh"]
    /\ StartLoad("refresh", t, sess[t])
    /\ UNCHANGED <<exists, rows, phase, sess, answer, at, saved, crashes, disturbed>>
    /\ UNCHANGED <<alive, session, transcript, isStreaming, status, abortRef, calm, heard>>

\* Mutant: the rejection is not shown.
StreamRejectsSilently(t) ==
    /\ alive /\ stage[t] = "stream" /\ (phase[t] = "refused" \/ out[t] = <<"cut">>)
    /\ HangUp({t})
    /\ calm' = FALSE
    /\ SendEnds(t)
    /\ UNCHANGED <<exists, rows, phase, sess, answer, at, saved, crashes, disturbed>>
    /\ UNCHANGED <<alive, session, transcript, isStreaming, status, loads, loaded, heard>>

\* It rejects: a status other than 200 whose body came to its end, or a stream
\* that was cut.  The error is shown; isStreaming stays.  Nothing listens for the
\* cut of another status's body: a "lost" turn is not settled by it.
StreamRejects(t) ==
    /\ alive /\ stage[t] = "stream" /\ (phase[t] = "refused" \/ out[t] = <<"cut">>)
    /\ HangUp({t})
    /\ status' = "error" /\ calm' = FALSE
    /\ SendEnds(t)
    /\ UNCHANGED <<exists, rows, phase, sess, answer, at, saved, crashes, disturbed>>
    /\ UNCHANGED <<alive, session, transcript, isStreaming, loads, loaded, heard>>

\* Ctrl+C while streaming: abort, if there is something to abort, and the
\* catch and finally of its sendMessage; a lost turn may stay as it is.
InterruptTurn(t) ==
    /\ alive /\ isStreaming /\ abortRef = t /\ stage[t] = "stream"
    /\ HangUp({t})
    /\ status' = "ready" /\ calm' = FALSE
    /\ SendEnds(t)
    /\ UNCHANGED <<exists, rows, phase, sess, answer, at, saved, crashes, disturbed>>
    /\ UNCHANGED <<alive, session, transcript, isStreaming, loads, loaded, heard>>

\* Ctrl+C otherwise, or the command palette at any time: the process ends, and
\* its connections with it, or stays until its streams are at their end.
Exit ==
    /\ alive
    /\ alive' = FALSE
    /\ HangUp(TuiTurns) \/ UNCHANGED <<listening, out>>
    /\ loads' = {} /\ stage' = [t \in TuiTurns |-> "over"] /\ abortRef' = None
    /\ UNCHANGED <<exists, rows, phase, sess, answer, at, saved, crashes, disturbed>>
    /\ UNCHANGED <<session, transcript, isStreaming, status, loaded, calm, heard>>

\* Enter on a session of the overlay (Ctrl+S, or the palette), the first load
\* still under way or failed, too.
SwitchToSession(s) ==
    /\ alive /\ loaded > 0 /\ ~isStreaming /\ s \in exists
    /\ StartLoad("switch", None, s)
    /\ calm' = (calm /\ ~Waiting)
    /\ UNCHANGED <<chatVars, alive, session, transcript, isStreaming, status,
                   abortRef, stage, heard>>

\* The daemon's steps, and the turns of other clients and of one that was left,
\* which read or hang up.
DaemonStep == (\E t \in Turns : Progress(t)) /\ UNCHANGED tuiVars
OthersStep ==
    /\ \/ \E t \in Turns : StandStill(t)
       \/ \E t \in Turns \ TuiTurns, s \in Sessions : Begin(t, s)
       \/ /\ \E t \in Turns :
               /\ t \notin TuiTurns \/ ~alive
               /\ \/ listening[t] /\ HangUp({t})
                  \/ out[t] # <<>> /\ out' = [out EXCEPT ![t] = Tail(@)] /\ UNCHANGED listening
          /\ UNCHANGED <<exists, rows, phase, sess, answer, at, saved, crashes, disturbed>>
    /\ calm' = (calm /\ \A t \in Turns \ TuiTurns : phase'[t] = "idle")
    /\ UNCHANGED <<alive, session, transcript, isStreaming, status, abortRef, stage,
                   loads, loaded, heard>>
DaemonCrash == Crash /\ calm' = FALSE
    /\ UNCHANGED <<alive, session, transcript, isStreaming, status, abortRef, stage,
                   loads, loaded, heard>>

LoadStep == \E l \in loads : LoadRead(l) \/ LoadDone(l) \/ LoadFails(l)
TurnStep == \E t \in TuiTurns : ChunkArrives(t) \/ StreamResolves(t) \/ StreamRejects(t)
UserStep ==
    \/ \E s \in Sessions : Bootstrap(s) \/ SwitchToSession(s)
    \/ \E t \in TuiTurns : SendMessage(t) \/ InterruptTurn(t)
    \/ Exit

TuiNext == DaemonStep \/ OthersStep \/ DaemonCrash \/ LoadStep \/ TurnStep \/ UserStep

\* The daemon's handlers and the client's event loop run.  Nothing obliges the
\* user or another client, and a load may be left without an answer.
TuiSpec == TuiInit /\ [][TuiNext]_allVars
           /\ WF_allVars(DaemonStep) /\ WF_allVars(TurnStep)

-----------------------------------------------------------------------------
\* Type invariant of the client; its session is one the daemon had.
TuiTypeOK ==
    /\ ChatTypeOK
    /\ alive \in BOOLEAN /\ isStreaming \in BOOLEAN /\ calm \in BOOLEAN
    /\ session \in Sessions \cup {None} /\ abortRef \in TuiTurns \cup {None}
    /\ status \in {"initializing", "ready", "streaming", "error"}
    /\ \A l \in loads : l.session \in Sessions /\ l.n < loaded
    /\ status # "initializing" /\ status # "error" => session # None

\* The events on screen since the message of the turn, from top to bottom, and
\* those of h that are to be seen there: all but the end of the answer.
OnScreen ==
    LET from == {i \in 1..Len(transcript) : transcript[i].live /\ transcript[i].role = "user"}
    IN  IF from = {} THEN <<>>
        ELSE FlattenSeq([i \in 1..(Len(transcript) - Max(from)) |-> transcript[Max(from) + i].parts])
Shown(h) == IF h # <<>> /\ Last(h) \in {"finish", "error"} THEN Front(h) ELSE h

\* For a user who waits for the client, on a daemon that answers: while a turn
\* streams its chunks stand on the screen in the order they came, none twice
\* and none missing, under the session they belong to; and when nothing is
\* under way the screen is the conversation of the store and the client is
\* ready for the next message (tui/app.tsx:168, tui/transcript-builders.ts:92).
CalmUserSeesConversation ==
    calm /\ alive /\ session # None =>
        /\ \A t \in TuiTurns : stage[t] = "stream" =>
             sess[t] = session /\ OnScreen = Shown(heard)
        /\ ~Waiting => transcript = FromHistory(rows[session]) /\ ~isStreaming /\ status = "ready"

\* A turn on screen as streaming comes to an end there (tui/app.tsx:196), whoever
\* dies and whatever is pressed, with one exception: a refusal that is cut within
\* its body is heard by nobody, and leaves the turn streaming (cli/http.ts:191).
StreamingEnds ==
    (alive /\ status = "streaming")
        ~> (~alive \/ status # "streaming" \/ (abortRef # None /\ phase[abortRef] = "lost"))

\* Ctrl+C interrupts a turn or exits: what the client calls streaming can be
\* interrupted (tui/input-handler.ts:26).
StreamingCanBeInterrupted == alive /\ isStreaming => abortRef # None
=============================================================================
