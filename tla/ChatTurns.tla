----------------------------- MODULE ChatTurns -----------------------------
(***************************************************************************)
(* Chat turns in the daemon: POST /chat (api/routes/chat.ts) runs the loop *)
(* of agent/chat-loop.ts over the chat store (store/sqlite/chat-store.ts). *)
(* Every await lets another request run.  The model and the AI SDK that    *)
(* calls it are external: an answer is a sequence of events, read at the   *)
(* pace of the client, and nothing orders two turns of one session.        *)
(***************************************************************************)
EXTENDS Naturals, Sequences, FiniteSets, SequencesExt

CONSTANTS
    Sessions,    \* session ids: those of the store at the start, or to be created
    Turns,       \* chat requests
    MaxSessions, \* config.conversations.max_sessions
    MaxUnderway, \* bound: chunks sent and not yet received
    MaxCrashes   \* bound: crashes of the daemon

None == "none"

ASSUME ChatAssumption ==
    /\ MaxSessions \in Nat /\ MaxCrashes \in Nat /\ MaxUnderway \in Nat \ {0}
    /\ IsFiniteSet(Sessions) /\ None \notin Sessions

\* The answer of a model: at most one step that calls a tool, then text, or an
\* error, which may come after some text.
Tool == <<"text", "call", "result">>
Answers == {<<"text", "text", "finish">>, Tool \o <<"text", "finish">>,
            <<"error">>, Tool \o <<"error">>}

VARIABLES
    exists,     \* the rows of chat_sessions
    rows,       \* the rows of conversations, per session, in the order they are read
    phase,      \* per turn: where the request is
    sess,       \* per turn: request.sessionId
    answer, at, \* per turn: the model's answer and how many events were read
    saved,      \* per turn: messages of onFinish that are stored
    out,        \* per turn: chunks sent and not yet received
    listening,  \* per turn: its client holds the connection
    crashes,    \* crashes so far
    disturbed   \* history: sessions with overlapping turns, or a crash within one

chatVars == <<exists, rows, phase, sess, answer, at, saved, out, listening, crashes, disturbed>>

ChatInit ==
    /\ exists \in SUBSET Sessions
    /\ rows = [s \in Sessions |-> <<>>]
    /\ phase = [t \in Turns |-> "idle"] /\ sess = [t \in Turns |-> None]
    /\ answer = [t \in Turns |-> <<>>] /\ at = [t \in Turns |-> 0] /\ saved = [t \in Turns |-> 0]
    /\ out = [t \in Turns |-> <<>>] /\ listening = [t \in Turns |-> FALSE]
    /\ crashes = 0 /\ disturbed = {}

Active(t) == phase[t] \in {"checked", "appended", "streaming"}
Row(role, status, t, part) == [role |-> role, status |-> status, turn |-> t, part |-> part]
AppendMessage(t, row) == rows' = [rows EXCEPT ![sess[t]] = Append(@, row)]
\* Nothing is sent to a client that is gone, and a slow one slows the answer.
Send(t, chunk) ==
    /\ Len(out[t]) < MaxUnderway
    /\ out' = IF listening[t] THEN [out EXCEPT ![t] = Append(@, chunk)] ELSE out

\* The model is configured or the request gets a 503, the session is there or
\* it gets a 404.
Begin(t, s) ==
    /\ phase[t] = "idle"
    /\ sess' = [sess EXCEPT ![t] = s]
    /\ listening' = [listening EXCEPT ![t] = TRUE]
    /\ \/ s \in exists /\ phase' = [phase EXCEPT ![t] = "checked"]
       \/ phase' = [phase EXCEPT ![t] = "refused"]
    /\ UNCHANGED <<exists, rows, answer, at, saved, out, crashes, disturbed>>

\* upsertChatSession and the user's message.
AppendUser(t) ==
    /\ phase[t] = "checked"
    /\ exists' = exists \cup {sess[t]}
    /\ AppendMessage(t, Row("user", "complete", t, "message"))
    /\ phase' = [phase EXCEPT ![t] = "appended"]
    /\ disturbed' = IF \E u \in Turns \ {t} : Active(u) /\ sess[u] = sess[t]
                    THEN disturbed \cup {sess[t]} ELSE disturbed
    /\ UNCHANGED <<sess, answer, at, saved, out, listening, crashes>>

\* conversationToModelMessages: the complete rows are the history of the call.
\* They are read by created_at and then rowid, which is the order they were
\* inserted in as long as the clock does not go back.
Complete(s) == {i \in DOMAIN rows[s] : rows[s][i].status = "complete"}

CallModel(t) ==
    /\ phase[t] = "appended"
    /\ \E a \in Answers : answer' = [answer EXCEPT ![t] = a]
    /\ phase' = [phase EXCEPT ![t] = "streaming"]
    /\ UNCHANGED <<exists, rows, sess, at, saved, out, listening, crashes, disturbed>>

\* One event of the answer: a chunk for the client; an error also runs onError,
\* with the text so far (onChunk collects it) or the error's message.
Happened(t) == {answer[t][i] : i \in 1..at[t]}
ModelEvent(t) ==
    /\ phase[t] = "streaming" /\ at[t] < Len(answer[t])
    /\ at' = [at EXCEPT ![t] = @ + 1]
    /\ LET e == answer[t][at[t] + 1] IN
         /\ Send(t, e)
         /\ IF e = "error"
            THEN AppendMessage(t, Row("assistant", "error", t,
                                      IF "text" \in Happened(t) THEN "partial" ELSE "message"))
            ELSE UNCHANGED rows
    /\ UNCHANGED <<exists, phase, sess, answer, saved, listening, crashes, disturbed>>

\* Mutant: only the assistant's messages are stored.
AssistantMessagesOf(t) ==
    (IF "call" \in Range(answer[t]) THEN <<Row("assistant", "complete", t, "call")>> ELSE <<>>)
    \o (IF "finish" \in Range(answer[t]) THEN <<Row("assistant", "complete", t, "text")>> ELSE <<>>)

\* response.messages: those of the steps that came to their end.  onFinish is
\* not called when there is none.
MessagesOf(t) ==
    (IF "call" \in Range(answer[t])
     THEN <<Row("assistant", "complete", t, "call"), Row("tool", "complete", t, "result")>> ELSE <<>>)
    \o (IF "finish" \in Range(answer[t]) THEN <<Row("assistant", "complete", t, "text")>> ELSE <<>>)

AnswerRead(t) == phase[t] = "streaming" /\ at[t] = Len(answer[t])

\* Mutant: the messages are stored with Promise.all.
PersistAny(t) ==
    /\ AnswerRead(t) /\ saved[t] < Len(MessagesOf(t))
    /\ \E i \in 1..Len(MessagesOf(t)) :
         /\ MessagesOf(t)[i] \notin Range(rows[sess[t]])
         /\ AppendMessage(t, MessagesOf(t)[i])
    /\ saved' = [saved EXCEPT ![t] = @ + 1]
    /\ UNCHANGED <<exists, phase, sess, answer, at, out, listening, crashes, disturbed>>

\* persistResponseMessages: one insert after the other, awaited, no transaction.
PersistNext(t) ==
    /\ AnswerRead(t) /\ saved[t] < Len(MessagesOf(t))
    /\ AppendMessage(t, MessagesOf(t)[saved[t] + 1])
    /\ saved' = [saved EXCEPT ![t] = @ + 1]
    /\ UNCHANGED <<exists, phase, sess, answer, at, out, listening, crashes, disturbed>>

CloseStream(t) ==
    /\ AnswerRead(t) /\ saved[t] = Len(MessagesOf(t))
    /\ phase' = [phase EXCEPT ![t] = "done"]
    /\ Send(t, "end")
    /\ UNCHANGED <<exists, rows, sess, answer, at, saved, listening, crashes, disturbed>>

\* No abort signal is passed to the model: a client that goes away leaves the
\* call running, or, when nothing pulls its stream any more, standing still.
StandStill(t) ==
    /\ phase[t] = "streaming" /\ ~listening[t] /\ at[t] < Len(answer[t])
    /\ phase' = [phase EXCEPT ![t] = "gone"]
    /\ UNCHANGED <<exists, rows, sess, answer, at, saved, out, listening, crashes, disturbed>>

HangUp(ts) ==
    /\ listening' = [t \in Turns |-> listening[t] /\ t \notin ts]
    /\ out' = [t \in Turns |-> IF t \in ts THEN <<>> ELSE out[t]]

\* Mutant: pruned sessions leave their messages behind.
CrashNoCascade ==
    /\ crashes < MaxCrashes
    /\ crashes' = crashes + 1
    /\ phase' = [t \in Turns |-> IF Active(t) THEN "gone" ELSE phase[t]]
    /\ out' = [t \in Turns |-> IF Active(t) /\ listening[t] THEN Append(out[t], "cut") ELSE out[t]]
    /\ \E s \in exists : exists' = exists \ {s}
    /\ disturbed' = disturbed \cup {sess[t] : t \in {u \in Turns : Active(u)}}
    /\ UNCHANGED <<rows, sess, answer, at, saved, listening>>

\* The daemon dies, it may be in the middle of a refusal's body ("lost"), and is
\* started again; at its start it prunes the sessions beyond the limit, their
\* messages by cascade.  Which ones go (the least recently updated) is left open.
Crash ==
    /\ crashes < MaxCrashes
    /\ crashes' = crashes + 1
    /\ \E halfSent \in SUBSET {t \in Turns : phase[t] = "refused" /\ listening[t]} :
         phase' = [t \in Turns |-> IF Active(t) THEN "gone"
                                  ELSE IF t \in halfSent THEN "lost" ELSE phase[t]]
    /\ out' = [t \in Turns |-> IF Active(t) /\ listening[t] THEN Append(out[t], "cut") ELSE out[t]]
    /\ \E pruned \in SUBSET exists :
         /\ Cardinality(pruned) =
              (IF MaxSessions > 0 /\ Cardinality(exists) > MaxSessions
               THEN Cardinality(exists) - MaxSessions ELSE 0)
         /\ exists' = exists \ pruned
         /\ rows' = [s \in Sessions |-> IF s \in pruned THEN <<>> ELSE rows[s]]
    /\ disturbed' = disturbed \cup {sess[t] : t \in {u \in Turns : Active(u)}}
    /\ UNCHANGED <<sess, answer, at, saved, listening>>

Progress(t) == AppendUser(t) \/ CallModel(t) \/ ModelEvent(t) \/ PersistNext(t) \/ CloseStream(t)

-----------------------------------------------------------------------------
\* Type invariant of the daemon's side.
ChatTypeOK ==
    /\ exists \subseteq Sessions
    /\ \A s \in Sessions :
         /\ \A r \in Range(rows[s]) : r.turn \in Turns /\ sess[r.turn] = s
         /\ rows[s] # <<>> => s \in exists
    /\ phase \in [Turns -> {"idle", "refused", "lost", "checked", "appended", "streaming",
                           "done", "gone"}]
    /\ \A t \in Turns : /\ answer[t] \in Answers \cup {<<>>} /\ at[t] \in 0..Len(answer[t])
                        /\ saved[t] \in 0..Len(MessagesOf(t))
    /\ crashes \in 0..MaxCrashes

\* The rows turn t left in its session, and all it may leave there.
OfTurn(t) == {i \in DOMAIN rows[sess[t]] : rows[sess[t]][i].turn = t}
Whole(t) == <<Row("user", "complete", t, "message")>>
            \o (IF "error" \in Happened(t)
                THEN <<Row("assistant", "error", t, IF "text" \in Happened(t) THEN "partial" ELSE "message")>>
                ELSE <<>>)
            \o MessagesOf(t)

\* Whatever other turns store in between, and whenever the daemon dies, what
\* a turn leaves in the conversation is its user message, its error if the
\* model failed, and the messages of its answer from the first one on, each
\* once; all of them once the stream was closed (agent/chat-loop.ts:53).
TurnRowsInOrder ==
    \A t \in Turns : phase[t] # "idle" =>
        LET rs == rows[sess[t]]
            stored == {rs[i] : i \in OfTurn(t)}
            whole == Whole(t)
        IN  /\ stored \subseteq Range(whole)
            /\ \A i, j \in OfTurn(t) : \A k, m \in DOMAIN whole :
                 i < j /\ rs[i] = whole[k] /\ rs[j] = whole[m] => k < m
            /\ \A k, m \in DOMAIN whole : k < m /\ whole[m] \in stored => whole[k] \in stored
            /\ phase[t] = "done" /\ crashes = 0 => Range(whole) \subseteq stored

\* In the history of session s, i comes directly before j.
Before(s, i, j) == i < j /\ \A k \in Complete(s) : ~(i < k /\ k < j)

\* Every tool call is followed by its result, and no result stands alone.
CallsAnswered(s) ==
    /\ \A i \in Complete(s) : rows[s][i].part = "call" =>
         \E j \in Complete(s) : Before(s, i, j) /\ rows[s][j].part = "result"
                               /\ rows[s][j].turn = rows[s][i].turn
    /\ \A j \in Complete(s) : rows[s][j].part = "result" =>
         \E i \in Complete(s) : Before(s, i, j) /\ rows[s][i].part = "call"
                               /\ rows[s][i].turn = rows[s][j].turn

\* A history handed to the model is one it accepts, each tool call directly
\* followed by its result, as long as no two turns of the session overlapped
\* and no crash hit a turn of it: failed and abandoned answers leave no half
\* of a call (agent/chat-history.ts:91).
HistoryWellFormed ==
    [][\A t \in Turns : phase[t] = "appended" /\ phase'[t] = "streaming" =>
         CallsAnswered(sess[t]) \/ sess[t] \in disturbed]_chatVars
=============================================================================
