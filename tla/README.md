# Bodhi: verification models

Bodhi is a local daemon that records what a developer does (shell commands, git
operations, prompts to coding assistants), keeps it in SQLite, lets a language
model extract facts from it in the background, and answers questions about it
over HTTP, a CLI and a terminal UI. These modules model the parts of it where
several processes, callbacks, timers or crashes meet; `D/` below stands for
`src/packages/daemon/src/`.

## 1. The system

| Component | State | Operations | How it interacts | What is hard | What makes it correct |
|---|---|---|---|---|---|
| Capture hooks (`D/capture/shell.ts`, `git.ts`, `D/cli/ai-capture.ts`) | one event each, an open descriptor | POST, give up, append to a spool file | HTTP over a unix socket, files in the data directory | time-outs of 100 ms, many processes, a daemon that is down | an event is stored or on disk |
| Spool replay (`D/lifecycle/spool.ts`) | files and their draining twins, the lines read, the lines that failed | collect, rename, read, append, rewrite, unlink | reads what hooks write while they write it | crash between any two system calls | nothing lost, nothing stored twice |
| Ingestion (`D/api/routes/ingest.ts`) | none | store, reject, refuse | pipeline, store, bus | the answer decides whether the hook spools | the answer tells the truth |
| Pipeline (`D/pipeline/`) | none | validate, redact, enrich | ingestion, replay, egress | overlapping matches, fail-closed | nothing unredacted passes |
| Event store (`D/store/sqlite/event-store.ts`) | rows with `started_at`, `processed_at` | append, claim, mark, list, search | everybody | duplicates, visibility timeout | one row per `event_id` |
| Intel service (`D/intel/service.ts`) | queue, `processing`, breaker, counters | enqueue, pump, process, rescan, drain | store, extractor, bus | drop-oldest, failures, half-open probes, midnight, crashes | facts before mark, one job at a time, every event processed in the end |
| Facts (`D/intel/extractors/facts.ts`, `D/store/sqlite/fact-store.ts`, `D/tools/store-fact.ts`) | rows with validity and status | insert, invalidate, search | intel, API, agent | supersession is two writes | one current fact per key |
| Lifecycle (`D/daemon.ts`, `D/lifecycle/`, `D/cli/commands.ts`) | pid file, socket file, timers | bootstrap, start, stop, fatal exit | CLI processes, signals | two daemons, reused pids | one daemon owns pid and socket |
| HTTP server (`D/api/server.ts`) | hits per window | authenticate, limit, parse, answer | routes | two windows asked in turn | never above the limit, charged for what passed |
| Bus and SSE (`D/bus.ts`, `D/api/routes/stream.ts`) | listeners | on, off, emit | store, intel, clients | unsubscribe during emit, aborts | no event to a closed client, no leak |
| Chat (`D/agent/`, `D/store/sqlite/chat-store.ts`) | sessions, messages, ordinals | turn, persist, prune | model, CLI, TUI | concurrent turns, aborts | a session reads as a conversation |
| CLI client (`D/cli/http.ts`) | a chunk buffer, a promise | read frames, abort | server | frames split anywhere; end, error and abort race | frames out = frames in, the promise settles for a reason |
| TUI (`D/tui/`) | reducer state | send, abort, refresh, switch | client | late answers | the screen is the conversation |
| Event records (`D/pipeline/`, `D/store/sqlite/event-*.ts`) | envelope, context, payload, child rows, search text | append, filter, search, hydrate | ingestion, store, readers | five inserts in one transaction, nine types | what was accepted reads back, redacted |
| Retrieval (`D/retrieval/`) | none | plan, rank | store, agent | bounds | a sorted, bounded answer |
| Hook installation (`D/capture/`) | rc files, settings | install, uninstall | user files | repeated runs | idempotent, reversible |

`PROJECT.json` lists every component with its modelling status and, under
`hazards`, every place of the code that the properties are aimed at.

## 2. The modules

| Module | What it is |
|---|---|
| `CaptureSpool` | hooks, `/events`, the drain of the spool files, crashes |
| `MCCaptureSpool` | model values for it |
| `CaptureSpool_proofs` | its theorems |
| `IntelService` | the cold path |
| `SerialExtraction` | what the cold path promises, without queue, breaker, budget and time |
| `MCIntelService` | the instances of it |
| `IntelService_proofs` | its theorems, the refinement of `SerialExtraction` included |
| `FactReconcile` | the facts of one key and their three writers |
| `MCFactReconcile` | the instances of it |
| `FactReconcile_proofs` | its theorems |
| `DaemonLifecycle` | daemons, `bodhi start` and `bodhi stop` over the pid file and the socket |
| `MCDaemonLifecycle`, `DaemonLifecycle_proofs` | its instance, its theorems |
| `HttpGate` | what a request meets before and in its handler |
| `MCHttpGate`, `HttpGate_proofs` | its instance, its theorems |
| `EventBus` | the bus, its services and its stream clients |
| `SseWire` | one streamed answer, from the pump of the server to the client's callback |
| `Streams` | the two in one specification |
| `MCStreams`, `Streams_proofs` | its instance, the theorems of all three |
| `ChatTurns` | chat turns in the daemon and the conversations they store |
| `TuiSession` | the terminal UI on top of `ChatTurns` |
| `MCTuiSession`, `TuiSession_proofs` | the instance and the theorems of both |
| `EventRecords` | pipeline, insert transaction, search text, filters and hydration |
| `MCEventRecords`, `EventRecords_proofs` | its instance, its theorems |

Composition: `TuiSession` extends `ChatTurns` (the client's `SendMessage` is the daemon's
`Begin`, its chunks are the daemon's `out`), `Streams` puts `EventBus` and `SseWire`
side by side, `IntelService` implements `SerialExtraction`, and `FactReconcile` opens the step `Reconcile` of `IntelService`.
`DaemonLifecycle` relies on `IntelService` for the end of `intel.drain`. A mutant of a
definition stands before it, under a comment that begins with "Mutant"; no
specification uses one.

### 2.1 CaptureSpool

Every hook owns one event; an event is its hook, its `event_id` and its spool
line at once. `hook[e]` is the program counter of the hook process, `fd[e]` the
file its `>>` has opened. A spool file is a set of lines under one of two names,
`source` (`spool.<id>.jsonl`) and `draining` (`spool.<id>.draining.jsonl`);
`present` holds the directory entries, and a rename moves the open descriptors
along, as the file system does. Path constants follow the generated scripts:
`$$` is inside single quotes there (`D/capture/shell.ts:230`), so all shells
share `spool.$$.jsonl` and all git hooks share `git-hook-spool.$$.jsonl`, while
an assistant command really has a file of its own.

The drain (`D/lifecycle/spool.ts:39`) is one action per file-system call:
`PickSource` (rename) or `PickLeftover`, `ReadLines`, one of `LineStored`,
`LineDropped`, `LineFailed` per line, `TruncateSource` and `RewriteFailed` (the
two halves of `writeFileSync`), `UnlinkDraining`. The drain has no awaits on
timers or I/O callbacks (bun:sqlite is synchronous), so no other code of the
daemon runs inside it, but hooks, being processes, run between any two calls.
Every step can be the last before `Crash`. `ReadThrows` is the `finally` block
after a failed read. Lines of a file are unordered: each is handled on its own.

`exposed` is a history variable. It collects the lines written in one of the
unprotected windows: written to a new source while a draining twin exists
(`D/lifecycle/spool.ts:94` may truncate them), written through an old descriptor
after the read (`:99` unlinks them), or contained in a file that could not be
read. The safety property is about all other lines; `spool_rewrite` shows that the
first window is real, and section 4 describes the second.

### 2.2 IntelService

`queue`, `circuitBreaker`, `failures` and `dailyExtractions` are the variables of
`createIntelService`; `current` and `phase` are `processing` and the program
counter of `processEvent`, which suspends at the extractor call, so everything
else may happen between `BeginJob` and `ExtractOk` or `JobThrows`. `claimed`,
`age` and `processed` are the columns `started_at` and `processed_at`. The
breaker's `openUntil`, the failure timestamps and `started_at` are kept as
ages, cut off where no comparison of the code tells them apart any more, so the
state space is finite and `Tick` can go on for ever. `NewDay` moves the wall
clock to another day at any point. `Batches` and `OldestFirst` describe the answer
of `getUnprocessedEvents`, which has at most `QueueMax` rows because the service
passes that limit.

History variables: `reconciled` (events whose facts were written), `spentToday`
(extractions of the wall-clock day), `overnight` and `runsToday`. They are read by no guard.

`SerialExtraction` has four variables: what arrived, what has facts, what is done,
what is worked on. `IntelService` maps `phase` and `current` to its `working` and
implements it (`ImplementsSerial`).

### 2.3 FactReconcile

What `IntelService` calls `Reconcile` in one step is `reconcileExtractedFacts`
(`D/intel/extractors/facts.ts:125`). `FactReconcile` opens it for one key: `facts`
is the table, a row's id being its place; `Current` is what `getFacts` selects with
`active_only`, and the newest of them is what `limit: 1` leaves (rows are taken to
be in the order of `created_at`, that is, the clock does not go back). `left` holds
the candidates still to handle. `SkipKnown`, `InsertFirst`, `InsertSuccessor` and
`InvalidateOld` are the branches of the loop, cut between the two writes, each
being a transaction of its own. All awaits in the loop are on synchronous store
calls, so no other code of the daemon runs inside it: `ApiFact` and `AgentFact`
happen between reconciliations, `Interrupted` (a crash, or a throwing call, after
which the event is extracted again) anywhere. Any `supersedes_fact_id` the API
passes is stored, since the column has no foreign key; an id of no row acts as
none. `StatusOf` is `normalizeFactStatus`. Nothing in the repository calls
`updateFact`, so a pending fact stays pending.

`torn` is a history variable: the facts whose successor was written when the
reconciliation was interrupted.

### 2.4 DaemonLifecycle

A daemon is its pid; pids ascend, and after a death `PidReused` lets a pid name a
foreign process. `pidFile` and `sock` are the two files, each with the process it
leads to. `stage[d]` is the program counter of `startDaemon` and of `shutdown`: the
stale pid file is judged (`CheckPidFile`) and removed (`UnlinkStalePid`) in two
system calls, the pid is written, the socket file removed, the store prepared and
the socket bound; the shutdown stops the server (which removes the socket file),
removes the pid file and the socket file once more. Signal and fatal handlers exist
from `serving` on, since `main` installs them after `startDaemon` returned; before
that SIGTERM and an uncaught error kill. `Fatal` has the cases of
`createFatalHandler` over the two `shuttingDown` flags: the handler runs the shutdown,
ignores a second error, exits at once when another shutdown is under way, and exits
when its own shutdown throws. A bound path is either replaced or refused by
`Bun.serve` (external, so both). A round of `waitForHealth` is two steps, as in the
code: `StartProbes` sees the process alive, and only then is `/health` asked, which
anything that listens on the socket may answer (`StartAnswered`) or nobody
(`StartUnanswered`); daemons may die and be started in between. `bodhi stop` signals
whatever `bodhi.pid` names. A time-out of either command may come at any time, but
not during a request, which has none.

History: `overlap` (two daemons lived at once), `unclean` (died without a whole
shutdown), `obstructed` (died of a file met at boot), `answered` (who answered a
start), `known` (the daemons there had been when a start last looked at its process).
`StartAnswerMeans` uses the last: a reported pid may be one request behind the daemon
that answered, and not more.

### 2.5 HttpGate

`hits[k][w]` are the requests whose timestamps a `SlidingWindowLimiter` holds for the
key `method path`. The clock is turned round: a request has an age, cut off where
no window holds it. `Refuses` and `Passes` are `limiters.every(check)`, with its side
effect in `Checked`: windows before the refusing one have recorded the hit, the
refusing one has dropped its old timestamps, those after it were not asked.
`Unauthorized`, `DeclaredTooLarge` and `HealthAnswered` come before any limiter,
`HandlerAnswer` is the body parser and the route, by the codes they answer with.
`TypeOK` includes that no list outgrows its limit: the code drops old timestamps on
each check, so its memory is bounded although nothing else ever clears a list.

### 2.6 EventBus and SseWire

`EventBus`: an event is its place in `emitted`, the history of everything emitted, and
`microtasks`, `handled` and `written` hold such places, so that order and repetition can be
told. `exact` and `wildcard` are the two listener tables in insertion order.
`emit` calls nobody: it queues one microtask per listener (`Dispatch`), and
`RunMicrotask` takes them in order. A connection, an abort or a timer of a client is
a macrotask and waits for the queue to be empty; services come and go inside it.
A handler that was queued runs although its listener has unsubscribed since: that
is the code, and `Due` says so: it is what was emitted between `since` and `until`, whenever
it is run. The writer of `D/api/routes/sse.ts`
is `Enqueue`: closed by `Cleanup`, or by a controller that throws because its reader
cancelled.

`SseWire`: the server writes payload lines separated by blank ones, heartbeats as
comments, and the wire hands the client any number of tokens at a time. `Receive`
is a "data" event and starts the loop over the frames (`ParseFrame`), in which no
other event runs. `Settle` is the pair `finishResolve` and `finishReject`. Three
callers differ in two ways: whether `onEvent` throws on an error payload, and
whether they pass a signal. `/agent` is the code's own pump; the UI message
stream of `/chat` is the AI SDK's (external), described by its endings.

### 2.7 ChatTurns and TuiSession

`phase[t]` is the program counter of `POST /chat`: session checked, user message
appended, model called and streaming, done. Every await lets other turns run, also
of the same session: nothing orders them. The model (external) answers with text,
with a tool call, its result and text, or with an error, perhaps after some of it.
`out[t]` holds what the client has not read; the answer is read at its pace. An
error is stored by `onError`; `PersistNext` is one iteration of
`persistResponseMessages`. No abort signal reaches the model, so a client that hangs
up leaves its turn running, or standing still when nobody pulls the stream
(`StandStill`). `Crash` includes the restart with `pruneChatSessions`; it may cut a
refusal within its body (phase `lost`), which no listener of the client hears
(`D/cli/http.ts:191`). The rows of a session are in the order they were inserted; the
code reads them by `created_at` first (`D/store/sqlite/chat-store.ts:244`), so the
clock is taken not to go back.

`TuiSession` has the reducer's `session`, `transcript`, `isStreaming` and `status`, the
reference to the AbortController, and the loads (bootstrap, refresh, switch) under
way, whose data is read at one moment and arrives at a later one. `LoadDone` is
`hydrate-session`, which replaces everything. `SendEnds` is the `finally` of
`sendMessage`: it clears the reference whoever owns it by then. An entry of the
transcript is `live` when its id comes from a chunk and not from the store. React
has rendered before the next key is handled, so a key sees the reducer's state. The
overlays are left out, and what they offer may be chosen at any time once the first
load has been started, which allows more than the program does. A client that is left
(`Exit`) destroys its renderer; its process ends with its connections, or stays until
its streams are at their end, since `D/cli.ts:11` exits explicitly only with a code
other than 0.

The properties look at rows by their places: `OfTurn` are those of a turn in its session,
`Complete` those that make the history of a call.

History: `calm` (nothing failed, nobody else wrote and the user waited for the
client), `heard` (the chunks of the turn on screen), `disturbed` (sessions whose turns
overlapped or were hit by a crash).

### 2.8 EventRecords

`Begin` validates an event and takes it through `Transformed` (strip unknown fields,
redact, enrich); the transaction of `appendEvent` is one action per statement or
child row, on a copy `work` of the committed tables `db`, and `Rollback` is a failure
or a crash at any of them. `Required`, `Optional` and `Columns` give every type its
schema and its payload table, `DeriveSearchText` the tokens of the index, and
`GetEvents`, `SearchEvents` and `HydrateEvents` the way back. Every read of the code
has a limit (`clampLimit`); `AcceptedReadsBack` is about results that fit into it, and
`SearchEvents` leaves it out with the relevance that decides what fits. Values are model strings:
the scanner finds a value or does not, a path has a last component. What reads back
differs from what was sent in two places, and the model has both: `cwd` of a shell
event comes from the context row ("" without one), and `hostname` is stored nowhere.
That no secret is found again is said of what the scanner is given; the context is not
scanned, so what comes from it is left out there.

## 3. The runs

| Run | Shows | Instance |
|---|---|---|
| `spool_safety` | protected lines survive, one row per event, assistant answers mean something | two shells on one file, one assistant file, one crash, one store failure or refusal, one unreadable file |
| `spool_live` | protected lines are settled in the end, the startup drain ends | one shell, one assistant, same failures, fair |
| `spool_rewrite` | a way to lose a spooled line (violation) | two shells |
| `intel_safety` | wake-ups, breaker, claims, budget, refinement | two events, queue of one, threshold 2, three failures, one stop, one duplicate |
| `intel_live` | every stored event is processed, a shutdown ends | two events, queue of one, one rate-limit retry, two failures, one stop, fair |
| `fact_auto` | a key keeps a current fact, superseded facts are closed | two values, answers of up to two candidates, two extractions, two writes by the API or the agent, one interruption |
| `lifecycle` | a daemon alone is reachable whatever it finds, a start is at most one request behind, a clean stop leaves nothing, boots and shutdowns end | three daemons, of which the first may be dead already with its files left, two starts, one stop; one crash, two fatal errors, one reused pid, two of these in one behaviour; daemons fair |
| `http_gate` | no window is ever exceeded, no list outgrows it, and who is charged for a refusal | five requests over three keys: one with a short and a long window, one with one window, one with none; ages up to 4 |
| `streams` | every listener hears its events in order; frames arrive whole however cut; the promise settles, and rejects only for a cause | one stream client and two services over four events; an answer of up to three deltas, two heartbeats |
| `chat` | rows of a turn, histories, the screen of a user who waits, streaming ends | two sessions, two turns of the client, two of others, three loads, one crash, one session kept |
| `tui_interrupt` | Ctrl+C is dead after an aborted or failed turn (violation) | the same |
| `records` | no row without payload, accepted events read back | two offers of every type (all fields, required ones), three appends |

Bounds. Two shells are needed for every race on one file (one whose line is being
drained, one that appends); a third adds no new kind of interleaving, since the
drain handles lines one by one. One assistant file makes the loop over files run
twice, which is what state left from the file before (`failedLines`) needs. One
crash suffices for a leftover draining file; a second is another instance of the
same state. No instance has a git hook: nothing reads its file. In the intel
instances the queue of one drops with two events, threshold 2 with three failures
opens the breaker and fails the probe, and the window, open time, visibility timeout
and rescan interval keep the order they have in the code (open time <= window <=
visibility = rescan interval). In `fact_auto`, two candidates in one answer make the
second one meet what the first wrote; two extractions with an interruption make a
retry; two writes beside them put the key into every shape the lookup
distinguishes (no current fact, one, several).

Two daemons are the race (one that boots and one that ends, or both booting); a
predecessor that died before the first command brings the stale files, so three
processes take part. Two faults are what the hardest case takes: a fatal error, and
another one or a crash in the shutdown it started. The starts are alike, so the first
one goes first. Two chat turns of a session are the overlap; the second session
is there to be switched to, and to be pruned. In `chat`, one half of the behaviours is
this client alone with the daemon, the other two foreign clients without it:
`calm` already excludes foreign writes, and the other properties are about the
daemon's rows or about the client's own turn. After something has gone wrong on the
screen the user starts no further turn or load and the daemon does not crash as well:
`CalmUserSeesConversation` says nothing from there on, and `StreamingEnds` needs the
turns under way only. `streams` likewise runs one of the two systems per behaviour,
which share the writer and nothing else. In `records` three appends give an insert, a
duplicate with other content, and one more after either failed.

The passing runs of `CaptureSpool`, `IntelService` and `HttpGate` check deadlock as well:
none of them may stop, since a daemon can always be started, ticks and requests
always come, and timers always fire. The others end when their bounded supply of
work is used up and everyone is done, so their runs do not.

Fairness. `CaptureSpool` assumes that hook processes run to their end, the
interval fires, a drain (a plain loop) goes on, and someone starts the daemon
again. `IntelService` assumes that time passes, the rescan timer fires, a job's next
step happens (a call to the model ends, one way or the other: the code has no
timeout of its own), a shutdown goes on, and the daemon is started again.
`DaemonLifecycle` lets a daemon that can run do so, and assumes nothing of the commands:
nothing makes a user type one, and the request of a start has no time-out. `SseWire` and
`ChatTurns` assume that event loops run, that requests are answered and that a model
answers in the end; `TuiSession` that its event loop runs, but not that a load is ever
answered. Crashes, failures, aborts, deliveries, stops and keys are never fair.

## 4. What the code does otherwise

Two runs end in a violation; each one checks a sentence of a document.

* ADR-033 promises at-least-once delivery. The drain loses a line appended during a
  drain with a failed line (`D/lifecycle/spool.ts:94`, `spool_rewrite`).
* The TUI blueprint (`docs/implementation/tui-phase-1-blueprint.md:472`) says that
  Ctrl+C interrupts a running answer and otherwise offers to leave. When a turn was
  aborted or its stream rejected, `isStreaming` stays set and the reference to the
  AbortController is cleared (`D/tui/app.tsx:193`), so Ctrl+C does neither and no
  further message can be sent until a load replaces the state (`tui_interrupt`).

The models follow the code in more places where it surprises, without a run of
their own.

* Delivery (ADR-033): a line written through a descriptor opened before the rename
  goes with the draining file (`UnlinkDraining`, `D/lifecycle/spool.ts:99`); a file
  that cannot be read is unlinked (`ReadThrows`, `:98`); the shell hook takes 429, 500
  and 507 for success, as `curl` runs without `--fail` (`Answer`,
  `D/capture/shell.ts:247`); the git spool is never drained, its name having another
  prefix (`Replayed`, `D/capture/git.ts:110` against `D/lifecycle/spool.ts:25`); all
  shells share one spool file (`ShellSpool`, `D/capture/shell.ts:230`).
* Budget (ADR-040 promises a cap on daily extractions): the counter is a variable of
  the process (`D/intel/service.ts:102`), so a restart grants another budget, which is
  why `BudgetPerRun` multiplies by `runsToday`; a model call that was served and failed
  to parse is not counted (`JobThrows`, `:246`).
* Facts: the two writes of a supersession are not one transaction and a retry skips
  the value that is already there (`D/intel/extractors/facts.ts:136`), so an
  interruption leaves both facts current, which `torn` records although a test says
  that the new fact supersedes the old one (`D/intel/service.test.ts:82`); with
  `auto_approve` off, a pending fact still invalidates the approved one
  (`D/intel/extractors/facts.ts:154`), so `NeverForgotten` is stated under
  `AutoApprove`; the store-fact tool supersedes nothing (`AgentFact`,
  `D/tools/store-fact.ts:24`).
* Lifecycle (ADR-020 calls startup idempotent): no lock orders two daemons. Two
  starts, or a start during a shutdown, overlap; then two daemons may serve, the last
  to bind owning the socket and either of them the pid file, and the first to stop
  removes both files of the other. The properties are stated for daemons that do not
  overlap, except `CleanStopLeavesNothing`, which holds for all. With a reused pid,
  `bodhi start` waits for a daemon that is not there, and `bodhi stop` signals the
  foreign process. A start looks at its process before it asks `/health`
  (`D/cli/helpers.ts:177`), so it may report the pid of a daemon that died meanwhile when
  the next one answers; `StartAnswerMeans` names that case and excludes any other.
* Limits: a request that the hour window refuses has used up a place in the minute
  window (`HitsAccounted`, `D/api/server.ts:97`).
* Streams: the body of a refusal that is cut half-way has no "aborted" listener, and
  the promise of `requestSse` never settles (`D/cli/http.ts:197`); the model has that
  state, and `AnswersSettle` names it as its exception. In the terminal UI such a turn
  stays "streaming", which is the exception of `StreamingEnds`.
* Chat: two turns of one session, or a crash while a turn stores its messages, can
  leave a tool call without its result, or apart from it, in the history that every
  later turn sends (`disturbed`, `D/agent/chat-history.ts:96`).
* TUI: a message sent while the refresh of the turn before is pending is wiped from
  the screen by it, with `isStreaming` and the other turn's abort reference
  (`D/tui/app.tsx:192`); two switches may arrive out of order; after a failed refresh a
  reused chunk id continues an old entry (`D/tui/transcript-builders.ts:94`).
  `CalmUserSeesConversation` is about a user who waits.
* Records: only the metadata is scanned for secrets, not the context
  (`D/pipeline/transforms/redact.ts:170`).

## 5. The proofs

All theorems hold for every value of the constants: any number of hooks, events,
daemons, requests, crashes and failures, and any limits and timeouts. They assume
only what the modules' `ASSUME`s say (the hook kinds are disjoint, the bounds are
natural numbers, queue and threshold are positive, pids are numbers, a window is no
longer than the cut-off of ages, clients are no services, no session and no turn of the
client has the name that stands for none, offered events have a known type, no null,
and a function as their context, and a secret is no word the code itself writes, such as
the mask).

`CaptureSpool_proofs`. `SpooledSurvives` is not inductive: nothing in it says why
a line that is neither pending nor failed may go with the draining file. `IInv`
adds `DrainInv`: a source beside a draining file holds only lines the draining
file has too, or exposed ones (so truncation loses nothing protected); while
lines are processed, each protected line of the file is pending, failed or
settled; the failed ones are in the source before the unlink; descriptors follow
renames. Each action has a lemma. From it follow `NeverLost` and
`DrainAccountsKept`; `NoDuplicates`, `RefusedStaysOut` and `AssistantAcksMean` need
only type correctness and the ways `rows` and `hook` change.

`IntelService_proofs`. `IInv` joins type correctness and `NoLostWakeup` (each needs
the other to take an event from the queue), `JobInv` (queue and worker hold
stored events, a stopping daemon queues nothing, the event about to be marked has
its facts), the breaker, claim and fact invariants, and `BudgetInv`, which says
how far the counter may lag behind the history: by a full budget for each earlier
run of the day, and by nothing within a run, unless the day has changed under a
job. Lemmas on `Offer` and `Recent` bound what a drop and the expiry of failures
leave. From `IInv` follow the listed theorems and `Refinement`, step by step.

`FactReconcile_proofs`. `FactInv` is types, `PairInv` (between the two writes the
old fact is still current and the new row is the last one) and `LinksInv` (a row
supersedes an earlier one). Every step adds a row, closes one or leaves the table
alone (`StepAppends`, `StepCloses`); from that follow `KeyKept`,
`ClosedOnceSuperseded` and, with the cardinality of the current facts,
`SurplusBounded`. `AnswerIsCurrent` needs `AnswerInv` as well: the candidates left
are the rest of the answer, and the newest current fact has the value of the last
one handled.

`DaemonLifecycle_proofs`. `SoleDaemonReachable` needs `SoleInv`: without overlap at
most one daemon runs, and what it has done so far (judged the file stale, removed
it, written its own, removed the socket) is still true of the files, since nobody
else touches them. `CleanStop` needs no such assumption: a file names only a process
that ran after its boot, and the two removals of a shutdown come last, whoever's
files they remove. `AnswerTrue` needs `AnswerInv`: while a start asks, its target is the
only one of the daemons it knew of that may still run. That holds when it looks, because
`SoleInv` allows one running daemon and the target runs; it goes on to hold because a dead
daemon does not come back, and overlaps and reused pids are never undone (`Onward`). Who
answers is running, so it is the target or was unknown.

`HttpGate_proofs`. `TypeCorrect` includes the limit of the lists: an arrival adds to a
window only what it retains, and only below the limit (`ArrivalBounded`). `HitsAccounted` is inductive once ages are below the cut-off:
`LimitsKept` follows from it, because what passed within a window is among what the
window holds, and a window takes a hit only below its limit (cardinalities of
finite sets).

`EventRecords_proofs`. The open transaction is `Grown` by at most one envelope, and
`WorkInv` says at each step what that envelope has already; what the pipeline hands
over has all required fields and no null (`TransformedValid`), and a commit makes
`work` the tables. `ReadsAsAccepted` needs more (`Kept`, and `RowBegun` for the open
transaction): each committed row holds, in all its tables, what `Transformed` made of some
offer. Then the way back is an equality of records, type by type, and the secrets are
gone because no string of the metadata that survives `Transformed` is one.

`Streams_proofs`. `EachListenerInOrder` speaks of what was given and what is queued;
that the next event reaches everyone it should needs `Tables` (the listener tables hold
exactly who is subscribed, each once, so no event is queued twice for one listener),
`Times` (no event is older than a subscription that starts now) and, per listener, that
what it was given, then what waits for it, ascends and is all that is due. A stream
whose reader has gone keeps a first part of it. On the wire, `WireInv` describes buffer
and wire together, wherever the cut between them lies, as whole frames: heartbeats, and
the payloads from the last one parsed up to the last one written, in ascending order
(`Wired`). A cut changes nothing about the two put together, a parsed frame takes the
first one off, a write adds one. From it follow `AnswersDelivered` and, since an "end" on
an empty wire means that everything was parsed, `NothingRejectedInVain`. `StreamsDeliver`
carries both over to the specification the run checks.

`TuiSession_proofs`. `TurnRowsInOrder` says that the rows of a turn are a first part of
`Whole`, but not which: `Stored` adds how long that part is in each phase (the user
message, the error if there was one, and `saved` messages), so that the next row is the
next of `Whole`, whatever the rows of other turns between them are. `Placed` keeps rows
with their sessions when sessions are pruned. For `HistoryWellFormed`, `Unbroken` says
that in a session that is not `disturbed` at most one turn is under way, and that calls
and results are neighbours, but for a call at the very end whose result is stored next;
then the complete rows, which leave out errors only, keep calls and results together. The
client's part (`ClientInv`) is types and the fact that nothing streams before there is a
session; the client changes the daemon's variables only by `Begin`, `HangUp`, reading
`out` and creating its session.

`CalmUserSeesConversation` compares the whole screen with what was heard; neither says why
the next chunk will be in its place. `CalmInv` ties three things together while a calm
client streams a turn (`Streams`). What was heard and what is under way are the first events
of the turn's answer and the end of its stream (`Carries`, kept by every daemon step and
every chunk that arrives). The heard part is one of the six beginnings of an answer that show
anything different (`Words`). And the transcript is laid out accordingly (`OnTop`): old
entries from the store, the message of the turn, then one entry of text, one of the tool with
its call and its result, one of text again. Which events can follow which beginning
(`WordsGoOn`) is what keeps the layout when the reducer applies the next chunk (`TextShown`,
`CallShown`, `ResultShown`, `FinishShown`): a tool entry is never missing when its result
comes, and text never lands above a tool. A load has the rows that are in the store, because nobody
writes while it is under way (`Loading`), so that the screen is the conversation again when
it ends (`Settled`). The layout has at most three entries below the message; for those,
`FlattenIs` exhibits the function that `FlattenSeq` chooses, and no induction is needed. TLC
has checked the three invariants on the instance of `chat`.

Proved without a run of their own: `DrainAccountsKept`, `RefusedStaysOut`,
`WorkerAccounts`, `DrainTakesNoMore`, `SurplusBounded`, `AnswerIsCurrent` and `BusTyped`.

Only model-checked: the liveness properties `SpooledEventuallySettled`, `StartEnds`,
`EventuallyProcessed`, `DrainEnds`, `DaemonSettles`, `AnswersSettle` and `StreamingEnds`:
fairness and ENABLED are out of the prover's reach.

## 6. Not modelled

* Retrieval and ranking (`D/retrieval/`, `D/query/`): phrase lists and floating-point
  weights over a page of results, without state between two calls.
* Hook installation (`installShellHook`, `installGitHooks`, the assistant adapters,
  `bodhi init`): edits of rc files,
  git hooks and a settings file by regular expressions. Idempotence is a matter of
  the text, and the repository's tests are about it. Two concurrent runs, or a user
  who edits the same file meanwhile, overwrite each other.
* The text of the generated hook scripts and the mapping of assistant payloads.
* The recognisers of the secret scanner, and the merge of overlapping matches in a
  string: `EventRecords` knows found values only.
* Relevance scores of the full-text index, SQLite itself, the AI SDK, Bun's server and
  the kernel's files are external: they appear as the actions the code relies on.
* Configuration, logging, prompts, colours, overlays and renderers.
