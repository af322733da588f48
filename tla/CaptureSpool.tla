---------------------------- MODULE CaptureSpool ----------------------------
(***************************************************************************)
(* Delivery of captured events to the bodhi daemon.                        *)
(*                                                                         *)
(* Every capture hook (shell precmd, git hook, assistant `bodhi internal`  *)
(* command) is a short-lived process that owns one event, POSTs it to      *)
(* /events and, when it believes the POST failed, appends one line to a    *)
(* spool file in the data directory.  The daemon replays the spool files   *)
(* at start and on a timer (lifecycle/spool.ts), by renaming each file,    *)
(* reading it once, appending every line to the event store, rewriting the *)
(* lines that failed and unlinking what it renamed.  Hooks and daemon are  *)
(* different processes: every file-system call is a step of its own.       *)
(*                                                                         *)
(* An event stands for its hook, its event_id and its spool line; the      *)
(* order of the lines of a file is not modelled, so a drain may take them  *)
(* in any order.                                                           *)
(***************************************************************************)
EXTENDS Naturals

CONSTANTS
    ShellHooks,      \* zsh/bash precmd processes
    GitHooks,        \* git hook processes
    AssistantHooks,  \* `bodhi` commands run by the Claude Code hooks
    Unwanted,        \* events for which pipeline.process returns null
    MaxCrashes,      \* bound: how often the daemon dies
    MaxFaults,       \* bound: store failures and requests answered with an error
    MaxUnreadable    \* bound: spool files that readFileSync fails to read

ASSUME HooksAssumption ==
    /\ ShellHooks \cap GitHooks = {}
    /\ ShellHooks \cap AssistantHooks = {}
    /\ GitHooks \cap AssistantHooks = {}

ASSUME BoundsAssumption ==
    MaxCrashes \in Nat /\ MaxFaults \in Nat /\ MaxUnreadable \in Nat

Events == ShellHooks \cup GitHooks \cup AssistantHooks

-----------------------------------------------------------------------------
(* The spool files.  The path of the shell and git hooks is single-quoted in
   the generated script, so its `$$` is never expanded: all shells share one
   file, and so do all git hooks.  An assistant command has its own pid.     *)
ShellSpool == "spool.$$.jsonl"
GitSpool == "git-hook-spool.$$.jsonl"
Files == {ShellSpool, GitSpool} \cup AssistantHooks

SpoolOf(e) ==
    IF e \in ShellHooks THEN ShellSpool ELSE IF e \in GitHooks THEN GitSpool ELSE e

Replayed(f) == f # GitSpool    \* name.startsWith("spool.")

Names == {"source", "draining"}

VARIABLES
    hook,        \* where each hook process is
    fd,          \* the file a hook has opened for append: follows a rename
    inbox,       \* requests the daemon has not handled yet
    present,     \* directory entries: <<file, "source" or "draining">>
    source,      \* lines of spool.<id>.jsonl
    draining,    \* lines of spool.<id>.draining.jsonl
    daemon,      \* "down", "starting" (startup drain) or "up" (serving)
    stage,       \* next system call of the drain
    todo,        \* files collected and not drained yet
    file,        \* the file being drained
    pending,     \* lines read and not processed yet
    failed,      \* failedLines
    rows,        \* rows of the events table, per event_id
    dropped,     \* events the pipeline returned null for
    exposed,     \* history: lines that were once in an unprotected window
    crashes, faults, unreadable

hookVars == <<hook, fd, inbox>>
diskVars == <<present, source, draining>>
drainVars == <<stage, todo, file, pending, failed>>
storeVars == <<rows, dropped>>
counters == <<crashes, faults, unreadable>>
vars == <<hookVars, diskVars, daemon, drainVars, storeVars, exposed, counters>>

Settled(e) == rows[e] > 0 \/ e \in dropped
OnDisk(e) == e \in source[SpoolOf(e)] \cup draining[SpoolOf(e)]

Init ==
    /\ hook = [e \in Events |-> "idle"]
    /\ fd = [e \in Events |-> "none"]
    /\ inbox = {}
    /\ present = {}
    /\ source = [f \in Files |-> {}]
    /\ draining = [f \in Files |-> {}]
    /\ daemon = "down"
    /\ stage = "idle"
    /\ todo = {}
    /\ file = ShellSpool
    /\ pending = {}
    /\ failed = {}
    /\ rows = [e \in Events |-> 0]
    /\ dropped = {}
    /\ exposed = {}
    /\ crashes = 0 /\ faults = 0 /\ unreadable = 0

-----------------------------------------------------------------------------
(* Capture hooks *)

\* A command ended: the hook POSTs its event, or finds no daemon listening.
Capture(e) ==
    /\ hook[e] = "idle"
    /\ IF daemon = "up"
       THEN /\ hook' = [hook EXCEPT ![e] = "posting"]
            /\ inbox' = inbox \cup {e}
       ELSE /\ hook' = [hook EXCEPT ![e] = "spooling"]
            /\ UNCHANGED inbox
    /\ UNCHANGED <<fd, diskVars, daemon, drainVars, storeVars, exposed, counters>>

\* --max-time expires or the connection is reset.  The request, if the daemon
\* still has it, stays in its inbox.
GiveUp(e) ==
    /\ hook[e] = "posting"
    /\ hook' = [hook EXCEPT ![e] = "spooling"]
    /\ UNCHANGED <<fd, inbox, diskVars, daemon, drainVars, storeVars, exposed, counters>>

\* The shell opens the spool for `>>`, creating it when it is not there.
OpenSpool(e) ==
    /\ hook[e] = "spooling"
    /\ hook' = [hook EXCEPT ![e] = "appending"]
    /\ fd' = [fd EXCEPT ![e] = "source"]
    /\ present' = present \cup {<<SpoolOf(e), "source">>}
    /\ UNCHANGED <<inbox, source, draining, daemon, drainVars, storeVars, exposed, counters>>

\* The drain has read the file it is draining: later lines escape it.
AlreadyRead(f) == file = f /\ stage \in {"lines", "rewrite", "unlink"}

\* A line written now is outside what the drain protects.
Unprotected(e) ==
    \/ fd[e] = "gone"
    \/ fd[e] = "draining" /\ AlreadyRead(SpoolOf(e))
    \/ fd[e] = "source" /\ <<SpoolOf(e), "draining">> \in present

AppendLine(e) ==
    /\ hook[e] = "appending"
    /\ hook' = [hook EXCEPT ![e] = "spooled"]
    /\ fd' = [fd EXCEPT ![e] = "none"]
    /\ source' = IF fd[e] = "source"
                 THEN [source EXCEPT ![SpoolOf(e)] = @ \cup {e}] ELSE source
    /\ draining' = IF fd[e] = "draining"
                   THEN [draining EXCEPT ![SpoolOf(e)] = @ \cup {e}] ELSE draining
    /\ exposed' = IF Unprotected(e) THEN exposed \cup {e} ELSE exposed
    /\ UNCHANGED <<inbox, present, daemon, drainVars, storeVars, counters>>

-----------------------------------------------------------------------------
(* POST /events *)

\* Mutant: appendEvent inserts without looking the event_id up.
AppendEventBlindly(e) ==
    rows' = [rows EXCEPT ![e] = @ + 1]

\* appendEvent: one immediate transaction that looks the event_id up first.
AppendEvent(e) ==
    rows' = [rows EXCEPT ![e] = IF @ > 0 THEN @ ELSE @ + 1]

\* Mutant: the assistant command ignores the status, as curl -s does.
AnswerAnyStatus(e, ok) ==
    hook' = IF hook[e] # "posting" THEN hook ELSE [hook EXCEPT ![e] = "acked"]

\* The hook, if it still waits, takes the answer.  curl -s without --fail
\* exits 0 on any status; the assistant command spools on status >= 400.
Answer(e, ok) ==
    hook' = IF hook[e] # "posting" THEN hook
            ELSE [hook EXCEPT ![e] = IF ok \/ e \notin AssistantHooks
                                     THEN "acked" ELSE "spooling"]

HandleStored(e) ==
    /\ daemon = "up" /\ e \in inbox /\ e \notin Unwanted
    /\ AppendEvent(e)
    /\ Answer(e, TRUE)
    /\ inbox' = inbox \ {e}
    /\ UNCHANGED <<fd, diskVars, daemon, drainVars, dropped, exposed, counters>>

HandleRejected(e) ==
    /\ daemon = "up" /\ e \in inbox /\ e \in Unwanted
    /\ dropped' = dropped \cup {e}
    /\ Answer(e, FALSE)
    /\ inbox' = inbox \ {e}
    /\ UNCHANGED <<fd, diskVars, daemon, drainVars, rows, exposed, counters>>

\* Capture paused (507), rate limit (429) or a store that throws (500).
HandleRefused(e) ==
    /\ daemon = "up" /\ e \in inbox
    /\ faults < MaxFaults
    /\ faults' = faults + 1
    /\ Answer(e, FALSE)
    /\ inbox' = inbox \ {e}
    /\ UNCHANGED <<fd, diskVars, daemon, drainVars, storeVars, exposed, crashes, unreadable>>

-----------------------------------------------------------------------------
(* drainSpool *)

\* Mutant: collectSpoolFiles does not test the suffix.
CollectedAnySuffix ==
    {f \in Files : Replayed(f) /\ \E n \in Names : <<f, n>> \in present} \cup {"spool.lock"}

\* Mutant: collectSpoolFiles passes over draining files left by a dead daemon.
CollectedFresh == {f \in Files : Replayed(f) /\ <<f, "source">> \in present}

Collected == {f \in Files : Replayed(f) /\ \E n \in Names : <<f, n>> \in present}

\* startDaemon drains before the server listens.
Start ==
    /\ daemon = "down"
    /\ daemon' = "starting"
    /\ stage' = "pick"
    /\ todo' = Collected
    /\ UNCHANGED <<hookVars, diskVars, file, pending, failed, storeVars, exposed, counters>>

\* The spool interval fires.
DrainTick ==
    /\ daemon = "up" /\ stage = "idle"
    /\ stage' = "pick"
    /\ todo' = Collected
    /\ UNCHANGED <<hookVars, diskVars, daemon, file, pending, failed, storeVars, exposed, counters>>

\* A leftover draining file is taken before the source of the same name.
PickLeftover(f) ==
    /\ stage = "pick" /\ f \in todo
    /\ <<f, "draining">> \in present
    /\ file' = f
    /\ stage' = "read"
    /\ UNCHANGED <<hookVars, diskVars, daemon, todo, pending, failed, storeVars, exposed, counters>>

\* renameSync(source, draining): open descriptors follow the file.
PickSource(f) ==
    /\ stage = "pick" /\ f \in todo
    /\ <<f, "draining">> \notin present
    /\ present' = (present \ {<<f, "source">>}) \cup {<<f, "draining">>}
    /\ draining' = [draining EXCEPT ![f] = source[f]]
    /\ source' = [source EXCEPT ![f] = {}]
    /\ fd' = [e \in Events |-> IF SpoolOf(e) = f /\ fd[e] = "source"
                               THEN "draining" ELSE fd[e]]
    /\ file' = f
    /\ stage' = "read"
    /\ UNCHANGED <<hook, inbox, daemon, todo, pending, failed, storeVars, exposed, counters>>

ReadLines ==
    /\ stage = "read"
    /\ pending' = draining[file]
    /\ failed' = {}
    /\ stage' = "lines"
    /\ UNCHANGED <<hookVars, diskVars, daemon, todo, file, storeVars, exposed, counters>>

\* readFileSync throws: `finally` has no failed lines to write back and
\* unlinks the file; the rejection ends the daemon.
ReadThrows ==
    /\ stage = "read"
    /\ unreadable < MaxUnreadable
    /\ unreadable' = unreadable + 1
    /\ exposed' = exposed \cup draining[file]
    /\ present' = present \ {<<file, "draining">>}
    /\ draining' = [draining EXCEPT ![file] = {}]
    /\ fd' = [e \in Events |-> IF SpoolOf(e) = file /\ fd[e] = "draining"
                               THEN "gone" ELSE fd[e]]
    /\ daemon' = "down"
    /\ inbox' = {}
    /\ stage' = "idle"
    /\ todo' = {}
    /\ UNCHANGED <<hook, source, file, pending, failed, storeVars, crashes, faults>>

LineDropped(e) ==
    /\ stage = "lines" /\ e \in pending /\ e \in Unwanted
    /\ dropped' = dropped \cup {e}
    /\ pending' = pending \ {e}
    /\ UNCHANGED <<hookVars, diskVars, daemon, stage, todo, file, failed, rows, exposed, counters>>

LineStored(e) ==
    /\ stage = "lines" /\ e \in pending /\ e \notin Unwanted
    /\ AppendEvent(e)
    /\ pending' = pending \ {e}
    /\ UNCHANGED <<hookVars, diskVars, daemon, stage, todo, file, failed, dropped, exposed, counters>>

LineFailed(e) ==
    /\ stage = "lines" /\ e \in pending /\ e \notin Unwanted
    /\ faults < MaxFaults
    /\ faults' = faults + 1
    /\ failed' = failed \cup {e}
    /\ pending' = pending \ {e}
    /\ UNCHANGED <<hookVars, diskVars, daemon, stage, todo, file, storeVars, exposed, crashes, unreadable>>

\* writeFileSync(sourcePath): O_TRUNC, then the failed lines from offset 0.
TruncateSource ==
    /\ stage = "lines" /\ pending = {} /\ failed # {}
    /\ present' = present \cup {<<file, "source">>}
    /\ source' = [source EXCEPT ![file] = {}]
    /\ stage' = "rewrite"
    /\ UNCHANGED <<hookVars, draining, daemon, todo, file, pending, failed, storeVars, exposed, counters>>

RewriteFailed ==
    /\ stage = "rewrite"
    /\ source' = [source EXCEPT ![file] = failed]
    /\ stage' = "unlink"
    /\ UNCHANGED <<hookVars, present, draining, daemon, todo, file, pending, failed, storeVars, exposed, counters>>

\* Mutant: the failed lines are not written back before the unlink.
UnlinkAtOnce ==
    /\ stage = "lines" /\ pending = {}
    /\ present' = present \ {<<file, "draining">>}
    /\ draining' = [draining EXCEPT ![file] = {}]
    /\ fd' = [e \in Events |-> IF SpoolOf(e) = file /\ fd[e] = "draining"
                               THEN "gone" ELSE fd[e]]
    /\ todo' = todo \ {file}
    /\ stage' = "pick"
    /\ UNCHANGED <<hook, inbox, source, daemon, file, pending, failed, storeVars, exposed, counters>>

\* Mutant: the loop does not advance to the next file.
UnlinkAndRepeat ==
    /\ \/ stage = "lines" /\ pending = {} /\ failed = {}
       \/ stage = "unlink"
    /\ stage' = "pick"
    /\ UNCHANGED <<hookVars, diskVars, daemon, todo, file, pending, failed, storeVars, exposed, counters>>

UnlinkDraining ==
    /\ \/ stage = "lines" /\ pending = {} /\ failed = {}
       \/ stage = "unlink"
    /\ present' = present \ {<<file, "draining">>}
    /\ draining' = [draining EXCEPT ![file] = {}]
    /\ fd' = [e \in Events |-> IF SpoolOf(e) = file /\ fd[e] = "draining"
                               THEN "gone" ELSE fd[e]]
    /\ todo' = todo \ {file}
    /\ stage' = "pick"
    /\ UNCHANGED <<hook, inbox, source, daemon, file, pending, failed, storeVars, exposed, counters>>

\* The loop ends; after the startup drain the server starts to listen.
DrainDone ==
    /\ stage = "pick" /\ todo = {}
    /\ stage' = "idle"
    /\ daemon' = "up"
    /\ UNCHANGED <<hookVars, diskVars, todo, file, pending, failed, storeVars, exposed, counters>>

\* The daemon dies (or, when no drain runs, shuts down): its memory and the
\* requests in its socket are gone.  A write that fails inside `finally`
\* (ENOSPC) leaves the same disk.
Crash ==
    /\ daemon # "down"
    /\ crashes < MaxCrashes
    /\ crashes' = crashes + 1
    /\ daemon' = "down"
    /\ inbox' = {}
    /\ stage' = "idle"
    /\ todo' = {}
    /\ UNCHANGED <<hook, fd, diskVars, file, pending, failed, storeVars, exposed, faults, unreadable>>

-----------------------------------------------------------------------------
HookStep(e) == Capture(e) \/ GiveUp(e) \/ OpenSpool(e) \/ AppendLine(e)

ServerStep(e) == HandleStored(e) \/ HandleRejected(e) \/ HandleRefused(e)

DrainStep ==
    \/ \E f \in Files : PickLeftover(f) \/ PickSource(f)
    \/ ReadLines \/ ReadThrows
    \/ \E e \in Events : LineDropped(e) \/ LineStored(e) \/ LineFailed(e)
    \/ TruncateSource \/ RewriteFailed \/ UnlinkDraining
    \/ DrainDone

Next ==
    \/ \E e \in Events : HookStep(e) \/ ServerStep(e)
    \/ Start \/ DrainTick \/ DrainStep
    \/ Crash

Spec == Init /\ [][Next]_vars

(* Hook processes run to their end, someone starts the daemon again, the
   interval timer fires, and a drain, a plain loop, goes on until it ends.   *)
Fairness ==
    /\ \A e \in Events : WF_vars(HookStep(e))
    /\ WF_vars(Start) /\ WF_vars(DrainTick) /\ WF_vars(DrainStep)

FairSpec == Spec /\ Fairness

-----------------------------------------------------------------------------
(* Properties *)

TypeOK ==
    /\ hook \in [Events -> {"idle", "posting", "spooling", "appending", "acked", "spooled"}]
    /\ fd \in [Events -> {"none", "source", "draining", "gone"}]
    /\ inbox \subseteq Events
    /\ present \subseteq Files \X Names
    /\ source \in [Files -> SUBSET Events]
    /\ draining \in [Files -> SUBSET Events]
    /\ daemon \in {"down", "starting", "up"}
    /\ stage \in {"idle", "pick", "read", "lines", "rewrite", "unlink"}
    /\ todo \subseteq Files
    /\ file \in Files
    /\ pending \subseteq Events /\ failed \subseteq Events
    /\ rows \in [Events -> Nat]
    /\ dropped \subseteq Events /\ exposed \subseteq Events
    /\ crashes \in Nat /\ faults \in Nat /\ unreadable \in Nat

\* A line its hook wrote while no drain of its file was under way, and whose
\* file could be read, is never lost: whatever crashes, failed appends and
\* repeated drains follow, it is on disk until it is stored or dropped.
SpooledSurvives ==
    \A e \in Events :
        hook[e] = "spooled" /\ e \notin exposed => OnDisk(e) \/ Settled(e)

\* A duplicate delivery (the POST that timed out and its spool line, a file
\* drained twice) stores an event_id once.
StoredOnce == \A e \in Events : rows[e] <= 1

\* What the pipeline refuses is stored by neither path (ADR-035).
UnwantedNeverStored == \A e \in Unwanted \cap Events : rows[e] = 0

\* An assistant command that ends without spooling has its event settled: it
\* looks at the status of the answer.
AssistantAckSettled ==
    \A e \in AssistantHooks : hook[e] = "acked" => Settled(e)

\* Every replayable line in a protected window is stored or dropped in the
\* end, if the daemon is started again and failures do not go on for ever.
SpooledEventuallySettled ==
    \A e \in Events :
        OnDisk(e) /\ Replayed(SpoolOf(e)) ~> Settled(e) \/ e \in exposed

\* A startup drain that runs always reaches the listening server, or dies.
StartEnds == daemon = "starting" ~> daemon # "starting"

(* The inductive invariant behind SpooledSurvives *)

\* A source beside a draining file holds only lines the draining file has.
LeftoverCovers ==
    \A f \in Files : <<f, "draining">> \in present => source[f] \ exposed \subseteq draining[f]

NoFileNoLines ==
    \A f \in Files : <<f, "draining">> \notin present => draining[f] = {}

\* A hook about to write holds a descriptor, and a renamed file keeps its name
\* until it is unlinked.
Descriptors ==
    \A e \in Events :
        /\ hook[e] = "appending" => fd[e] # "none"
        /\ fd[e] = "draining" => <<SpoolOf(e), "draining">> \in present

\* After the read, every protected line is pending, failed or settled, and the
\* failed ones are in the source again before the unlink.
DrainAccounts ==
    /\ stage \in {"read", "lines", "rewrite", "unlink"} => <<file, "draining">> \in present
    /\ stage \in {"lines", "rewrite", "unlink"} =>
          /\ pending \cup failed \subseteq draining[file]
          /\ \A e \in draining[file] : e \in exposed \cup pending \cup failed \/ Settled(e)
    /\ stage \in {"rewrite", "unlink"} => pending = {}
    /\ stage = "unlink" => failed \subseteq source[file]

\* What a drain, whole or interrupted, owes to the lines it has taken over.
DrainInv == LeftoverCovers /\ NoFileNoLines /\ Descriptors /\ DrainAccounts

IInv == TypeOK /\ SpooledSurvives /\ DrainInv

-----------------------------------------------------------------------------
(* What the documentation says and the code does not do *)

\* ADR-033: at-least-once.  Lines leave a spool file for its draining twin or
\* because they are settled.
RewriteKeepsAppendedLines ==
    [][\A f \in Files : \A e \in source[f] :
          e \in source'[f] \cup draining'[f] \/ Settled(e)']_vars

=============================================================================
