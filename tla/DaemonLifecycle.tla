--------------------------- MODULE DaemonLifecycle ---------------------------
(***************************************************************************)
(* Starting and stopping the bodhi daemon.                                 *)
(*                                                                         *)
(* Daemon processes and `bodhi start` / `bodhi stop` commands share two    *)
(* files and nothing else: bodhi.pid and the unix socket.  No lock orders  *)
(* them.  A daemon cleans a stale pid file, writes its own, removes the    *)
(* socket file, prepares (open the store, prune, drain the spool), listens *)
(* and from then on handles signals; a shutdown drains the intel service,  *)
(* stops the server, removes the pid file and the socket file.  A process  *)
(* is its pid; after its death the pid may come to name a foreign process. *)
(* The transport is "unix".                                                *)
(***************************************************************************)
EXTENDS Naturals, FiniteSets

CONSTANTS
    Daemons,      \* daemon processes, each with the pid it runs under: pids ascend
    Starters,     \* `bodhi start` commands
    Stoppers,     \* `bodhi stop` commands
    None,         \* no pid, no file, no process
    MaxCrashes,   \* bound: daemons that die of something else than the code
    MaxFatals,    \* bound: uncaught exceptions and unhandled rejections
    MaxReused     \* bound: pids of dead daemons given to foreign processes

ASSUME DaemonsAssumption == Daemons \subseteq Nat /\ None \notin Daemons
ASSUME CommandsAssumption == Starters \cap Stoppers = {}
ASSUME BoundsAssumption ==
    MaxCrashes \in Nat /\ MaxFatals \in Nat /\ MaxReused \in Nat

VARIABLES
    stage,     \* where each daemon process is
    fatal,     \* daemons whose fatal handler is running
    pidFile,   \* the pid in bodhi.pid, None when there is no file
    sock,      \* the process whose socket the socket file names, or None
    foreign,   \* pids of dead daemons that name a foreign process now
    start,     \* where each start command is
    target,    \* the pid a start or stop command works on
    answered,  \* the daemon whose /health answer a start command got
    known,     \* history: the daemons spawned when a start command last looked at its pid
    stop,      \* where each stop command is
    unclean,   \* history: daemons that died without a whole shutdown
    overlap,   \* history: two daemon processes were alive at once
    obstructed,\* history: daemons that died of a file they met at boot
    crashes, fatals

files == <<pidFile, sock>>
answers == <<answered, known>>
commands == <<start, target, answers, stop>>
history == <<unclean, overlap, obstructed>>
counters == <<crashes, fatals>>
vars == <<stage, fatal, files, foreign, commands, history, counters>>

Booting == {"spawned", "stalepid", "nopid", "pidwritten", "preparing"}
Closing == {"draining", "closed", "released"}
Stages == {"unborn", "serving", "dead"} \cup Booting \cup Closing

Running(d) == stage[d] \notin {"unborn", "dead"}
\* process.kill(pid, 0) does not throw.
ProcessAlive(pid) == pid \in foreign \/ (pid \in Daemons /\ Running(pid))
Listening(d) == stage[d] \in {"serving", "draining"}

\* The first command may find the files of a daemon that died before it.
Init ==
    /\ \E gone \in Daemons \cup {None} :
           /\ \A d \in Daemons : gone # None => gone <= d
           /\ stage = [d \in Daemons |-> IF d = gone THEN "dead" ELSE "unborn"]
           /\ unclean = {gone} \ {None}
           /\ pidFile = gone /\ sock = gone
    /\ fatal = {} /\ foreign = {}
    /\ start = [s \in Starters |-> "idle"]
    /\ stop = [s \in Stoppers |-> "idle"]
    /\ target = [c \in Starters \cup Stoppers |-> None]
    /\ answered = [s \in Starters |-> None] /\ known = [s \in Starters |-> {}]
    /\ overlap = FALSE /\ obstructed = {}
    /\ crashes = 0 /\ fatals = 0

Move(d, from, to) ==
    /\ stage[d] = from
    /\ stage' = [stage EXCEPT ![d] = to]

-----------------------------------------------------------------------------
(* Boot: bootstrap() and the rest of startDaemon() *)

\* cleanStalePidFile: no file, a live pid (the file stays) or a dead one.
CheckPidFile(d) ==
    /\ stage[d] = "spawned"
    /\ stage' = [stage EXCEPT ![d] =
           IF pidFile = None \/ ProcessAlive(pidFile) THEN "nopid" ELSE "stalepid"]
    /\ UNCHANGED <<fatal, files, foreign, commands, history, counters>>

\* unlinkSync of the pid file judged stale: it takes whatever file is there
\* by now, and throws when another process removed it first.
UnlinkStalePid(d) ==
    /\ stage[d] = "stalepid"
    /\ IF pidFile = None
       THEN /\ stage' = [stage EXCEPT ![d] = "dead"]
            /\ unclean' = unclean \cup {d}
            /\ obstructed' = obstructed \cup {d}
            /\ UNCHANGED pidFile
       ELSE /\ stage' = [stage EXCEPT ![d] = "nopid"]
            /\ pidFile' = None
            /\ UNCHANGED <<unclean, obstructed>>
    /\ UNCHANGED <<fatal, sock, foreign, commands, overlap, counters>>

WritePidFile(d) ==
    /\ Move(d, "nopid", "pidwritten")
    /\ pidFile' = d
    /\ UNCHANGED <<fatal, sock, foreign, commands, history, counters>>

\* Mutant: the socket file is kept, as when only a socket with a pid file counts as stale.
CleanStaleSocketKept(d) ==
    /\ Move(d, "pidwritten", "preparing")
    /\ UNCHANGED <<fatal, files, foreign, commands, history, counters>>

\* cleanStaleSocket: whoever listens on it.
CleanStaleSocket(d) ==
    /\ Move(d, "pidwritten", "preparing")
    /\ sock' = None
    /\ UNCHANGED <<fatal, pidFile, foreign, commands, history, counters>>

\* intel.start, prune, startup drain, then Bun.serve binds the path and main()
\* installs the signal handlers.
Listen(d) ==
    /\ Move(d, "preparing", "serving")
    /\ sock = None
    /\ sock' = d
    /\ UNCHANGED <<fatal, pidFile, foreign, commands, history, counters>>

\* The path is bound already: Bun.serve replaces the file or throws.
ListenOccupied(d) ==
    /\ stage[d] = "preparing" /\ sock # None
    /\ \/ /\ stage' = [stage EXCEPT ![d] = "serving"]
          /\ sock' = d
          /\ UNCHANGED <<unclean, obstructed>>
       \/ /\ stage' = [stage EXCEPT ![d] = "dead"]
          /\ unclean' = unclean \cup {d}
          /\ obstructed' = obstructed \cup {d}
          /\ UNCHANGED sock
    /\ UNCHANGED <<fatal, pidFile, foreign, commands, overlap, counters>>

-----------------------------------------------------------------------------
(* Shutdown *)

\* Mutant: the shutdown waits for the fatal handler that waits for it.
StopServerAfterHandler(d) ==
    /\ Move(d, "draining", "closed")
    /\ d \notin fatal
    /\ sock' = None
    /\ UNCHANGED <<fatal, pidFile, foreign, commands, history, counters>>

\* server.stop(true), then rmSync of the socket path.
StopServer(d) ==
    /\ Move(d, "draining", "closed")
    /\ sock' = None
    /\ UNCHANGED <<fatal, pidFile, foreign, commands, history, counters>>

\* Mutant: a shutdown after a fatal error leaves the pid file.
RemovePidFileIfCalm(d) ==
    /\ Move(d, "closed", "released")
    /\ pidFile' = IF d \in fatal THEN pidFile ELSE None
    /\ UNCHANGED <<fatal, sock, foreign, commands, history, counters>>

RemovePidFile(d) ==
    /\ Move(d, "closed", "released")
    /\ pidFile' = None
    /\ UNCHANGED <<fatal, sock, foreign, commands, history, counters>>

\* cleanStaleSocket once more, and the process ends.
Exit(d) ==
    /\ Move(d, "released", "dead")
    /\ sock' = None
    /\ fatal' = fatal \ {d}
    /\ UNCHANGED <<pidFile, foreign, commands, history, counters>>

\* Mutant: handlers installed before the boot, which goes on under their shutdown.
FatalAtBoot(d) ==
    /\ Running(d) /\ fatals < MaxFatals
    /\ fatals' = fatals + 1
    /\ stage' = [stage EXCEPT ![d] = IF @ = "serving" THEN "draining" ELSE @]
    /\ fatal' = fatal \cup {d}
    /\ UNCHANGED <<files, foreign, commands, history, crashes>>

\* An uncaught exception or an unhandled rejection.  While serving, the fatal
\* handler runs the shutdown; it ignores a second fatal error, but exits when
\* that shutdown throws.  During another shutdown, shutdown() is a no-op and the
\* handler exits at once.  Before the handlers are installed the process dies.
Fatal(d) ==
    /\ Running(d) /\ fatals < MaxFatals
    /\ fatals' = fatals + 1
    /\ \/ /\ stage[d] = "serving"
          /\ stage' = [stage EXCEPT ![d] = "draining"]
          /\ fatal' = fatal \cup {d}
          /\ UNCHANGED unclean
       \/ /\ stage[d] \in Closing /\ d \in fatal
          /\ UNCHANGED <<stage, fatal, unclean>>
       \/ /\ stage[d] \in Booting \cup Closing
          /\ stage' = [stage EXCEPT ![d] = "dead"]
          /\ fatal' = fatal \ {d}
          /\ unclean' = unclean \cup {d}
    /\ UNCHANGED <<files, foreign, commands, overlap, obstructed, crashes>>

\* SIGKILL, power loss, out of memory.
Crash(d) ==
    /\ Running(d) /\ crashes < MaxCrashes
    /\ crashes' = crashes + 1
    /\ stage' = [stage EXCEPT ![d] = "dead"]
    /\ fatal' = fatal \ {d}
    /\ unclean' = unclean \cup {d}
    /\ UNCHANGED <<files, foreign, commands, overlap, obstructed, fatals>>

PidReused(d) ==
    /\ stage[d] = "dead" /\ d \notin foreign
    /\ Cardinality(foreign) < MaxReused
    /\ foreign' = foreign \cup {d}
    /\ UNCHANGED <<stage, fatal, files, commands, history, counters>>

-----------------------------------------------------------------------------
(* bodhi start *)

\* readPid names a live process: handleStart waits for that one.
StartFindsPid(s) ==
    /\ start[s] = "idle"
    /\ pidFile # None /\ ProcessAlive(pidFile)
    /\ start' = [start EXCEPT ![s] = "waiting"]
    /\ target' = [target EXCEPT ![s] = pidFile]
    /\ UNCHANGED <<stage, fatal, files, foreign, answers, stop, history, counters>>

\* No pid file, or the pid of a dead process: spawnDaemon.
StartSpawns(s, d) ==
    /\ start[s] = "idle"
    /\ pidFile = None \/ ~ProcessAlive(pidFile)
    /\ Move(d, "unborn", "spawned")
    /\ \A e \in Daemons : stage[e] = "unborn" => d <= e
    /\ overlap' = (overlap \/ \E e \in Daemons : Running(e))
    /\ start' = [start EXCEPT ![s] = "waiting"]
    /\ target' = [target EXCEPT ![s] = d]
    /\ UNCHANGED <<fatal, files, foreign, answers, stop, unclean, obstructed, counters>>

Spawned == {d \in Daemons : stage[d] # "unborn"}

\* Mutant: the poll does not look whether its process still lives.
StartProbesBlindly(s) ==
    /\ start[s] = "waiting"
    /\ start' = [start EXCEPT ![s] = "asking"]
    /\ known' = [known EXCEPT ![s] = Spawned]
    /\ UNCHANGED <<stage, fatal, files, foreign, target, answered, stop, history, counters>>

\* One round of waitForHealth: the process lives, so /health is asked.  It may
\* die while the request is under way.
StartProbes(s) ==
    /\ start[s] = "waiting" /\ ProcessAlive(target[s])
    /\ start' = [start EXCEPT ![s] = "asking"]
    /\ known' = [known EXCEPT ![s] = Spawned]
    /\ UNCHANGED <<stage, fatal, files, foreign, target, answered, stop, history, counters>>

\* Any daemon that answers on the socket will do.
StartAnswered(s) ==
    /\ start[s] = "asking"
    /\ sock \in Daemons /\ Listening(sock)
    /\ start' = [start EXCEPT ![s] = "reported"]
    /\ answered' = [answered EXCEPT ![s] = sock]
    /\ UNCHANGED <<stage, fatal, files, foreign, target, known, stop, history, counters>>

\* The request fails, for want of a listener or half-way: sleep, and look again.
StartUnanswered(s) ==
    /\ start[s] = "asking"
    /\ start' = [start EXCEPT ![s] = "waiting"]
    /\ known' = [known EXCEPT ![s] = {}]
    /\ UNCHANGED <<stage, fatal, files, foreign, target, answered, stop, history, counters>>

\* The target died, or START_TIMEOUT_MS passed, which is noticed between requests.
StartFails(s) ==
    /\ start[s] = "waiting"
    /\ start' = [start EXCEPT ![s] = "failed"]
    /\ UNCHANGED <<stage, fatal, files, foreign, target, answers, stop, history, counters>>

-----------------------------------------------------------------------------
(* bodhi stop *)

StopNotRunning(p) ==
    /\ stop[p] = "idle" /\ pidFile = None
    /\ stop' = [stop EXCEPT ![p] = "notrunning"]
    /\ UNCHANGED <<stage, fatal, files, foreign, start, target, answers, history, counters>>

\* process.kill throws: the pid file is stale.
StopStalePid(p) ==
    /\ stop[p] = "idle" /\ pidFile # None /\ ~ProcessAlive(pidFile)
    /\ stop' = [stop EXCEPT ![p] = "failed"]
    /\ UNCHANGED <<stage, fatal, files, foreign, start, target, answers, history, counters>>

\* SIGTERM: a serving daemon shuts down, one that is shutting down ignores it,
\* one that is booting has no handler yet and dies; a foreign process gets it too.
StopSignals(p) ==
    /\ stop[p] = "idle" /\ pidFile # None /\ ProcessAlive(pidFile)
    /\ stop' = [stop EXCEPT ![p] = "waiting"]
    /\ target' = [target EXCEPT ![p] = pidFile]
    /\ \/ /\ pidFile \in foreign \/ stage[pidFile] \in Closing
          /\ UNCHANGED <<stage, unclean>>
       \/ /\ pidFile \notin foreign /\ stage[pidFile] = "serving"
          /\ stage' = [stage EXCEPT ![pidFile] = "draining"]
          /\ UNCHANGED unclean
       \/ /\ pidFile \notin foreign /\ stage[pidFile] \in Booting
          /\ stage' = [stage EXCEPT ![pidFile] = "dead"]
          /\ unclean' = unclean \cup {pidFile}
    /\ UNCHANGED <<fatal, files, foreign, start, answers, overlap, obstructed, counters>>

StopSucceeds(p) ==
    /\ stop[p] = "waiting" /\ ~ProcessAlive(target[p])
    /\ stop' = [stop EXCEPT ![p] = "stopped"]
    /\ UNCHANGED <<stage, fatal, files, foreign, start, target, answers, history, counters>>

\* STOP_TIMEOUT_MS passed.
StopTimesOut(p) ==
    /\ stop[p] = "waiting"
    /\ stop' = [stop EXCEPT ![p] = "failed"]
    /\ UNCHANGED <<stage, fatal, files, foreign, start, target, answers, history, counters>>

-----------------------------------------------------------------------------
Boot(d) ==
    \/ CheckPidFile(d) \/ UnlinkStalePid(d) \/ WritePidFile(d)
    \/ CleanStaleSocket(d) \/ Listen(d) \/ ListenOccupied(d)

ShutDown(d) == StopServer(d) \/ RemovePidFile(d) \/ Exit(d)

Daemon(d) == Boot(d) \/ ShutDown(d) \/ Fatal(d) \/ Crash(d) \/ PidReused(d)

Starter(s) ==
    \/ StartFindsPid(s) \/ StartProbes(s) \/ StartAnswered(s) \/ StartUnanswered(s)
    \/ StartFails(s) \/ \E d \in Daemons : StartSpawns(s, d)

Stopper(p) ==
    \/ StopNotRunning(p) \/ StopStalePid(p) \/ StopSignals(p)
    \/ StopSucceeds(p) \/ StopTimesOut(p)

Next ==
    \/ \E d \in Daemons : Daemon(d)
    \/ \E s \in Starters : Starter(s)
    \/ \E p \in Stoppers : Stopper(p)

\* A daemon that can run does run; intel.drain ends (IntelService!DrainEnds).
\* Nothing makes a user type a command, and a request has no time-out.
Fairness ==
    \A d \in Daemons : WF_vars(Boot(d)) /\ WF_vars(ShutDown(d))

Spec == Init /\ [][Next]_vars
FairSpec == Spec /\ Fairness

-----------------------------------------------------------------------------
(* Properties *)

\* Every variable of files, processes and commands keeps its type, and the fatal
\* handler runs only in a daemon that is shutting down.
TypeOK ==
    /\ stage \in [Daemons -> Stages]
    /\ fatal \subseteq Daemons /\ foreign \subseteq Daemons
    /\ \A d \in fatal : stage[d] \in Closing
    /\ pidFile \in Daemons \cup {None} /\ sock \in Daemons \cup {None}
    /\ start \in [Starters -> {"idle", "waiting", "asking", "reported", "failed"}]
    /\ stop \in [Stoppers -> {"idle", "waiting", "notrunning", "stopped", "failed"}]
    /\ target \in [Starters \cup Stoppers -> Daemons \cup {None}]
    /\ answered \in [Starters -> Daemons \cup {None}]
    /\ known \in [Starters -> SUBSET Daemons]
    /\ unclean \subseteq Daemons /\ obstructed \subseteq Daemons
    /\ overlap \in BOOLEAN
    /\ crashes \in 0..MaxCrashes /\ fatals \in 0..MaxFatals

OwnsPid(d) == stage[d] \in {"pidwritten", "preparing", "serving", "draining", "closed"}

\* Whatever files a crash, a fatal exit or a reused pid leaves behind, a daemon
\* that never shared its life with another one boots over them, and from then on
\* bodhi.pid names it and the socket is its own (bootstrap, shutdown).
SoleDaemonReachable ==
    ~overlap =>
        /\ obstructed = {}
        /\ \A d \in Daemons : OwnsPid(d) => pidFile = d
        /\ \A d \in Daemons : Listening(d) => sock = d

\* A start that reports a pid was answered by that process or by one spawned
\* after it had last looked at the pid: it is at most one request behind, unless
\* daemons overlapped or the pid has changed hands (handleStart, waitForHealth).
StartAnswerMeans ==
    \A s \in Starters :
        start[s] = "reported" /\ ~overlap /\ target[s] \notin foreign
            => answered[s] = target[s] \/ answered[s] \notin known[s]

\* A pid file or a socket file that names a dead process was left by one that
\* died without a whole shutdown, overlapping daemons included (shutdown).
CleanStopLeavesNothing ==
    \A d \in Daemons : stage[d] = "dead" /\ d \in {pidFile, sock} => d \in unclean

\* A spawned daemon comes to serve or dies, and one that began to shut down ends.
DaemonSettles ==
    \A d \in Daemons :
        stage[d] \in Booting \cup Closing ~> stage[d] \in {"serving", "dead"}

=============================================================================
