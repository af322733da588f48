----------------------- MODULE DaemonLifecycle_proofs -----------------------
(***************************************************************************)
(* Theorems about DaemonLifecycle, for any number of daemons, commands,    *)
(* crashes, fatal errors and reused pids.                                  *)
(***************************************************************************)
EXTENDS DaemonLifecycle, TLAPS

\* Without an overlap one daemon runs at most, and it has the files to itself.
SoleInv ==
    ~overlap =>
        /\ \A d, e \in Daemons : Running(d) /\ Running(e) => d = e
        /\ obstructed = {}
        /\ \A d \in Daemons : OwnsPid(d) => pidFile = d
        /\ \A d \in Daemons : Listening(d) => sock = d
        /\ \A d \in Daemons : stage[d] = "stalepid" => pidFile # None
        /\ \A d \in Daemons : stage[d] = "preparing" => sock = None

\* Who may be named by a file, at each stage of a process.
NamedInv ==
    \A d \in Daemons :
        /\ stage[d] = "unborn" => d \notin {pidFile, sock}
        /\ stage[d] \in {"closed", "released"} => sock # d
        /\ stage[d] = "released" => pidFile # d
        /\ stage[d] = "dead" /\ d \in {pidFile, sock} => d \in unclean

\* While a start asks, its target is the only daemon of those it knew that may
\* run, so that whoever else answers came later.
AnswerInv ==
    \A s \in Starters :
        /\ start[s] = "asking" => \A d \in known[s] : stage[d] # "unborn"
        /\ start[s] = "asking" /\ ~overlap /\ target[s] \notin foreign =>
             \A d \in known[s] : Running(d) => d = target[s]
        /\ start[s] = "reported" /\ ~overlap /\ target[s] \notin foreign =>
             answered[s] = target[s] \/ answered[s] \notin known[s]

\* The variables of files, processes and commands keep their types.
THEOREM TypeCorrect == Spec => []TypeOK
<1> USE DaemonsAssumption, BoundsAssumption
<1>1. Init => TypeOK
  <2> SUFFICES ASSUME Init PROVE TypeOK
    OBVIOUS
  <2>1. PICK gone \in Daemons \cup {None} :
          /\ stage = [d \in Daemons |-> IF d = gone THEN "dead" ELSE "unborn"]
          /\ unclean = {gone} \ {None} /\ pidFile = gone /\ sock = gone
    BY DEF Init
  <2>2. stage \in [Daemons -> Stages] /\ unclean \subseteq Daemons
    BY <2>1 DEF Stages
  <2>3. /\ start \in [Starters -> {"idle", "waiting", "asking", "reported", "failed"}]
        /\ stop \in [Stoppers -> {"idle", "waiting", "notrunning", "stopped", "failed"}]
        /\ target \in [Starters \cup Stoppers -> Daemons \cup {None}]
        /\ answered \in [Starters -> Daemons \cup {None}] /\ known \in [Starters -> SUBSET Daemons]
    BY DEF Init
  <2>4. /\ fatal = {} /\ foreign = {} /\ obstructed = {} /\ overlap = FALSE
        /\ crashes = 0 /\ fatals = 0
    BY DEF Init
  <2>5. /\ fatal \subseteq Daemons /\ foreign \subseteq Daemons /\ obstructed \subseteq Daemons
        /\ crashes \in 0..MaxCrashes /\ fatals \in 0..MaxFatals
    BY <2>4
  <2>7. overlap \in BOOLEAN
    BY DEF Init
  <2>8. \A d \in fatal : stage[d] \in Closing
    BY <2>4
  <2>6. pidFile \in Daemons \cup {None} /\ sock \in Daemons \cup {None}
    BY <2>1
  <2> QED
    BY <2>2, <2>3, <2>5, <2>6, <2>7, <2>8 DEF TypeOK
<1>2. TypeOK /\ [Next]_vars => TypeOK'
  <2> SUFFICES ASSUME TypeOK, [Next]_vars PROVE TypeOK'
    OBVIOUS
  <2> USE DEF TypeOK, Move, Stages, Booting, Closing
  <2>1. ASSUME NEW d \in Daemons, Boot(d) PROVE TypeOK'
    <3>1. CASE CheckPidFile(d)
      BY <3>1 DEF CheckPidFile, files, commands, answers, history, counters
    <3>2. CASE UnlinkStalePid(d)
      <4>1. CASE pidFile = None
        BY <3>2, <4>1 DEF UnlinkStalePid, commands, answers, counters
      <4>2. CASE pidFile # None
        BY <3>2, <4>2 DEF UnlinkStalePid, commands, answers, counters
      <4> QED
        BY <4>1, <4>2
    <3>3. CASE WritePidFile(d)
      BY <3>3 DEF WritePidFile, commands, answers, history, counters
    <3>4. CASE CleanStaleSocket(d)
      BY <3>4 DEF CleanStaleSocket, commands, answers, history, counters
    <3>5. CASE Listen(d)
      BY <3>5 DEF Listen, commands, answers, history, counters
    <3>6. CASE ListenOccupied(d)
      <4>1. stage' \in [Daemons -> Stages] /\ sock' \in Daemons \cup {None}
        BY <3>6 DEF ListenOccupied
      <4>2. unclean' \subseteq Daemons /\ obstructed' \subseteq Daemons
        BY <3>6 DEF ListenOccupied
      <4>3. UNCHANGED <<fatal, pidFile, foreign, commands, overlap, counters>>
        BY <3>6 DEF ListenOccupied
      <4>4. \A e \in fatal' : stage'[e] \in Closing
        BY <3>6 DEF ListenOccupied
      <4> QED
        BY <4>1, <4>2, <4>3, <4>4 DEF commands, answers, counters
    <3> QED
      BY <2>1, <3>1, <3>2, <3>3, <3>4, <3>5, <3>6 DEF Boot
  <2>2. ASSUME NEW d \in Daemons, ShutDown(d) PROVE TypeOK'
    BY <2>2 DEF ShutDown, StopServer, RemovePidFile, Exit, commands, answers, history, counters
  <2>3. ASSUME NEW d \in Daemons, Fatal(d) PROVE TypeOK'
    <3>1. fatal' \subseteq Daemons /\ unclean' \subseteq Daemons
      BY <2>3 DEF Fatal
    <3>4. fatals' \in 0..MaxFatals
      BY <2>3 DEF Fatal
    <3>2. stage' \in [Daemons -> Stages]
      BY <2>3 DEF Fatal
    <3>3. UNCHANGED <<files, foreign, commands, overlap, obstructed, crashes>>
      BY <2>3 DEF Fatal
    <3>5. \A e \in fatal' : stage'[e] \in Closing
      <4>1. CASE /\ fatal' = fatal \cup {d}
                 /\ stage' = [stage EXCEPT ![d] = "draining"]
        BY <4>1
      <4>2. CASE UNCHANGED <<stage, fatal>>
        BY <4>2
      <4>3. CASE /\ fatal' = fatal \ {d}
                 /\ stage' = [stage EXCEPT ![d] = "dead"]
        BY <4>3
      <4> QED
        BY <2>3, <4>1, <4>2, <4>3 DEF Fatal
    <3> QED
      BY <3>1, <3>2, <3>3, <3>4, <3>5 DEF files, commands, answers
  <2>4. ASSUME NEW d \in Daemons, Crash(d) PROVE TypeOK'
    BY <2>4 DEF Crash, files, commands, answers
  <2>5. ASSUME NEW d \in Daemons, PidReused(d) PROVE TypeOK'
    BY <2>5 DEF PidReused, files, commands, answers, history, counters
  <2>6. ASSUME NEW s \in Starters, Starter(s) PROVE TypeOK'
    <3>1. CASE StartFindsPid(s)
      BY <3>1 DEF StartFindsPid, files, answers, history, counters
    <3>2. ASSUME NEW d \in Daemons, StartSpawns(s, d) PROVE TypeOK'
      BY <3>2 DEF StartSpawns, files, answers, counters, Running
    <3>3. CASE StartProbes(s)
      BY <3>3 DEF StartProbes, Spawned, files, history, counters
    <3>4. CASE StartAnswered(s)
      BY <3>4 DEF StartAnswered, files, history, counters
    <3>5. CASE StartUnanswered(s)
      BY <3>5 DEF StartUnanswered, files, history, counters
    <3>6. CASE StartFails(s)
      BY <3>6 DEF StartFails, files, answers, history, counters
    <3> QED
      BY <2>6, <3>1, <3>2, <3>3, <3>4, <3>5, <3>6 DEF Starter
  <2>7. ASSUME NEW p \in Stoppers, Stopper(p) PROVE TypeOK'
    <3>1. CASE StopSignals(p)
      <4>1. pidFile \in Daemons /\ p \in Starters \cup Stoppers
        BY <3>1 DEF StopSignals
      <4>2. target' \in [Starters \cup Stoppers -> Daemons \cup {None}]
        BY <3>1, <4>1 DEF StopSignals
      <4>3. stop' \in [Stoppers -> {"idle", "waiting", "notrunning", "stopped", "failed"}]
        BY <3>1 DEF StopSignals
      <4>4. \/ stage' = stage /\ unclean' = unclean
            \/ stage' = [stage EXCEPT ![pidFile] = "draining"] /\ unclean' = unclean
            \/ /\ stage' = [stage EXCEPT ![pidFile] = "dead"]
               /\ unclean' = unclean \cup {pidFile}
        BY <3>1 DEF StopSignals
      <4>7. stage' \in [Daemons -> Stages]
        BY <4>1, <4>4
      <4>8. unclean' \subseteq Daemons
        BY <4>1, <4>4
      <4>5. \A e \in fatal : stage'[e] \in Closing
        BY <3>1, <4>1 DEF StopSignals
      <4>6. UNCHANGED <<fatal, files, foreign, start, answers, overlap, obstructed, counters>>
        BY <3>1 DEF StopSignals
      <4> QED
        BY <4>2, <4>3, <4>5, <4>6, <4>7, <4>8 DEF files, answers, counters
    <3> QED
      BY <2>7, <3>1 DEF Stopper, StopNotRunning, StopStalePid, StopSucceeds, StopTimesOut,
                        files, answers, history, counters
  <2>8. CASE UNCHANGED vars
    BY <2>8 DEF vars, files, commands, answers, history, counters
  <2> QED
    BY <2>1, <2>2, <2>3, <2>4, <2>5, <2>6, <2>7, <2>8 DEF Next, Daemon
<1> QED
  BY <1>1, <1>2, PTL DEF Spec

LEMMA SoleStep == TypeOK /\ SoleInv /\ [Next]_vars => SoleInv'
<1> USE DaemonsAssumption
<1> SUFFICES ASSUME TypeOK, SoleInv, [Next]_vars, ~overlap' PROVE SoleInv'
  BY DEF SoleInv
<1> USE DEF TypeOK, SoleInv, Move, Running, OwnsPid, Listening, Stages, Booting, Closing
<1>1. ASSUME NEW d \in Daemons, Boot(d) PROVE SoleInv'
  <2>1. CASE CheckPidFile(d)
    BY <1>1, <2>1 DEF CheckPidFile, files, commands, answers, history, counters
  <2>2. CASE UnlinkStalePid(d)
    <3>1. pidFile # None
      BY <1>1, <2>2 DEF UnlinkStalePid
    <3>2. /\ stage' = [stage EXCEPT ![d] = "nopid"]
          /\ UNCHANGED <<sock, overlap, obstructed>>
      BY <2>2, <3>1 DEF UnlinkStalePid
    <3>3. \A e \in Daemons : Running(e) => e = d
      BY <1>1, <2>2, <3>2 DEF UnlinkStalePid
    <3> QED
      BY <1>1, <3>2, <3>3
  <2>3. CASE WritePidFile(d)
    BY <1>1, <2>3 DEF WritePidFile, commands, answers, history, counters
  <2>4. CASE CleanStaleSocket(d)
    BY <1>1, <2>4 DEF CleanStaleSocket, commands, answers, history, counters
  <2>5. CASE Listen(d)
    BY <1>1, <2>5 DEF Listen, commands, answers, history, counters
  <2>6. CASE ListenOccupied(d)
    BY <1>1, <2>6 DEF ListenOccupied, commands, answers, counters
  <2> QED
    BY <1>1, <2>1, <2>2, <2>3, <2>4, <2>5, <2>6 DEF Boot
<1>2. ASSUME NEW d \in Daemons, ShutDown(d) PROVE SoleInv'
  <2>1. CASE StopServer(d)
    BY <2>1 DEF StopServer, commands, answers, history, counters
  <2>2. CASE RemovePidFile(d)
    BY <2>2 DEF RemovePidFile, commands, answers, history, counters
  <2>3. CASE Exit(d)
    BY <2>3 DEF Exit, commands, answers, history, counters
  <2> QED
    BY <1>2, <2>1, <2>2, <2>3 DEF ShutDown
<1>3. ASSUME NEW d \in Daemons, Fatal(d) PROVE SoleInv'
  BY <1>3 DEF Fatal, files, commands, answers
<1>4. ASSUME NEW d \in Daemons, Crash(d) \/ PidReused(d) PROVE SoleInv'
  <2>1. CASE Crash(d)
    BY <2>1 DEF Crash, files, commands, answers
  <2>2. CASE PidReused(d)
    BY <2>2 DEF PidReused, files, commands, answers, history, counters
  <2> QED
    BY <1>4, <2>1, <2>2
<1>5. ASSUME NEW s \in Starters, Starter(s) PROVE SoleInv'
  <2>1. ASSUME NEW d \in Daemons, StartSpawns(s, d) PROVE SoleInv'
    <3>1. /\ ~\E e \in Daemons : Running(e)
          /\ ~overlap
          /\ stage[d] = "unborn" /\ stage' = [stage EXCEPT ![d] = "spawned"]
          /\ UNCHANGED <<pidFile, sock, obstructed>>
      BY <2>1 DEF StartSpawns, files
    <3>2. stage \in [Daemons -> Stages] /\ obstructed' = {}
      BY <3>1
    <3>3. \A e \in Daemons : stage'[e] \in {"unborn", "spawned", "dead"}
      BY <3>1, <3>2
    <3>4. \A e \in Daemons : Running(e)' => e = d
      BY <3>1, <3>2
    <3> QED
      BY <3>2, <3>3, <3>4
  <2>2. CASE StartFindsPid(s) \/ StartProbes(s) \/ StartAnswered(s) \/ StartUnanswered(s)
             \/ StartFails(s)
    BY <2>2 DEF StartFindsPid, StartProbes, StartAnswered, StartUnanswered, StartFails,
                files, history, counters
  <2> QED
    BY <1>5, <2>1, <2>2 DEF Starter
<1>6. ASSUME NEW p \in Stoppers, Stopper(p) PROVE SoleInv'
  <2>1. CASE StopSignals(p)
    BY <2>1 DEF StopSignals, files, answers, counters
  <2> QED
    BY <1>6, <2>1 DEF Stopper, StopNotRunning, StopStalePid, StopSucceeds, StopTimesOut,
                      files, answers, history, counters
<1>7. CASE UNCHANGED vars
  BY <1>7 DEF vars, files, commands, answers, history, counters
<1> QED
  BY <1>1, <1>2, <1>3, <1>4, <1>5, <1>6, <1>7 DEF Next, Daemon

\* A daemon that never overlapped with another boots over whatever it finds and
\* is the one that the pid file and the socket lead to.
THEOREM SoleDaemon == Spec => []SoleDaemonReachable
<1>1. Init => SoleInv
  BY DaemonsAssumption
     DEF Init, SoleInv, Running, OwnsPid, Listening
<1>2. SoleInv => SoleDaemonReachable
  BY DEF SoleInv, SoleDaemonReachable
<1> QED
  BY <1>1, <1>2, SoleStep, TypeCorrect, PTL DEF Spec

LEMMA NamedStep == TypeOK /\ NamedInv /\ [Next]_vars => NamedInv'
<1> USE DaemonsAssumption
<1> SUFFICES ASSUME TypeOK, NamedInv, [Next]_vars PROVE NamedInv'
  OBVIOUS
<1> USE DEF TypeOK, NamedInv, Move, Running, Stages, Booting, Closing
<1>1. ASSUME NEW d \in Daemons, Boot(d) PROVE NamedInv'
  <2>1. CASE CheckPidFile(d)
    BY <1>1, <2>1 DEF CheckPidFile, files, commands, answers, history, counters
  <2>2. CASE UnlinkStalePid(d)
    BY <1>1, <2>2 DEF UnlinkStalePid, commands, answers, counters
  <2>3. CASE WritePidFile(d) \/ CleanStaleSocket(d)
    BY <1>1, <2>3 DEF WritePidFile, CleanStaleSocket, commands, answers, history, counters
  <2>4. CASE Listen(d)
    BY <1>1, <2>4 DEF Listen, commands, answers, history, counters
  <2>5. CASE ListenOccupied(d)
    BY <1>1, <2>5 DEF ListenOccupied, commands, answers, counters
  <2> QED
    BY <1>1, <2>1, <2>2, <2>3, <2>4, <2>5 DEF Boot
<1>2. ASSUME NEW d \in Daemons, ShutDown(d) PROVE NamedInv'
  BY <1>2 DEF ShutDown, StopServer, RemovePidFile, Exit, commands, answers, history, counters
<1>3. ASSUME NEW d \in Daemons, Fatal(d) PROVE NamedInv'
  BY <1>3 DEF Fatal, files, commands, answers
<1>4. ASSUME NEW d \in Daemons, Crash(d) \/ PidReused(d) PROVE NamedInv'
  BY <1>4 DEF Crash, PidReused, files, commands, answers, history, counters
<1>5. ASSUME NEW s \in Starters, Starter(s) PROVE NamedInv'
  <2>1. ASSUME NEW d \in Daemons, StartSpawns(s, d) PROVE NamedInv'
    BY <2>1 DEF StartSpawns, files, answers, counters
  <2> QED
    BY <1>5, <2>1 DEF Starter, StartFindsPid, StartProbes, StartAnswered, StartUnanswered,
                      StartFails, files, history, counters
<1>6. ASSUME NEW p \in Stoppers, Stopper(p) PROVE NamedInv'
  <2>1. CASE StopSignals(p)
    BY <2>1 DEF StopSignals, files, answers, counters
  <2> QED
    BY <1>6, <2>1 DEF Stopper, StopNotRunning, StopStalePid, StopSucceeds, StopTimesOut,
                      files, answers, history, counters
<1>7. CASE UNCHANGED vars
  BY <1>7 DEF vars, files, commands, answers, history, counters
<1> QED
  BY <1>1, <1>2, <1>3, <1>4, <1>5, <1>6, <1>7 DEF Next, Daemon

\* A daemon that shut down to the end is named by no file, whoever ran beside it.
THEOREM CleanStop == Spec => []CleanStopLeavesNothing
<1>1. Init => NamedInv
  BY DaemonsAssumption DEF Init, NamedInv
<1>2. NamedInv => CleanStopLeavesNothing
  BY DEF NamedInv, CleanStopLeavesNothing
<1> QED
  BY <1>1, <1>2, NamedStep, TypeCorrect, PTL DEF Spec

\* A dead daemon stays dead, and what is started or known only grows.
LEMMA Onward ==
    TypeOK /\ [Next]_vars =>
        /\ \A d \in Daemons : stage[d] # "unborn" => stage'[d] # "unborn"
        /\ \A d \in Daemons : stage[d] # "unborn" /\ Running(d)' => Running(d)
        /\ foreign \subseteq foreign' /\ (overlap => overlap')
<1> SUFFICES ASSUME TypeOK, [Next]_vars
             PROVE  /\ \A d \in Daemons : stage[d] # "unborn" => stage'[d] # "unborn"
                    /\ \A d \in Daemons : stage[d] # "unborn" /\ stage'[d] \notin {"unborn", "dead"}
                                            => stage[d] # "dead"
                    /\ foreign \subseteq foreign' /\ (overlap => overlap')
  BY DEF Running
<1>0. stage \in [Daemons -> Stages] /\ overlap \in BOOLEAN
  BY DEF TypeOK
<1> USE DEF Move, Running, Stages, Booting, Closing
<1>1. ASSUME NEW d \in Daemons, Boot(d) \/ ShutDown(d)
      PROVE  /\ \A e \in Daemons : stage[e] # "unborn" => stage'[e] # "unborn"
             /\ \A e \in Daemons : stage[e] = "dead" => stage'[e] = "dead"
             /\ foreign \subseteq foreign' /\ (overlap => overlap')
  BY <1>0, <1>1 DEF Boot, ShutDown, CheckPidFile, UnlinkStalePid, WritePidFile, CleanStaleSocket,
                    Listen, ListenOccupied, StopServer, RemovePidFile, Exit, history
<1>2. ASSUME NEW d \in Daemons, Fatal(d) \/ Crash(d) \/ PidReused(d)
      PROVE  /\ \A e \in Daemons : stage[e] # "unborn" => stage'[e] # "unborn"
             /\ \A e \in Daemons : stage[e] = "dead" => stage'[e] = "dead"
             /\ foreign \subseteq foreign' /\ (overlap => overlap')
  BY <1>0, <1>2 DEF Fatal, Crash, PidReused, history
<1>3. ASSUME NEW s \in Starters, Starter(s)
      PROVE  /\ \A e \in Daemons : stage[e] # "unborn" => stage'[e] = stage[e]
             /\ foreign \subseteq foreign' /\ (overlap => overlap')
  <2>1. ASSUME NEW d \in Daemons, StartSpawns(s, d)
        PROVE  /\ \A e \in Daemons : stage[e] # "unborn" => stage'[e] = stage[e]
               /\ foreign \subseteq foreign' /\ (overlap => overlap')
    BY <1>0, <2>1 DEF StartSpawns
  <2> QED
    BY <1>3, <2>1 DEF Starter, StartFindsPid, StartProbes, StartAnswered, StartUnanswered,
                      StartFails, history
<1>4. ASSUME NEW p \in Stoppers, Stopper(p)
      PROVE  /\ \A e \in Daemons : stage[e] # "unborn" => stage'[e] # "unborn"
             /\ \A e \in Daemons : stage[e] = "dead" => stage'[e] = "dead"
             /\ foreign \subseteq foreign' /\ (overlap => overlap')
  BY <1>0, <1>4 DEF Stopper, StopNotRunning, StopStalePid, StopSignals, StopSucceeds,
                    StopTimesOut, history
<1>5. CASE UNCHANGED vars
  BY <1>5 DEF vars, history
<1> QED
  BY <1>1, <1>2, <1>3, <1>4, <1>5 DEF Next, Daemon

\* A start command that takes no step of its own keeps its accounts.
Calm(s) == start'[s] = start[s] /\ target'[s] = target[s] /\ answered'[s] = answered[s]
           /\ known'[s] = known[s]

LEMMA AnswerKept ==
    TypeOK /\ AnswerInv /\ [Next]_vars =>
        \A s \in Starters : Calm(s) =>
            /\ start'[s] = "asking" => \A d \in known'[s] : stage'[d] # "unborn"
            /\ start'[s] = "asking" /\ ~overlap' /\ target'[s] \notin foreign' =>
                 \A d \in known'[s] : Running(d)' => d = target'[s]
            /\ start'[s] = "reported" /\ ~overlap' /\ target'[s] \notin foreign' =>
                 answered'[s] = target'[s] \/ answered'[s] \notin known'[s]
<1> SUFFICES ASSUME TypeOK, AnswerInv, [Next]_vars, NEW s \in Starters, Calm(s)
             PROVE  /\ start[s] = "asking" => \A d \in known[s] : stage'[d] # "unborn"
                    /\ start[s] = "asking" /\ ~overlap' /\ target[s] \notin foreign' =>
                         \A d \in known[s] : Running(d)' => d = target[s]
                    /\ start[s] = "reported" /\ ~overlap' /\ target[s] \notin foreign' =>
                         answered[s] = target[s] \/ answered[s] \notin known[s]
  BY DEF Calm
<1>1. /\ \A d \in Daemons : stage[d] # "unborn" => stage'[d] # "unborn"
      /\ \A d \in Daemons : stage[d] # "unborn" /\ Running(d)' => Running(d)
      /\ foreign \subseteq foreign' /\ (overlap => overlap')
  BY Onward
<1>2. known[s] \subseteq Daemons
  BY DEF TypeOK
<1> QED
  BY <1>1, <1>2 DEF AnswerInv

LEMMA AnswerStep == TypeOK /\ SoleInv /\ AnswerInv /\ [Next]_vars => AnswerInv'
<1> USE DaemonsAssumption, CommandsAssumption
<1> SUFFICES ASSUME TypeOK, SoleInv, AnswerInv, [Next]_vars PROVE AnswerInv'
  OBVIOUS
<1>0. /\ start \in [Starters -> {"idle", "waiting", "asking", "reported", "failed"}]
      /\ target \in [Starters \cup Stoppers -> Daemons \cup {None}]
      /\ answered \in [Starters -> Daemons \cup {None}] /\ known \in [Starters -> SUBSET Daemons]
  BY DEF TypeOK
<1>1. ASSUME NEW s \in Starters, StartProbes(s) PROVE AnswerInv'
  <2>1. /\ start' = [start EXCEPT ![s] = "asking"] /\ known' = [known EXCEPT ![s] = Spawned]
        /\ ProcessAlive(target[s]) /\ UNCHANGED <<stage, foreign, overlap, target, answered>>
    BY <1>1 DEF StartProbes, history
  <2>2. \A u \in Starters \ {s} : Calm(u)
    BY <1>0, <2>1 DEF Calm
  <2>3. start'[s] = "asking" /\ known'[s] = Spawned
    BY <1>0, <2>1
  <2>4. ASSUME ~overlap, target[s] \notin foreign, NEW d \in Spawned, Running(d)
        PROVE  d = target[s]
    BY <2>1, <2>4 DEF SoleInv, ProcessAlive, Spawned
  <2>5. \A d \in Spawned : stage[d] # "unborn"
    BY DEF Spawned
  <2> QED
    BY <2>1, <2>2, <2>3, <2>4, <2>5, AnswerKept DEF AnswerInv, Running
<1>2. ASSUME NEW s \in Starters, StartAnswered(s) PROVE AnswerInv'
  <2>1. /\ start[s] = "asking" /\ Listening(sock) /\ sock \in Daemons
        /\ start' = [start EXCEPT ![s] = "reported"] /\ answered' = [answered EXCEPT ![s] = sock]
        /\ UNCHANGED <<stage, foreign, overlap, target, known>>
    BY <1>2 DEF StartAnswered, history
  <2>2. \A u \in Starters \ {s} : Calm(u)
    BY <1>0, <2>1 DEF Calm
  <2>3. start'[s] = "reported" /\ answered'[s] = sock
    BY <1>0, <2>1
  <2>4. Running(sock)
    BY <2>1 DEF Listening, Running
  <2> QED
    BY <2>1, <2>2, <2>3, <2>4, AnswerKept DEF AnswerInv
<1>3. ASSUME NEW s \in Starters,
             \/ StartFindsPid(s) \/ StartUnanswered(s) \/ StartFails(s)
             \/ \E d \in Daemons : StartSpawns(s, d)
      PROVE  AnswerInv'
  <2>1. start'[s] \in {"waiting", "failed"}
    BY <1>0, <1>3 DEF StartFindsPid, StartUnanswered, StartFails, StartSpawns
  <2>2. \A u \in Starters \ {s} : Calm(u)
    BY <1>0, <1>3 DEF Calm, StartFindsPid, StartUnanswered, StartFails, StartSpawns, answers
  <2> QED
    BY <2>1, <2>2, AnswerKept DEF AnswerInv
<1>4. ASSUME NEW p \in Stoppers, Stopper(p) PROVE AnswerInv'
  <2>1. \A u \in Starters : Calm(u)
    BY <1>0, <1>4 DEF Calm, Stopper, StopNotRunning, StopStalePid, StopSignals, StopSucceeds,
                      StopTimesOut, answers
  <2> QED
    BY <2>1, AnswerKept DEF AnswerInv
<1>5. ASSUME NEW d \in Daemons, Daemon(d) PROVE AnswerInv'
  <2>1. UNCHANGED <<start, target, answered, known>>
    BY <1>5 DEF Daemon, Boot, ShutDown, CheckPidFile, UnlinkStalePid, WritePidFile,
                CleanStaleSocket, Listen, ListenOccupied, StopServer, RemovePidFile, Exit,
                Fatal, Crash, PidReused, commands, answers
  <2> QED
    BY <2>1, AnswerKept DEF AnswerInv, Calm
<1>6. CASE UNCHANGED vars
  <2>1. UNCHANGED <<start, target, answered, known>>
    BY <1>6 DEF vars, commands, answers
  <2> QED
    BY <2>1, AnswerKept DEF AnswerInv, Calm
<1> QED
  BY <1>1, <1>2, <1>3, <1>4, <1>5, <1>6 DEF Next, Starter

\* A start that reports a pid was answered by that very process, or by one that
\* came after it had last seen it alive.
THEOREM AnswerTrue == Spec => []StartAnswerMeans
<1>1. Init => SoleInv /\ AnswerInv
  BY DaemonsAssumption DEF Init, SoleInv, AnswerInv, Running, OwnsPid, Listening
<1>2. AnswerInv => StartAnswerMeans
  BY DEF AnswerInv, StartAnswerMeans
<1> QED
  BY <1>1, <1>2, SoleStep, AnswerStep, TypeCorrect, PTL DEF Spec

=============================================================================
