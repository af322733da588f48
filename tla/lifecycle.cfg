CONSTANTS
    s1 = s1
    s2 = s2
    p1 = p1
    None = None
    Daemons <- MCDaemons
    Starters = {s1, s2}
    Stoppers = {p1}
    MaxCrashes = 1
    MaxFatals = 2
    MaxReused = 1
SPECIFICATION MCSpec
INVARIANTS
    TypeOK
    SoleDaemonReachable
    StartAnswerMeans
    CleanStopLeavesNothing
PROPERTY DaemonSettles
\* Commands and daemons end, and nobody has to type another command.
CHECK_DEADLOCK FALSE
