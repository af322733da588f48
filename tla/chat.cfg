CONSTANTS
    s1 = s1
    s2 = s2
    t1 = t1
    t2 = t2
    t3 = t3
    t4 = t4
    Sessions = {s1, s2}
    Turns = {t1, t2, t3, t4}
    TuiTurns = {t1, t2}
    MaxSessions = 1
    MaxUnderway = 1
    MaxCrashes = 1
    MaxLoads = 3
SPECIFICATION MCSpec
INVARIANTS
    TuiTypeOK
    TurnRowsInOrder
    CalmUserSeesConversation
PROPERTIES
    HistoryWellFormed
    StreamingEnds
\* A user who is done may stop.
CHECK_DEADLOCK FALSE
