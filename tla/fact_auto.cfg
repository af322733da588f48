SPECIFICATION Spec
CONSTANTS
    e1 = e1
    e2 = e2
    v1 = v1
    v2 = v2
    Events = {e1, e2}
    Values = {v1, v2}
    Answers <- MCAnswers
    AutoApprove = TRUE
    MaxJobs = 2
    MaxWrites = 2
    MaxInterrupts = 1
INVARIANTS
    TypeOK
    SupersededClosed
PROPERTY NeverForgotten
CHECK_DEADLOCK FALSE
