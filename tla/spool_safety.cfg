SPECIFICATION Spec
CONSTANTS
    s1 = s1
    s2 = s2
    g1 = g1
    a1 = a1
    ShellHooks = {s1, s2}
    GitHooks = {}
    AssistantHooks = {a1}
    Unwanted = {s2}
    MaxCrashes = 1
    MaxFaults = 1
    MaxUnreadable = 1
INVARIANTS
    TypeOK
    SpooledSurvives
    StoredOnce
    AssistantAckSettled
