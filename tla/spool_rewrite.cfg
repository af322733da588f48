SPECIFICATION Spec
CONSTANTS
    s1 = s1
    s2 = s2
    g1 = g1
    a1 = a1
    ShellHooks = {s1, s2}
    GitHooks = {}
    AssistantHooks = {}
    Unwanted = {}
    MaxCrashes = 0
    MaxFaults = 1
    MaxUnreadable = 0
PROPERTY RewriteKeepsAppendedLines
