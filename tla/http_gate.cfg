CONSTANTS
    chat = chat
    events = events
    query = query
    Requests <- MCRequests
    Keys <- MCKeys
    WindowsOf <- MCWindowsOf
    Limit <- MCLimit
    Length <- MCLength
    Tcp = TRUE
    MaxAge = 4
SPECIFICATION Spec
INVARIANTS
    TypeOK
    NeverAboveLimit
    HitsAccounted
