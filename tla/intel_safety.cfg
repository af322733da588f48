SPECIFICATION Spec
CONSTANTS
    EventCount = 2
    QueueMax = 1
    Threshold = 2
    Window = 1
    OpenTicks = 1
    Retries = 0
    Visibility = 2
    RescanEvery = 2
    MaxDaily = 1
    MaxFaults = 3
    MaxStops = 1
    MaxRedeliveries = 1
INVARIANTS
    TypeOK
    NoLostWakeup
    NoCallWhileOpen
    BreakerMatchesFailures
    ProcessedAfterFacts
    InFlightRecoverable
    BudgetPerRun
PROPERTIES
    ImplementsSerial
