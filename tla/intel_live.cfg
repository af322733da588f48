SPECIFICATION FairSpec
CONSTANTS
    EventCount = 2
    QueueMax = 1
    Threshold = 2
    Window = 1
    OpenTicks = 1
    Retries = 1
    Visibility = 1
    RescanEvery = 1
    MaxDaily = 1
    MaxFaults = 2
    MaxStops = 1
    MaxRedeliveries = 0
PROPERTIES
    EventuallyProcessed
    DrainEnds
