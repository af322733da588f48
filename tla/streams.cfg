CONSTANTS
    c1 = c1
    intel = intel
    mirror = mirror
    Clients = {c1}
    Services = {intel, mirror}
    CaptureTypes = {"git", "note"}
    TypesOf <- MCTypesOf
    MaxEmitted = 4
    MaxDeltas = 3
    MaxBeats = 2
SPECIFICATION StreamSpec
INVARIANTS
    StreamsTypeOK
    EachListenerInOrder
    DeliveredFaithfully
PROPERTIES
    RejectedForCause
    AnswersSettle
\* A client that has its answer and a bus with nothing to do may stop.
CHECK_DEADLOCK FALSE
