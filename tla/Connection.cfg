SPECIFICATION MCSpec
CONSTANTS
    p1 = p1
    p2 = p2
    rx = rx
    Producers = {p1, p2}
    Rx = rx
    STREAM_BUFFER = 2
    STREAM_CHUNK = 2
    Sizes <- MCSizes
    MaxSize = 3
    MaxAccepted = 5
    Framings = {"chunked", "close", "collect"}
    None = None
    NotANumber = NotANumber
    Requests <- MCRequests
    MaxRequests = 2
    Responses <- MCResponses
    TermLen = 2
    MaxHeader = 3
    MaxBody = 2
    Handshake = 1
    Lenient = FALSE
    MaxProduced = 1
    MAX_HEADER_FIELDS = 2
INVARIANTS
    InOrder
    NobodyStranded
    NoLostWakeup
    ResponsesIntact
    ContinueInTime
PROPERTIES
    ImplementsByteStream
    EndedBodyIsOver
    EveryRequestAnswered
