SPECIFICATION Spec
CONSTANTS
    None = None
    Peers = {p1, p2}
    p1 = p1
    p2 = p2
    Streams = {s1, s2}
    s1 = s1
    s2 = s2
    MAX_CONNS = 1
    MAX_PENDING_INITIALS = 1
    SNI_PROBE_MAX = 2
    PENDING_INITIAL_TTL = 2
    CONN_IDLE_TIMEOUT = 2
    MAX_REQ_STREAMS = 1
    H3_STREAM_CHUNK = 1
    MaxRequest = 2
    Frames = {"headers", "bad headers", "cut"}
    Responses <- MCResponses
    MaxCredit = 1
    MaxProduced = 1
INVARIANTS
    TablesBounded
    FinMeansWhole
    NothingLeftUnsent
CHECK_DEADLOCK FALSE
SYMMETRY Symmetry
