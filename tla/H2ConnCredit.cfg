SPECIFICATION Spec
CONSTANTS
    None = None
    Sids = {1}
    DEFAULT_WINDOW = 1
    MAX_WINDOW = 2
    MAX_FRAME = 1
    MAX_CONCURRENT_STREAMS = 2
    MAX_CONTINUATION_FRAMES = 1
    RST_FLOOD_MIN = 1
    RST_ABSOLUTE_CAP = 1
    MAX_CONTROL_ACKS_PER_PASS = 1
    MaxHeader = 2
    MaxBody = 1
    InitialWindows = {0, 2, 3}
    Increments = {0, 1}
    Responses <- MCResponses
    MaxFrames = 4
    MaxProduced = 1
INVARIANT CreditReturned
CHECK_DEADLOCK FALSE
