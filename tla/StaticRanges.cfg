SPECIFICATION MCSpec
CONSTANTS
    MAX_CHUNK_LINE_BYTES = 2
    MAX_TRAILER_BYTES = 3
    MaxHeader = 3
    MaxBody = 2
    MaxInput = 2
    MaxBurst = 2
    MaxOdd = 0
    None = None
    Requests <- MCRequests
    Lengths = {0, 1, 3}
    STREAM_CHUNK = 2
    MaxVersions = 3
INVARIANT ManyRangesGetAll
CHECK_DEADLOCK FALSE
