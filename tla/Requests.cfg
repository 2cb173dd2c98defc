SPECIFICATION MCSpec
CONSTANTS
    MAX_CHUNK_LINE_BYTES = 2
    MAX_TRAILER_BYTES = 3
    MaxHeader = 3
    MaxBody = 2
    MaxInput = 17
    MaxBurst = 2
    MaxOdd = 2
    None = None
    Requests <- MCRequests
    Lengths = {0, 1, 3}
    STREAM_CHUNK = 2
    MaxVersions = 3
INVARIANTS
    DecodesTheBody
    CutsNeverMisread
    LenientAgrees
    AnswersTheRange
    ConfirmedIsCurrent
    OneVersion
CHECK_DEADLOCK FALSE
