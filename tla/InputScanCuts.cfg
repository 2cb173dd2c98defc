SPECIFICATION ScanSpec
CONSTANTS
    MAX_CHUNK_LINE_BYTES = 2
    MAX_TRAILER_BYTES = 3
    MaxHeader = 3
    MaxBody = 2
    MaxInput = 11
    MaxBurst = 2
INVARIANT CutsDoNotMatter
CHECK_DEADLOCK FALSE
