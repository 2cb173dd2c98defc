SPECIFICATION Spec
CONSTANTS
    None = None
    Clients = {c1, c2}
    c1 = c1
    c2 = c2
    Addresses <- MCAddresses
    MAX_INFLIGHT = 1
    MAX_PER_IP = 1
    IO_TIMEOUT = 1
    SHUTDOWN_GRACE = 1
    SIZE = 1
    ROOM = 1
    Want <- MCWant
INVARIANT InflightIsServed
CHECK_DEADLOCK FALSE
