SPECIFICATION Spec
CONSTANTS
    None = None
    Clients = {c1, c2}
    c1 = c1
    c2 = c2
    Listener = Listener
    Waker = Waker
    MAX_CONNS = 1
    IO_TIMEOUT = 1
    SHUTDOWN_GRACE = 1
    SIZE = 1
    ROOM = 1
    MaxAsked = 1
    Want <- MCWant
INVARIANTS
    SocketsSeen
    WakeNotLost
    BacklogSeen
CHECK_DEADLOCK FALSE
