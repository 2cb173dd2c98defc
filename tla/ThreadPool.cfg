SPECIFICATION EndingSpec
CONSTANTS
    c1 = c1
    c2 = c2
    c3 = c3
    w1 = w1
    i1 = i1
    Conns = {c1, c2, c3}
    Workers = {w1}
    Peers = {i1}
    None = None
    BACKLOG = 1
    MAX_PER_IP = 1
    MAX_INFLIGHT = 1
INVARIANTS
    SlotsMatch
    NothingDropped
PROPERTIES
    QueuedIsServed
    Drains
