SPECIFICATION Spec
CONSTANTS
    c1 = c1
    c2 = c2
    c3 = c3
    c4 = c4
    w1 = w1
    w2 = w2
    i1 = i1
    Conns = {c1, c2, c3, c4}
    Workers = {w1, w2}
    Peers = {i1}
    None = None
    BACKLOG = 1
    MAX_PER_IP = 2
    MAX_INFLIGHT = 1
SYMMETRY MCSymmetry
PROPERTIES
    ShedAtCap
