SPECIFICATION Spec
CONSTANTS
    t1 = t1
    t2 = t2
    h1 = h1
    h2 = h2
    l1 = l1
    l2 = l2
    Threads = {t1, t2}
    Hosts = {h1, h2}
    Locks = {l1, l2}
    None = None
    RENEW_BEFORE = 1
    NEG_CACHE_COOLDOWN = 2
    CACHE_MAX = 1
    NEG_CACHE_MAX = 1
    MAX_INFLIGHT = 1
    Lifetime = 2
    MaxClock = 1
    MaxIssued = 1
    MaxReload = 1
SYMMETRY MCSymmetry
CONSTRAINT ReloadAlone
INVARIANTS
    SingleFlight
    NoRetryInCooldown
    PermitsCounted
