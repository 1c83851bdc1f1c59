\* No spurious wakeups: a notify_one from an outdated select alone.
CONSTANTS
    Clients = {c1, c2}
    MaxSockFd = 5
    MaxRequests = 2
    SpuriousWakeups = FALSE
SPECIFICATION Spec
INVARIANT NoBlockingRead
SYMMETRY ClientSymmetry
CHECK_DEADLOCK FALSE
