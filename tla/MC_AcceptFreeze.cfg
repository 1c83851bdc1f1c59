\* No spurious wakeups; the server threads weakly fair.
CONSTANTS
    Clients = {c1, c2}
    MaxSockFd = 5
    MaxRequests = 1
    SpuriousWakeups = FALSE
SPECIFICATION FairSpec
PROPERTY RequestsAnswered
CHECK_DEADLOCK FALSE
