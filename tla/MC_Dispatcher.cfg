\* Two clients, two descriptors, the second above m_max_sockfd while the
\* first is held; two requests in all, which may be pipelined on one
\* socket; spurious wakeups on; the server threads weakly fair.
CONSTANTS
    Clients = {c1, c2}
    MaxSockFd = 4
    MaxRequests = 2
    SpuriousWakeups = TRUE
SPECIFICATION FairSpec
INVARIANT RequestsFramed
INVARIANT ResponsesFramed
PROPERTY ConnectionsAccepted
CHECK_DEADLOCK FALSE
