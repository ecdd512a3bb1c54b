SPECIFICATION HubSpec

CONSTANTS
    Sockets = {c1, c2}
    Streams = {s1}
    Publications = {m1, m2}
    Close = Close
    None = None
    QueueSize = 1
    MaxIdle = 1
    MaxTime = 3

SYMMETRY Symmetry

INVARIANTS
    PublicationsArrive
    ConnectionsAreTracked
PROPERTIES
    PruneSparesRecentSockets
CHECK_DEADLOCK FALSE
