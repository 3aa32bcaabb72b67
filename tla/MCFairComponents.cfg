CONSTANTS
    Versions = {v1, v2, v3}
    Callers = {t1, t2}
    None = None
    Sockets = {s1, s2, s3, s4}
    MaxFaults = 3
SPECIFICATION OneFairSpec
INVARIANTS
    OneActive
    AloneNeverTrips
    OneSocket
PROPERTIES
    AlwaysServed
    EveryCallEnds
    FeedEndsWithSession
    Reconnects
