\* Violation: two partitions, no failure at all.
\* Behaviours end when all requests are used up: deadlock is not an error.
SPECIFICATION FairSpec
CONSTANTS
    t1 = t1
    t2 = t2
    d1 = d1
    d2 = d2
    Users = {u1}
    Tracks = {t1}
    Devices = {d1}
    Positions = {0, 1}
    Int4 = {0}
    Bodies <- OneBody
    Torn = Torn
    Nil = Nil
    Malformed = Malformed
    Faults = {}
    Requests = {r1, r2}
    Partitions = {p1, p2}
    MaxAttempts = 1
    Async = FALSE
    Workload = {"heartbeat"}
    Sequential = TRUE
    MaxRestarts = 0
PROPERTIES
    CacheAndTableAgree
CHECK_DEADLOCK FALSE
