\* Three requests of one user, at the same time or not: entries disappear,
\* Redis fails, PostgreSQL's replies are lost, the process crashes.
\* Behaviours end when all requests are used up: deadlock is not an error.
SPECIFICATION FreshSpec
CONSTANTS
    t1 = t1
    t2 = t2
    d1 = d1
    d2 = d2
    Users = {u1}
    Tracks = {t1}
    Devices = {d1}
    Positions = {0, 1}
    Int4 = {0}
    Bodies <- OneBody
    Torn = Torn
    Nil = Nil
    Malformed = Malformed
    Faults = {"redis", "dbReply", "expiry", "crash"}
    Requests = {r1, r2, r3}
    Partitions = {p1}
    MaxAttempts = 1
    Async = FALSE
    Workload = {"start", "current", "heartbeat", "pause", "resume"}
    Sequential = FALSE
    MaxRestarts = 1
SYMMETRY Symmetry
INVARIANTS
    NoTornWrites
PROPERTIES
    StaleOnlyInDoubt
CHECK_DEADLOCK FALSE
