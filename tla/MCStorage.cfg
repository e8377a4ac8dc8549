\* Two unsynchronised requests of one user with two bodies, a table that
\* refuses the position of one of them, a Writer that tries twice, and every
\* failure of Redis, PostgreSQL and Kafka, and a crash.
\* Behaviours end when all requests are used up: deadlock is not an error.
SPECIFICATION Spec
CONSTANTS
    t1 = t1
    t2 = t2
    d1 = d1
    d2 = d2
    Users = {u1}
    Tracks = {t1, t2}
    Devices = {d1, d2}
    Positions = {0, 1}
    Int4 = {0}
    Bodies <- TwoBodies
    Torn = Torn
    Nil = Nil
    Malformed = Malformed
    Faults = {"redis", "expiry", "db", "dbReply", "kafka", "crash"}
    Requests = {r1, r2}
    Partitions = {p1}
    MaxAttempts = 2
    Async = FALSE
    Workload = {"start", "current", "heartbeat", "pause", "resume"}
    Sequential = FALSE
    MaxRestarts = 1
SYMMETRY Symmetry
INVARIANTS
    TypeOK
    AckDurable
    NoMixedSessions
PROPERTIES
    NotFoundIsTrue
CHECK_DEADLOCK FALSE
