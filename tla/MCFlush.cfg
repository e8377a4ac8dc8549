\* A process that stops with heartbeats in an asynchronous Writer.
\* A process that has exited may stay so: deadlock is not an error.
SPECIFICATION LifecycleSpec
CONSTANTS
    t1 = t1
    t2 = t2
    d1 = d1
    d2 = d2
    Users = {u1}
    Tracks = {t1}
    Devices = {d1}
    Positions = {0, 1}
    Int4 = {0}
    Bodies <- OneBody
    Torn = Torn
    Nil = Nil
    Malformed = Malformed
    Faults = {"startup", "malformed"}
    Requests = {r1, r2}
    Partitions = {p1}
    MaxAttempts = 1
    Async = TRUE
    Workload = {"heartbeat"}
    Sequential = FALSE
    MaxRestarts = 1
SYMMETRY Symmetry
INVARIANTS
    OrderlyStopSendsHeartbeats
CHECK_DEADLOCK FALSE
