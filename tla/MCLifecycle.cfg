\* A process that starts, serves two requests, stops and is started again;
\* the start may fail, the stop may run out of time.
\* A process that has exited may stay so: deadlock is not an error.
SPECIFICATION LifecycleSpec
CONSTANTS
    t1 = t1
    t2 = t2
    d1 = d1
    d2 = d2
    Users = {u1}
    Tracks = {t1}
    Devices = {d1}
    Positions = {0}
    Int4 = {0}
    Bodies <- OneBody
    Torn = Torn
    Nil = Nil
    Malformed = Malformed
    Faults = {"startup"}
    Requests = {r1, r2}
    Partitions = {p1}
    MaxAttempts = 1
    Async = FALSE
    Workload = {"start", "heartbeat", "current", "pause"}
    Sequential = FALSE
    MaxRestarts = 1
SYMMETRY Symmetry
INVARIANTS
    InFlightFindsOpen
    OrderlyStopAnswersAll
    AckDurable
    MigratedFirst
PROPERTIES
    LossOnlyByStop
    DeliversAtLeastOnce
CHECK_DEADLOCK FALSE
