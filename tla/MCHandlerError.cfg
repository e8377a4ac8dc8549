\* Violation: the consumer's Upsert fails.
\* Behaviours end when all requests are used up: deadlock is not an error.
SPECIFICATION Spec
CONSTANTS
    t1 = t1
    t2 = t2
    d1 = d1
    d2 = d2
    Users = {u1}
    Tracks = {t1}
    Devices = {d1}
    Positions = {0, 1}
    Int4 = {0}
    Bodies <- OneBody
    Torn = Torn
    Nil = Nil
    Malformed = Malformed
    Faults = {"db"}
    Requests = {r1}
    Partitions = {p1}
    MaxAttempts = 1
    Async = FALSE
    Workload = {"heartbeat"}
    Sequential = FALSE
    MaxRestarts = 0
SYMMETRY Symmetry
INVARIANTS
    CommittedIsStored
CHECK_DEADLOCK FALSE
