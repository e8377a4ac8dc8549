\* Two heartbeats across failed produce requests and commits, rebalances,
\* a malformed message and a crash.  No symmetry: most properties are liveness.
\* Behaviours end when all requests are used up: deadlock is not an error.
SPECIFICATION FairSpec
CONSTANTS
    t1 = t1
    t2 = t2
    d1 = d1
    d2 = d2
    Users = {u1}
    Tracks = {t1}
    Devices = {d1}
    Positions = {0}
    Int4 = {0}
    Bodies <- OneBody
    Torn = Torn
    Nil = Nil
    Malformed = Malformed
    Faults = {"kafka", "commit", "rebalance", "malformed", "crash"}
    Requests = {r1, r2}
    Partitions = {p1}
    MaxAttempts = 1
    Async = FALSE
    Workload = {"heartbeat"}
    Sequential = FALSE
    MaxRestarts = 1
INVARIANTS
    CommittedWasHandled
    CommittedIsStored
PROPERTIES
    DeliversAtLeastOnce
    AckedIsStoredEventually
    EveryRequestAnswered
CHECK_DEADLOCK FALSE
