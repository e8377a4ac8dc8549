\* Two requests of any kind, panics among them, and a stop.
\* A server that has stopped stays so: deadlock is not an error.
SPECIFICATION FairHttpSpec
CONSTANTS
    r1 = r1
    r2 = r2
    Requests = {r1, r2}
    Ids = {"id", "trace"}
    Queries <- MCQueries
    Files <- MCFiles
    Envs <- MCEnvs
    Breaks = {"panic", "encode", "config"}
    Deviations = {"rootProbes", "plainErrors", "emptyStrings"}
    Nil = Nil
INVARIANTS
    HttpTypeOK
    DocumentedEnvWorks
    ObserversAgree
    ReturnedAreCounted
PROPERTIES
    ImplementsContract
    StopReturns
CHECK_DEADLOCK FALSE
