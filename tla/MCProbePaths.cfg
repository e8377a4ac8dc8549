\* A probe where docs.go has it: expected to be violated.
\* A server that has stopped stays so: deadlock is not an error.
SPECIFICATION FairHttpSpec
CONSTANTS
    r1 = r1
    r2 = r2
    Requests = {r1, r2}
    Ids = {"id", "trace"}
    Queries <- DocumentedProbe
    Files <- MCFiles
    Envs <- MCEnvs
    Breaks = {}
    Deviations = {"plainErrors", "emptyStrings"}
    Nil = Nil
PROPERTIES
    ImplementsContract
CHECK_DEADLOCK FALSE
