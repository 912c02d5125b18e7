\* Two threads, one permit a server, and a retry for each call.
SPECIFICATION Spec
CONSTANTS
    Threads = {1, 2}
    Tasks = {"judge", "compile_dsl"}
    CompileTasks = {"compile_dsl"}
    Accepts <- Uniform
    HasExtras = TRUE
    Attempts = 2
    Concurrency = 1
    MaxFaults = 1
    MaxCalls = 2
INVARIANT NegotiationIsSafe
PROPERTIES CallsEnd
CHECK_DEADLOCK FALSE
