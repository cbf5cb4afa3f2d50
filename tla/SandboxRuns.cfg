\* Two runs at a time, a spool of two lines, a sink that takes one at a time;
\* two policy changes, and one crash or failure.
CONSTANTS
    r1 = r1
    r2 = r2
    None = None
    Boot = Boot
    Runs <- TwoRuns
    Loggers <- TwoLogs
    Events <- AllEvents
    Policies <- Barring
    Toml <- Strict
    Capacity = 2
    Batch = 2
    SinkCap = 1
    Builtin = FALSE
    Trusted = TRUE
    Accidents = 1
SPECIFICATION Spec
INVARIANTS
    OnRecord
    SecretsAreClaimed
PROPERTIES
    Drains
    PolicyReaches
CHECK_DEADLOCK FALSE
