\* Liveness of the cleanup: one submission, its run and the reaper.
CONSTANTS
    s1 = s1
    r1 = r1
    r2 = r2
    Sessions <- OneSession
    Requests <- OneRequest
    None = None
    Maint = Maint
    Removal = Removal
    TtlCoversWait = TRUE
    Cap = 1
    MaxEvents = 3
SPECIFICATION FairSpec
PROPERTY PlaintextDies
\* Submissions are single-use: when all are answered the system may stop.
CHECK_DEADLOCK FALSE
