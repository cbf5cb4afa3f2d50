\* One session and two submissions of it.
CONSTANTS
    s1 = s1
    r1 = r1
    r2 = r2
    Sessions <- OneSession
    Requests <- TwoRequests
    None = None
    Maint = Maint
    Removal = Removal
SPECIFICATION FairSpec
INVARIANTS
    TypeOK
    OneResult
    ClaimedRowKept
    NoOrphanedLock
PROPERTIES
    ImplementsOneShot
    EveryRequestAnswered
    EveryRowReaped
\* Submissions are single-use: when all are answered the system may stop.
CHECK_DEADLOCK FALSE
