\* The life of a bound secret over one session, a submission and its retry.
CONSTANTS
    s1 = s1
    r1 = r1
    r2 = r2
    Sessions <- OneSession
    Requests <- TwoRequests
    None = None
    Maint = Maint
    Removal = Removal
    TtlCoversWait = FALSE
    Cap = 1
    MaxEvents = 1
SPECIFICATION Spec
SYMMETRY RequestSymmetry
VIEW PathView
INVARIANTS
    BindingsAreLive
    UndisturbedIsMasked
\* Submissions are single-use: when all are answered the system may stop.
CHECK_DEADLOCK FALSE
