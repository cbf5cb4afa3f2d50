\* The documented fate of a delivered result, with a submission and its retry.
CONSTANTS
    s1 = s1
    r1 = r1
    r2 = r2
    Sessions <- OneSession
    Requests <- TwoRequests
    None = None
    Maint = Maint
    Removal = Removal
    TtlCoversWait = TRUE
    Cap = 1
    MaxEvents = 0
SPECIFICATION Spec
INVARIANT NoRawDelivery
\* Submissions are single-use: when all are answered the system may stop.
CHECK_DEADLOCK FALSE
