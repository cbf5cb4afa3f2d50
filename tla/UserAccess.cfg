\* A session of a user, two elevations, the clock past the hard cap.
CONSTANTS
    s1 = s1
    c1 = c1
    c2 = c2
    NoSession = NoSession
    Sessions <- OneSession
    Ceremonies <- TwoCeremonies
    Idle = 2
    MaxSession = 4
    Tolerance = 1
    TokenTtl = 1
    Margin = 1
    ElevTtl = 1
    Horizon = 7
SPECIFICATION FairSpec
INVARIANTS
    TypeOK
    SweptIsDead
    OneDisclosurePerTouch
    OneAnswerPerChallenge
PROPERTY EverySessionEnds
\* The clock stops at its bound.
CHECK_DEADLOCK FALSE
