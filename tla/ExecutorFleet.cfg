\* Enrollment, rotation, revocation, removal and a second enrollment.
CONSTANTS
    t1 = t1
    t2 = t2
    NoToken = NoToken
    Tokens <- TwoTokens
    MaxFailures = 2
    MaxIssue = 2
    MaxAsks = 1
SPECIFICATION FairSpec
INVARIANTS
    TypeOK
    OneLiveSerial
    NoIdentityNoCredential
PROPERTY RevokedDaemonStops
