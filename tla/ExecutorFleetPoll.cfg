\* A check the loop gave up on is answered later.
CONSTANTS
    t1 = t1
    t2 = t2
    NoToken = NoToken
    Tokens <- OneToken
    MaxFailures = 2
    MaxIssue = 2
    MaxAsks = 1
SPECIFICATION Spec
PROPERTY UnchangedMeansLive
