\* Two processes, two users, a role, two versions and two passphrases.
CONSTANTS
    p1 = p1
    p2 = p2
    u1 = u1
    u2 = u2
    r1 = r1
    v1 = v1
    v2 = v2
    f1 = f1
    f2 = f2
    None = None
    Procs <- TwoProcs
    Users <- TwoUsers
    Roles <- OneRole
    Vers <- TwoVers
    Phrases <- TwoPhrases
    MaxRows = 2
    MaxSalts = 2
    Steps = 5
SYMMETRY Symmetry
SPECIFICATION Spec
INVARIANTS
    TypeOK
    AllReadable
PROPERTY ReadYourWrite
\* The bounds stop the deployment.
CHECK_DEADLOCK FALSE
