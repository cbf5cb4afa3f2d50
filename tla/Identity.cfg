\* Two users, two keys, a token, two requests between check and handler.
CONSTANTS
    u1 = u1
    u2 = u2
    k1 = k1
    k2 = k2
    t1 = t1
    c1 = c1
    r1 = r1
    r2 = r2
    Machine = Machine
    Bootstrap = Bootstrap
    None = None
    Users <- TwoUsers
    Keys <- TwoKeys
    Tokens <- OneToken
    Chals <- OneChal
    Roles <- TwoRoles
    MaxTokens = 3
    MaxGate = 2
    Steps = 3
SYMMETRY Symmetry
SPECIFICATION Spec
INVARIANTS
    TypeOK
    AuditorsApart
    CacheAgrees
PROPERTIES
    RetiredKeysStayOut
    AdminKept
    BootstrapSparesOwners
\* The bound on handlers stops the core.
CHECK_DEADLOCK FALSE
