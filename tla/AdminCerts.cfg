\* A person, three certificates, three or four shares of which two or three
\* rebuild the key.
CONSTANTS
    u1 = u1
    s1 = s1
    s2 = s2
    s3 = s3
    None = None
    Slot = Slot
    Users <- OneUser
    Serials <- ThreeSerials
    MaxShares = 4
    Cuts <- SomeCuts
    MaxGens = 2
    MaxSplits = 3
    Steps = 5
SYMMETRY Symmetry
SPECIFICATION Spec
INVARIANTS
    TypeOK
    SharesRecover
    Accountable
PROPERTY PresentsRenewed
\* The bounds stop the system.
CHECK_DEADLOCK FALSE
