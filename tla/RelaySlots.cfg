\* Permits, drain and shutdown of the relay listener.
CONSTANTS
    r1 = r1
    r2 = r2
    r3 = r3
    Requests <- ThreeRequests
    Cap = 2
SPECIFICATION FairSlots
INVARIANTS
    SlotsTypeOK
    SlotsConserved
    IdleIsFinal
PROPERTY EveryJobEnds
