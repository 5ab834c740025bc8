SPECIFICATION FairSpec
CONSTANTS
    m1 = m1
    m2 = m2
    Clones <- MCClones
    MaxCommits = 3
    MaxFaults = 1
    BusyClone = FALSE
INVARIANTS
    TypeOK
    TagIsTestedRelease
    ShippedMeansOut
PROPERTIES
    ResumeShips
