SPECIFICATION FairSpec
CONSTANTS
    r1 = r1
    r2 = r2
    e1 = e1
    e2 = e2
    Readers <- OneReader
    Editors <- TwoEditors
    Ttl = 2
    MaxCommits = 2
    MaxFaults = 1
INVARIANTS
    CommittedIsPurged
    MapsWithinTtl
PROPERTIES
    EventuallyShown
