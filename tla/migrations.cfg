SPECIFICATION FairSpec
CONSTANTS
    c1 = c1
    c2 = c2
    Runners <- TwoContainers
    History <- MCHistory
    Releases <- MCReleases
    MaxFaults = 2
INVARIANTS
    TypeOK
    InOrder
    OnceUnlessFailed
    AppliedMeansDone
PROPERTIES
    Upgraded
CHECK_DEADLOCK FALSE
