SPECIFICATION FairSpec
CONSTANTS
    c1 = c1
    c2 = c2
    s1 = s1
    s2 = s2
    Nobody = Nobody
    Component <- MCComponent
    Secret <- MCSecret
    Credentials <- OwnSecrets
    MaxFailures = 2
INVARIANTS
    TypeOK
    NothingDangles
    OneCallPerBranch
    ReadyMeansConnected
PROPERTIES
    RetainedByDefault
    ImplementsBranch
    BecomesReady
    DeletionEnds
