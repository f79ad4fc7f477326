SPECIFICATION FairSpec
CONSTANTS
    Faulty = TRUE
    MaxRuns = 3
INVARIANTS
    TypeOK
    CheckTruthful
PROPERTIES
    DestroyNotCutShort
    EveryRunEnds
