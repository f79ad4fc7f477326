SPECIFICATION FairSpec
CONSTANT MaxAttempts = 2
INVARIANTS
    TypeOK
    OperatorFirst
    PassedMeansDelivered
    FailsOnlyByFault
PROPERTIES
    Delivers
    Converges
