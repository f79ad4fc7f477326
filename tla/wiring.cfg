SPECIFICATION Spec
CONSTANT Documents <- MCDocuments
INVARIANTS
    TypeOK
    NoDefectReached
    GuaranteesHonoured
    ConditionalNeverSilent
    UniqueIdentities
    MeshComplete
    LayersOrdered
    DeclaredFlowsPass
    OnlyDeclaredFlowsPass
    ZeroTrust
PROPERTY NoOverwrite
