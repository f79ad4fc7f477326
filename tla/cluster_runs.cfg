SPECIFICATION FairSpec
CONSTANTS
    Run = {r1, r2, r3}
    Managed = {r1}
    Name = {n1, n2}
    Nobody = Nobody
    Hand = Hand
    MaxByHand = 1
INVARIANTS
    TypeOK
    OwnCluster
    CleanSlate
    CleansUp
PROPERTY NeverWedged
