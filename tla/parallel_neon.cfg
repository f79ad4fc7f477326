SPECIFICATION Spec
CONSTANTS
    Run = {r1, r2}
    Managed = {r1, r2}
    Name = {n1, n2}
    Nobody = Nobody
    Hand = Hand
    MaxByHand = 0
INVARIANT OwnBranch
