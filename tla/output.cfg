SPECIFICATION FairSpec
CONSTANTS
    x = x
    y = y
    bad = bad
    f = f
    g = g
    h = h
    Doc <- MCDoc
    File <- MCFile
    Files <- MCFiles
    NoFile = NoFile
    Run = {r1, r2}
    Dir = {d, e}
INVARIANTS
    TypeOK
    CompleteTree
PROPERTIES
    RefusalKeepsOutput
    EveryCompileEnds
