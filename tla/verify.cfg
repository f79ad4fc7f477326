SPECIFICATION ScriptSpec
CONSTANTS
    acceptance = acceptance
    managed = managed
    x = x
    y = y
    f = f
    g = g
    h = h
    out = out
    outManaged = outManaged
    tmp = tmp
    NoFile = NoFile
    Script = {acceptance, managed}
    Run <- MCRun
    Dir = {out, outManaged, tmp}
    Doc = {x, y}
    File = {f, g, h}
    Files <- MCFiles
    Stack <- MCStack
    Out <- MCOut
    Scratch = tmp
    Expected <- MCExpected
INVARIANTS
    VerdictSound
    LeftoversHarmless
