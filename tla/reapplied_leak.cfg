SPECIFICATION Spec
CONSTANTS
    Faulty = FALSE
    MaxRuns = 1
INVARIANT NoSilentLeak
