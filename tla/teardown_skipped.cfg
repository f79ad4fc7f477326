SPECIFICATION Spec
CONSTANTS
    Faulty = TRUE
    MaxRuns = 1
INVARIANT TeardownAlways
