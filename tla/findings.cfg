SPECIFICATION Spec
CONSTANTS
    Revisions = {v1, v2}
    Issues = {i1, i2}
    MaxRuns = 3
SYMMETRY FindingsSymmetry
INVARIANTS TypeOK ReportedIsRecorded FirstSeenIsFirst
CHECK_DEADLOCK FALSE
