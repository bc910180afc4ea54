SPECIFICATION Spec
CONSTANTS
    l1 = l1
    l2 = l2
    b1 = b1
    b2 = b2
    Log = {l1, l2}
    Backend = {b1, b2}
    Anomaly = {0}
    Threat = {0, 60}
    SubmittedDoc <- MCFreshOnly
    MaxStalled = 1
    MaxCrashes = 1
SYMMETRY Symmetry
INVARIANTS
    JobHasDocument
    TriagedOnce
    LossHasCause
CHECK_DEADLOCK FALSE
