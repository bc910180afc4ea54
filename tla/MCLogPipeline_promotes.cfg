SPECIFICATION FairSpec
CONSTANTS
    l1 = l1
    l2 = l2
    b1 = b1
    b2 = b2
    Log = {l1}
    Backend = {b1}
    Anomaly = {0}
    Threat = {0, 60}
    SubmittedDoc <- MCFreshOnly
    MaxStalled = 1
    MaxCrashes = 0
PROPERTY
    PromotesHighScores
CHECK_DEADLOCK FALSE
