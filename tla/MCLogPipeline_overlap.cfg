SPECIFICATION FairSpec
CONSTANTS
    l1 = l1
    l2 = l2
    b1 = b1
    b2 = b2
    Log = {l1}
    Backend = {b1, b2}
    Anomaly = {0, 1}
    Threat = {0, 59, 60}
    SubmittedDoc <- MCSubmittedDoc
    MaxStalled = 1
    MaxCrashes = 2
INVARIANTS
    TypeOK
    OneRowPerDelivery
    RowsFollowTriage
    RowsAgreeWithLog
PROPERTIES
    ImplementsTriage
    StoredLogSettles
CHECK_DEADLOCK FALSE
