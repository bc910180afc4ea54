SPECIFICATION OfficeSpec
CONSTANTS
    n1 = n1
    n2 = n2
    p1 = p1
    p2 = p2
    s1 = s1
    s2 = s2
    m = m
    Name = {n1, n2}
    Secret = {p1, p2}
    Slot = {s1, s2}
    MaxPairs = 4
    MaxSaves = 2
    FullName = {"System", "Eve"}
    Stock = {"System"}
    Phrase = {"short", "long"}
    Strong = {"short", "long"}
    Long = {"long"}
    MaxCalls = 2
    Contact = {"demo"}
    Grade = {"ANALYST", "VIEWER"}
    DemoUser = "demo"
    MaxTrouble = 1
    Stranger = {"a", "b"}
    FirstUsers <- MCFirst
    UserLimit = 1
    MockReport = m
    ReportType = {"DAILY", "WEEKLY"}
    ReportLength <- MCLength
    PickDate = {1}
    ServeTime = {2, 9}
    MaxReports = 2
    ReportTypeOf <- MCTypeOf
    ReportFormatOf <- MCFormatOf
    ListLimit = 1
    AlertId = {n1, n2}
    AlertSeverity = {"CRITICAL"}
    AlertStatus = {"NEW", "RESOLVED"}
    AttackType = {"BRUTE_FORCE", "PORT_SCAN"}
    LoggedKind <- ReportLogs
    LogBound = 1
    IpRows = 1
    PortRows = 1
    PdfLimit = 1
SYMMETRY Symmetry
INVARIANTS
    OfficeTypeOK
    SessionIsWhole
    RevokedIsOut
    ShownIsStored
    PreferencesShown
    ReportsPageShowsArchive
    ReportAddsUp
PROPERTIES
    DisabledUntilReactivated
CHECK_DEADLOCK FALSE
