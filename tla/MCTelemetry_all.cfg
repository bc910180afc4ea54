SPECIFICATION TelemetrySpec
CONSTANTS
    l1 = l1
    l2 = l2
    t1 = t1
    t2 = t2
    t3 = t3
    m1 = m1
    m2 = m2
    k1 = k1
    k2 = k2
    MaxTrainings = 3
    Container <- MCContainer
    MaxStarts = 2
    Seeded = {"admin"}
    Guest = {"guest"}
    Key = {"k"}
    Amount <- MCAmount
    MaxRows = 2
    MaxRuns = 2
    Rule = {k1, k2}
    Threshold = k1
    Value = {50, 75}
    EventScore = {60}
    MaxSaves = 2
    Window = {6, 24}
    Day = 24
    Preset = {"brute_force", "ddos"}
    Request = {1, 2}
    MaxAlerts = 2
    AlertLimit = 1
    MaxPending = 2
    MaxCount = 2
    DemoList <- MCDemoList
    AlertSeverity <- MCSeverityOf
    Target = {"FALSE_POSITIVE"}
    Log = {l1, l2}
    Narrow = {l1}
    MaxFetch = 2
    Logged = {l1, l2}
    Stopped = {l1, l2}
    LastDays = {l2}
    TypeOf <- MCTypeOf
    AddressOf <- MCAddressOf
    TimeOf <- MCTimeOf
    TypeLimit = 1
    SourceLimit = 1
    MergedLimit = 1
    ActivityLimit = 1
    CopyLimit = 1
    Panel = {"stats", "sources", "activity"}
    MaxAsked = 2
    Located = {"a1", "a2", "a3"}
    IpOf <- MCIpOf
    CountryOf <- MCCountryOf
    Serious = {"a1"}
    OriginLimit = 2
    CountryLimit = 3
    MockOrigin = {"demo"}
    Search = {{"a1", "a2", "demo"}, {"a3"}}
    Line = {1, 2}
    DemoLine = {3}
    LineSeverity <- MCSeverityOf
    LineSource <- MCSourceOf
    SeverityOrder <- MCSeverityOrder
    Sender = {"IDS", "WINDOWS_SECURITY"}
    Admitted = {"IDS"}
    Hit = {1}
    Near = {1, 3}
    Recent = {2}
    PerPage = {1, 2}
    Field = {"timestamp", "severity"}
    LineRank <- MCRank
    BaseTotal = 7
    MaxPage = 5
    MaxKinds = 2
    Estimate = {0, 69, 100}
    DestPort = {22, 99, 443, 3306, 40000}
    RawPort <- MCRawPort
    GivenType = {"PORT_SCAN", "UNHEARD_OF"}
    Claimed = {0, 90}
    Outlier = {60, 97, 98}
    Entity = {t1, t2, t3, m1, m2}
    CategoryOf <- MCCategoryOf
    MockEntity = {m1, m2}
    Wanted = {t1, t2, m1}
    RowLimit = 2
    PageSize <- MCPageSize
    Sort = {"score_desc", "last_seen"}
    EntityRank <- MCThreatRank
    Shape <- MCShape
    Hours = 1
    MaxLogs <- MCMaxLogs
INVARIANTS
    TelemetryTypeOK
    AlertsPageIsServed
    QuietShowsQuery
    PanelsAgree
    ThreatsPageFits
    QuietForecastIsAsked
    SavedIsStored
    AlertHasCause
    LoadedIsOneTraining
    StopStopsAll
    SeedConverges
PROPERTIES
    ForecastStands
CHECK_DEADLOCK FALSE
