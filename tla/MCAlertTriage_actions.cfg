SPECIFICATION Spec
CONSTANTS
    MaxAlerts = 1
    Limit = 1
    MaxPending = 1
    MaxCount = 2
    DemoList <- MCDemoList
    SeverityOf <- MCSeverityOf
    Target = {"INVESTIGATING", "FALSE_POSITIVE"}
PROPERTIES
    ActionsArePersisted
