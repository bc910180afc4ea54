\* One account, two roles: a created analyst.
SPECIFICATION Spec
CONSTANTS
    Email = {"demo"}
    Else = {"admin"}
    First <- MCFirst
    Limit = 2
    Demo = "demo"
    Role = {"ANALYST", "VIEWER"}
    Slot = {1, 2}
    MaxTrouble = 1
PROPERTIES
    ChosenRoleIsGiven
CHECK_DEADLOCK FALSE
